---------------------------- MODULE SubNtfSteps ----------------------------
(***************************************************************************)
(* SubNtfInv's invariant is kept by the steps that end subscriptions, in   *)
(* sub_ntf_terminate_sub and in the final callbacks of sysrepo's           *)
(* subscriptions, and by establish-subscription up to its last step.       *)
(***************************************************************************)
EXTENDS SubNtfInv

\* A leaf that names no prover is left to Zenon.
USE ZenonT(30)

(***************************************************************************)
(* Sysrepo subscriptions are removed and taken off the lists, and          *)
(* subscriptions are marked as terminating.                                *)
(***************************************************************************)

Kept(j) ==
    /\ subs'[j].id = subs[j].id /\ subs'[j].nc = subs[j].nc /\ subs'[j].type = subs[j].type
    /\ subs'[j].flt = subs[j].flt /\ subs'[j].xp = subs[j].xp /\ (subs[j].term => subs'[j].term)
    /\ IsInjective(subs'[j].srs) /\ Range(subs'[j].srs) \subseteq Range(subs[j].srs)
    /\ subs'[j].term => Range(subs'[j].srs) \cap sr' \subseteq leaked'
    /\ subs'[j].type = "ntf" /\ ~subs'[j].term /\ subs'[j].srs = <<>> =>
        \/ th'["rpc"].pc = "subscribe" /\ j = Len(subs)
        \/ \E u \in Thread : th'[u].pc = "term" /\ th'[u].at = j

LEMMA EndingStep ==
    ASSUME TypeOK, SafeInv, ~undefined, SysrepoMatches',
           NEW t \in Thread, \A u \in Thread : u # t => th'[u] = th[u],
           UNCHANGED <<nextId, owner, status, sess, filters, change, missed, miskilled>>,
           sr' \subseteq sr, DOMAIN subs' = DOMAIN subs, Len(subs') = Len(subs),
           \A j \in DOMAIN subs : Kept(j),
           \A u \in Thread : u # t /\ Locked(th[u]) => lock' = u /\ TermInv(th[u])',
           ThreadInv(t)', t \in Session => SessInv(t)',
           t = "rpc" => ~Establishing /\ ~Establishing',
           t = "rpc" \/ th["rpc"].pc = "subscribe" => RpcInv'
    PROVE  SafeInv'
<1>1. Establishing' = Establishing /\ (Establishing' => th'["rpc"] = th["rpc"])
  BY Constants, SMT DEF Establishing
<1>2. ASSUME NEW u \in Thread, u # t PROVE ThreadInv(u)'
  <2>1. ThreadInv(u) /\ th'[u] = th[u]
    BY <1>2 DEF SafeInv
  <2>2. TermInv(th[u])'
    <3>1. CASE Locked(th[u])
      BY <1>2, <3>1
    <3>2. CASE ~Locked(th[u])
      <4>1. th[u].pc \notin {"term", "unsub", "finish"}
        BY <3>2 DEF Locked
      <4>2. CASE th[u].pc = "sleep"
        <5>1. /\ Right(th[u]) /\ th[u].id > 0 /\ (Establishing => th[u].id # th["rpc"].id)
              /\ \A i \in DOMAIN subs : subs[i].id = th[u].id => subs[i].term
          BY <2>1, <4>2 DEF ThreadInv, TermInv
        <5>2. \A i \in DOMAIN subs' : subs'[i].id = th[u].id => subs'[i].term
          BY <5>1 DEF Kept
        <5>3. QED
          BY <1>1, <2>1, <4>2, <5>1, <5>2, SMT DEF TermInv, Right
      <4>3. CASE th[u].pc # "sleep"
        BY <2>1, <4>1, <4>3 DEF TermInv
      <4>4. QED
        BY <4>2, <4>3
    <3>3. QED
      BY <3>1, <3>2
  <2>3. CallbackInv(th[u])'
    BY <1>1, <2>1 DEF ThreadInv, CallbackInv, Kept
  <2>4. QED
    BY <1>2, <2>1, <2>2, <2>3 DEF ThreadInv, Locked
<1>3. RpcInv'
  <2>1. CASE t # "rpc" /\ th["rpc"].pc # "subscribe"
    BY <1>1, <2>1, Constants DEF SafeInv, RpcInv, Kept
  <2>2. QED
    BY <2>1
<1>4. ASSUME NEW s \in Session PROVE SessInv(s)'
  <2>1. CASE s # t
    BY <2>1, Constants, SMT DEF SafeInv, SessInv, Kept
  <2>2. QED
    BY <2>1
<1>5. IdInv'
  BY SMT DEF SafeInv, IdInv, Kept
<1>6. ListInv'
  <2>1. \A j \in DOMAIN subs : \A x \in Range(subs'[j].srs) : x[1] = subs'[j].id
    BY DEF SafeInv, ListInv, Kept
  <2>2. QED
    BY <2>1, SMT DEF ListInv, Kept
<1>7. FilterInv'
  BY SMT DEF SafeInv, FilterInv, Kept
<1>8. StatusExact'
  <2>1. \A s \in Session : OwnSubs(s)' = OwnSubs(s)
    BY DEF OwnSubs, Kept
  <2>2. \A s \in Session : BeingMade(s)' = BeingMade(s)
    BY <1>1 DEF BeingMade, Establishing
  <2>3. QED
    BY <2>1, <2>2 DEF SafeInv, StatusExact
<1>9. QED
  BY <1>2, <1>3, <1>4, <1>5, <1>6, <1>7, <1>8 DEF SafeInv

(* sub_ntf_terminate_sub up to the removal from the array. *)
LEMMA TermWorkSafe ==
    ASSUME TypeOK, CountInv, SafeInv, ~undefined, NEW t \in Thread
    PROVE  (LockPass(t) \/ Unsubscribe(t) \/ UnsubscribeFails(t) \/ Terminating(t) \/ Relock(t))
           => TypeOK' /\ CountInv' /\ SafeInv'
<1>1. ASSUME LockPass(t) PROVE TypeOK' /\ CountInv' /\ SafeInv'
  <2> USE <1>1
  <2> DEFINE q == th[t]  e == subs[q.at]
             r == [q EXCEPT !.pc = "unsub", !.inner = TRUE, !.cb = Head(e.srs),
                            !.left = (IF q.inner THEN q.left ELSE Len(e.srs)) - 1]
  <2>1. /\ q.pc = "term" /\ e.type = "ntf" /\ e.srs # <<>> /\ sidlock' = Head(e.srs) /\ Become(t, r)
        /\ UNCHANGED <<subs, lock, nextId, sr, status, sess, owner, filters, change, changes, leaked, missed,
                       undefined, miskilled>>
    BY DEF LockPass, config, bound, hist
  <2>2. ThreadInv(t) /\ q \in ThreadState
    BY ThreadStates DEF SafeInv
  <2>3. q.at \in DOMAIN subs /\ e.id = q.id /\ ~e.term
    BY <2>1, <2>2 DEF ThreadInv, TermInv
  <2>4. Head(e.srs) \in SrId /\ Len(e.srs) \in Nat
    BY <2>1, <2>3, SubsShape, SMT
  <2>5. r \in ThreadState
    <3>1. (IF q.inner THEN q.left ELSE Len(e.srs)) - 1 \in Int
      BY <2>4, ThreadStates, SMT
    <3>2. QED
      BY <2>2, <2>4, <3>1 DEF ThreadState
  <2>6. th' \in [Thread -> ThreadState] /\ th'[t] = r /\ \A u \in Thread : u # t => th'[u] = th[u]
    BY <2>1, <2>5, BecomeEffect
  <2>7. ThreadStepTypes /\ UNCHANGED Shared
    BY <2>1, <2>4, <2>6 DEF ThreadStepTypes, Shared, TypeOK
  <2>8. /\ th'[t].pc = "unsub" /\ th'[t].at = q.at /\ th'[t].id = q.id /\ th'[t].sr = q.sr
        /\ th'[t].cb = Head(e.srs) /\ th'[t].by = q.by
    BY <2>2, <2>6, SMT DEF ThreadState
  <2> HIDE DEF r
  <2>9. ThreadInv(t)'
    <3>1. Locked(q)
      BY <2>1 DEF Locked
    <3>2. (Locked(th[t]) => lock = t)' /\ (th[t].id < nextId)' /\ TermInv(th[t])'
      BY <2>1, <2>2, <2>3, <2>8, <3>1 DEF ThreadInv, TermInv
    <3>3. q.sr # None => t # "rpc" /\ t \in Session \cup {"notif"}
      BY <2>2, Constants DEF ThreadInv
    <3>4. CallbackInv(th[t])'
      BY <2>1, <2>2, <2>6, <2>8, <3>3, Constants DEF ThreadInv, CallbackInv, Establishing
    <3>5. QED
      BY <2>8, <3>2, <3>3, <3>4 DEF ThreadInv
  <2>10. t = "rpc" => RpcInv' /\ ~Establishing /\ ~Establishing'
    BY <2>1, <2>8 DEF SafeInv, RpcInv, Establishing
  <2>11. t \in Session => SessInv(t)'
    BY <2>1, <2>8 DEF SafeInv, SessInv
  <2>12. \A u \in Thread : u # t /\ Locked(th[u]) => lock' = u
    BY <2>1 DEF SafeInv, ThreadInv
  <2>13. QED
    BY <2>1, <2>6, <2>7, <2>8, <2>9, <2>10, <2>11, <2>12, ThreadStep
<1>2. ASSUME Unsubscribe(t) PROVE TypeOK' /\ CountInv' /\ SafeInv'
  <2> USE <1>2
  <2> DEFINE q == th[t]  k == q.at  rest == Tail(subs[k].srs)
             last == rest = <<>>
             e == IF last THEN [subs[k] EXCEPT !.srs = <<>>, !.term = TRUE] ELSE [subs[k] EXCEPT !.srs = rest]
             r == IF last THEN [q EXCEPT !.pc = "sleep", !.ncs = subs[k].nc]
                  ELSE IF q.left > 0 THEN [q EXCEPT !.pc = "term"] ELSE [q EXCEPT !.pc = "done", !.inner = FALSE]
  <2>1. /\ q.pc = "unsub" /\ q.cb \in sr /\ sr' = sr \ {q.cb} /\ Put(k, e) /\ Become(t, r)
        /\ lock' = (IF last THEN None ELSE lock) /\ sidlock' \in {sidlock, None}
        /\ UNCHANGED <<nextId, status, sess, owner, filters, change, changes, undefined, leaked, missed, miskilled>>
    <3>1. /\ q.pc = "unsub" /\ q.cb \in sr /\ sr' = sr \ {q.cb}
          /\ UNCHANGED <<nextId, status, sess, owner, filters, change, changes, undefined, leaked, missed, miskilled>>
      BY DEF Unsubscribe, bound, config, hist
    <3>2. /\ Put(k, e) /\ Become(t, r) /\ lock' = (IF last THEN None ELSE lock) /\ sidlock' \in {sidlock, None}
      <4>1. CASE last
        BY <4>1 DEF Unsubscribe, Put, Become
      <4>2. CASE ~last
        BY <4>2 DEF Unsubscribe, Put, Become, LockClear, Goto
      <4>3. QED
        BY <4>1, <4>2
    <3>3. QED
      BY <3>1, <3>2
  <2>2. /\ q \in ThreadState /\ ThreadInv(t) /\ k \in DOMAIN subs /\ subs[k].id = q.id /\ ~subs[k].term
        /\ subs[k].type = "ntf" /\ subs[k].srs # <<>> /\ Head(subs[k].srs) = q.cb /\ lock = t
    BY <2>1, ThreadStates DEF SafeInv, ThreadInv, TermInv, Locked
  <2>3. subs[k] \in Subscriptions /\ subs[k].nc \in Session /\ subs[k].srs \in Seq(SrId) /\ IsInjective(subs[k].srs)
    BY <2>2, SubsShape DEF SafeInv, ListInv
  <2>4. /\ q.cb \in Range(subs[k].srs) /\ rest \in Seq(SrId) /\ IsInjective(rest)
        /\ Range(rest) = Range(subs[k].srs) \ {q.cb}
    BY <2>2, <2>3, TailProperties, SMT
  <2> HIDE DEF rest, last
  <2>5. th' \in [Thread -> ThreadState] /\ th'[t] = r /\ \A u \in Thread : u # t => th'[u] = th[u]
    <3>1. /\ [q EXCEPT !.pc = "sleep", !.ncs = subs[k].nc] \in ThreadState
          /\ [q EXCEPT !.pc = "term"] \in ThreadState /\ [q EXCEPT !.pc = "done", !.inner = FALSE] \in ThreadState
      BY <2>2, <2>3 DEF ThreadState
    <3>2. r \in ThreadState
      BY <3>1
    <3>3. QED
      BY <2>1, <3>2, BecomeEffect
  <2>6. /\ th'[t].id = q.id /\ th'[t].at = k /\ th'[t].sr = q.sr /\ th'[t].by = q.by
        /\ th'[t].pc \in {"sleep", "term", "done"} /\ (th'[t].pc = "sleep" <=> last)
        /\ (last => th'[t].ncs = subs[k].nc)
    BY <2>2, <2>5, SMT DEF ThreadState
  <2> HIDE DEF r
  <2>7. /\ e \in Subscriptions /\ e.id = subs[k].id /\ e.nc = subs[k].nc /\ e.type = subs[k].type
        /\ e.srs = rest /\ e.term = last /\ e.flt = subs[k].flt /\ e.xp = subs[k].xp
    <3>1. CASE last
      <4>1. e = [subs[k] EXCEPT !.srs = <<>>, !.term = TRUE] /\ rest = <<>> /\ <<>> \in Seq(SrId)
        BY <3>1, SMT DEF last
      <4>2. QED
        BY <2>3, <3>1, <4>1 DEF Subscriptions
    <3>2. CASE ~last
      <4>1. e = [subs[k] EXCEPT !.srs = rest] /\ subs[k].term = FALSE /\ last = FALSE
        BY <2>2, <2>3, <3>2 DEF Subscriptions, last
      <4>2. QED
        BY <2>3, <2>4, <4>1 DEF Subscriptions
    <3>3. QED
      BY <3>1, <3>2
  <2> HIDE DEF e
  <2>8. /\ subs' \in Seq(Subscriptions) /\ Len(subs') = Len(subs) /\ DOMAIN subs' = DOMAIN subs
        /\ subs'[k] = e /\ \A j \in DOMAIN subs : j # k => subs'[j] = subs[j]
        /\ \A j \in DOMAIN subs : subs'[j].id = subs[j].id
    BY <2>1, <2>2, <2>7, PutEffect
  <2>9. TypeOK' /\ CountInv'
    <3>1. lock' \in Thread \cup {None} /\ sidlock' \in SrId \cup {None}
      BY <2>1 DEF TypeOK
    <3>2. QED
      BY <2>1, <2>5, <2>8, <3>1 DEF TypeOK, CountInv
  <2>10. \A u \in Thread : u # t => ~Locked(th[u])
    BY <2>1, OthersUnlocked DEF Locked
  <2>11. t = "rpc" => ~Establishing /\ ~Establishing' /\ RpcInv'
    BY <2>1, <2>6 DEF SafeInv, RpcInv, Establishing
  <2>12. th["rpc"].pc # "subscribe"
    BY <2>1, <2>10, Constants DEF Locked
  <2>13. ThreadInv(t)'
    <3>1. Establishing' = Establishing /\ (Establishing => th'["rpc"] = th["rpc"])
      BY <2>5, <2>11, Constants, SMT DEF Establishing
    <3>2. q.id > 0 /\ (Establishing => q.id # th["rpc"].id)
      <4>1. q.id > 0
        BY <2>2, SubsShape, SMT
      <4>2. QED
        BY <2>2, <2>12, <4>1 DEF Establishing, SafeInv, RpcInv
    <3>3. last => \A i \in DOMAIN subs : subs'[i].id = q.id => subs'[i].term
      BY <2>2, <2>7, <2>8 DEF SafeInv, IdInv
    <3>4. last => owner[q.id] = subs[k].nc
      BY <2>2 DEF SafeInv, IdInv
    <3>5. TermInv(th[t])'
      <4>1. CASE last
        BY <2>1, <2>6, <2>8, <3>1, <3>2, <3>3, <3>4, <4>1 DEF TermInv, Right
      <4>2. CASE ~last
        BY <2>2, <2>6, <2>7, <2>8, <4>2 DEF TermInv, last
      <4>3. QED
        BY <4>1, <4>2
    <3>6. CallbackInv(th[t])'
      BY <2>1, <2>2, <2>4, <2>6, <2>7, <2>8, <3>1 DEF ThreadInv, CallbackInv
    <3>7. QED
      BY <2>1, <2>2, <2>6, <3>5, <3>6 DEF ThreadInv, Locked
  <2>14. t \in Session => SessInv(t)'
    BY <2>1, <2>6, <2>7, <2>8, SMT DEF SafeInv, SessInv, Idle
  <2>15. ASSUME NEW j \in DOMAIN subs PROVE Kept(j)
    <3>1. CASE j = k
      <4>1. last => Range(rest) = {}
        BY SMT DEF last, Range
      <4>2. QED
        BY <2>2, <2>4, <2>7, <2>8, <3>1, <4>1 DEF Kept, last
    <3>2. CASE j # k
      <4>1. subs[j].type = "ntf" /\ ~subs[j].term => subs[j].srs # <<>>
        BY <2>1, <2>10, <2>12 DEF SafeInv, ListInv, Locked
      <4>2. QED
        BY <2>1, <2>8, <3>2, <4>1 DEF SafeInv, ListInv, Kept
    <3>3. QED
      BY <3>1, <3>2
  <2>16. SysrepoMatches'
    <3>1. \A u \in Thread, x \in sr : th[u].sr = x /\ th[u].pc # "idle" => th'[u].sr = x /\ th'[u].pc # "idle"
      BY <2>5, <2>6
    <3>2. \A i \in DOMAIN subs : \A x \in Range(subs[i].srs) : x # q.cb => x \in Range(subs'[i].srs)
      BY <2>4, <2>7, <2>8
    <3>3. ASSUME NEW i \in DOMAIN subs, i # k PROVE q.cb \notin Range(subs[i].srs)
      <4>1. subs[i].id # subs[k].id
        BY <2>2, <3>3 DEF SafeInv, IdInv
      <4>2. \A j \in DOMAIN subs : \A x \in Range(subs[j].srs) : x[1] = subs[j].id
        BY DEF SafeInv, ListInv
      <4>3. QED
        BY <2>2, <2>4, <4>1, <4>2
    <3>4. \A x \in sr' :
              \/ \E i \in DOMAIN subs' : subs'[i].id = x[1] /\ x \in Range(subs'[i].srs)
              \/ \E u \in Thread : th'[u].sr = x /\ th'[u].pc # "idle"
              \/ x \in leaked
      <4> TAKE x \in sr'
      <4>1. x \in sr /\ x # q.cb
        BY <2>1
      <4>2. \/ \E i \in DOMAIN subs : subs[i].id = x[1] /\ x \in Range(subs[i].srs)
            \/ \E u \in Thread : th[u].sr = x /\ th[u].pc # "idle"
            \/ x \in leaked
        BY <2>12, <4>1 DEF SafeInv, SysrepoMatches
      <4>3. CASE \E i \in DOMAIN subs : subs[i].id = x[1] /\ x \in Range(subs[i].srs)
        BY <2>8, <3>2, <4>1, <4>3
      <4>4. CASE \E u \in Thread : th[u].sr = x /\ th[u].pc # "idle"
        BY <3>1, <4>1, <4>4
      <4>5. QED
        BY <4>2, <4>3, <4>4
    <3>5. \A i \in DOMAIN subs : subs[i].term \/ subs[i].id \in missed \/ Range(subs[i].srs) \subseteq sr
      BY DEF SafeInv, SysrepoMatches
    <3>6. ASSUME NEW i \in DOMAIN subs
          PROVE  subs'[i].term \/ subs'[i].id \in missed \/ Range(subs'[i].srs) \subseteq sr'
      <4>1. CASE i = k
        BY <2>1, <2>2, <2>4, <2>7, <2>8, <3>5, <4>1
      <4>2. CASE i # k
        BY <2>1, <2>8, <3>3, <3>5, <4>2
      <4>3. QED
        BY <4>1, <4>2
    <3>7. QED
      BY <2>1, <2>8, <3>4, <3>6 DEF SysrepoMatches
  <2>17. sr' \subseteq sr
    BY <2>1
  <2>18. QED
    BY <2>1, <2>5, <2>8, <2>9, <2>10, <2>11, <2>12, <2>13, <2>14, <2>15, <2>16, <2>17, EndingStep
<1>3. ASSUME UnsubscribeFails(t) PROVE TypeOK' /\ CountInv' /\ SafeInv'
  <2> USE <1>3
  <2> DEFINE q == th[t]
             r == IF q.left > 0 THEN [q EXCEPT !.pc = "term"] ELSE [q EXCEPT !.pc = "done", !.inner = FALSE]
  <2>1. /\ q.pc = "unsub" /\ sidlock' = None /\ Become(t, r)
        /\ UNCHANGED <<Shared, lock, sess, change, missed, undefined, miskilled>>
    BY DEF UnsubscribeFails, LockClear, Goto, Become, Shared, config, bound, hist
  <2>2. ThreadInv(t) /\ q \in ThreadState
    BY ThreadStates DEF SafeInv
  <2>3. r \in ThreadState
    BY <2>2, StateMoves
  <2>4. th' \in [Thread -> ThreadState] /\ th'[t] = r /\ \A u \in Thread : u # t => th'[u] = th[u]
    BY <2>1, <2>3, BecomeEffect
  <2>5. /\ th'[t].pc \in {"term", "done"} /\ th'[t].id = q.id /\ th'[t].at = q.at
        /\ th'[t].sr = q.sr /\ th'[t].ncs = q.ncs /\ th'[t].by = q.by
    BY <2>2, <2>4, SMT DEF ThreadState
  <2> HIDE DEF r
  <2>6. ThreadStepTypes
    BY <2>1, <2>4 DEF ThreadStepTypes, TypeOK
  <2>7. t = "rpc" => ~Establishing /\ ~Establishing'
    BY <2>1, <2>5 DEF Establishing
  <2>8. ThreadInv(t)'
    <3>1. Establishing' = Establishing /\ (Establishing => th'["rpc"] = th["rpc"])
      BY <2>4, <2>7, Constants, SMT DEF Establishing
    <3>2. TermInv(th[t])'
      BY <2>1, <2>2, <2>5, <3>1 DEF ThreadInv, TermInv, Right, Shared
    <3>3. CallbackInv(th[t])'
      BY <2>1, <2>2, <2>5, <3>1 DEF ThreadInv, CallbackInv, Shared
    <3>4. QED
      BY <2>1, <2>2, <2>5, <3>2, <3>3 DEF ThreadInv, Shared, Locked
  <2>9. t = "rpc" => RpcInv'
    BY <2>1, <2>5 DEF SafeInv, RpcInv, Establishing
  <2>10. t \in Session => SessInv(t)'
    BY <2>1, <2>5 DEF SafeInv, SessInv, Shared, Idle
  <2>11. \A u \in Thread : u # t /\ Locked(th[u]) => lock' = u
    BY <2>1 DEF SafeInv, ThreadInv
  <2>12. QED
    BY <2>1, <2>4, <2>5, <2>6, <2>7, <2>8, <2>9, <2>10, <2>11, ThreadStep
<1>4. ASSUME Terminating(t) PROVE TypeOK' /\ CountInv' /\ SafeInv'
  <2> USE <1>4
  <2> DEFINE q == th[t]  k == q.at  e == [subs[k] EXCEPT !.term = TRUE]  r == [q EXCEPT !.pc = "sleep"]
  <2>1. /\ q.pc = "term" /\ (subs[k].type = "push" \/ subs[k].srs = <<>>) /\ Put(k, e) /\ lock' = None /\ Become(t, r)
        /\ UNCHANGED <<sidlock, nextId, status, sess, owner, filters, change, changes, undefined, missed, miskilled>>
    BY DEF Terminating, Goto, Fault, bound, config
  <2>2. \/ sr' = sr \ Range(subs[k].srs) /\ leaked' = leaked
        \/ sr' = sr /\ leaked' = leaked \cup Range(subs[k].srs)
    BY DEF Terminating
  <2>3. q \in ThreadState /\ ThreadInv(t) /\ k \in DOMAIN subs /\ subs[k].id = q.id /\ ~subs[k].term /\ Right(q)
    BY <2>1, ThreadStates DEF SafeInv, ThreadInv, TermInv
  <2>4. th' \in [Thread -> ThreadState] /\ th'[t] = r /\ \A u \in Thread : u # t => th'[u] = th[u]
    <3>1. r \in ThreadState
      BY <2>3 DEF ThreadState
    <3>2. QED
      BY <2>1, <3>1, BecomeEffect
  <2>5. th'[t].pc = "sleep" /\ th'[t].id = q.id /\ th'[t].sr = q.sr /\ th'[t].ncs = q.ncs /\ th'[t].by = q.by
    BY <2>3, <2>4 DEF ThreadState
  <2> HIDE DEF r
  <2>6. /\ e \in Subscriptions /\ e.id = subs[k].id /\ e.nc = subs[k].nc /\ e.type = subs[k].type
        /\ e.srs = subs[k].srs /\ e.term /\ e.flt = subs[k].flt /\ e.xp = subs[k].xp
    <3>1. subs[k] \in Subscriptions
      BY <2>3, SubsShape
    <3>2. QED
      BY <3>1 DEF Subscriptions
  <2> HIDE DEF e
  <2>7. /\ subs' \in Seq(Subscriptions) /\ Len(subs') = Len(subs) /\ DOMAIN subs' = DOMAIN subs
        /\ subs'[k] = e /\ \A j \in DOMAIN subs : j # k => subs'[j] = subs[j]
        /\ \A j \in DOMAIN subs : subs'[j].id = subs[j].id
    BY <2>1, <2>3, <2>6, PutEffect
  <2>8. sr' \subseteq sr
    BY <2>2
  <2>9. TypeOK' /\ CountInv'
    BY <2>1, <2>4, <2>7, <2>8 DEF TypeOK, CountInv
  <2>10. \A u \in Thread : u # t => ~Locked(th[u])
    BY <2>1, OthersUnlocked DEF Locked
  <2>11. t = "rpc" => ~Establishing /\ ~Establishing' /\ RpcInv'
    BY <2>1, <2>5 DEF SafeInv, RpcInv, Establishing
  <2>12. th["rpc"].pc # "subscribe"
    BY <2>1, <2>10, Constants DEF Locked
  <2>13. ThreadInv(t)'
    <3>1. Establishing' = Establishing /\ (Establishing => th'["rpc"] = th["rpc"])
      BY <2>4, <2>11, Constants, SMT DEF Establishing
    <3>2. q.id > 0 /\ (Establishing => q.id # th["rpc"].id)
      <4>1. q.id > 0
        BY <2>3, SubsShape, SMT
      <4>2. QED
        BY <2>3, <2>12, <4>1 DEF Establishing, SafeInv, RpcInv
    <3>3. \A i \in DOMAIN subs : subs'[i].id = q.id => subs'[i].term
      BY <2>3, <2>6, <2>7 DEF SafeInv, IdInv
    <3>4. TermInv(th[t])'
      BY <2>1, <2>3, <2>5, <2>7, <3>1, <3>2, <3>3 DEF TermInv, Right
    <3>5. CallbackInv(th[t])'
      BY <2>1, <2>3, <2>5, <2>6, <2>7, <3>1, SMT DEF ThreadInv, CallbackInv
    <3>6. QED
      BY <2>1, <2>3, <2>5, <3>4, <3>5 DEF ThreadInv, Locked
  <2>14. t \in Session => SessInv(t)'
    BY <2>1, <2>5, <2>6, <2>7, SMT DEF SafeInv, SessInv, Idle
  <2>15. ASSUME NEW j \in DOMAIN subs PROVE Kept(j)
    <3>1. CASE j = k
      BY <2>2, <2>3, <2>6, <2>7, <3>1 DEF SafeInv, ListInv, Kept
    <3>2. CASE j # k
      <4>1. subs[j].type = "ntf" /\ ~subs[j].term => subs[j].srs # <<>>
        BY <2>1, <2>10, <2>12, <3>2 DEF SafeInv, ListInv, Locked
      <4>2. QED
        BY <2>2, <2>7, <3>2, <4>1 DEF SafeInv, ListInv, Kept
    <3>3. QED
      BY <3>1, <3>2
  <2>16. SysrepoMatches'
    <3>1. \A u \in Thread, x \in sr : th[u].sr = x /\ th[u].pc # "idle" => th'[u].sr = x /\ th'[u].pc # "idle"
      BY <2>4, <2>5
    <3>2. \A i \in DOMAIN subs : subs'[i].srs = subs[i].srs
      BY <2>6, <2>7
    <3>3. \A i \in DOMAIN subs : i # k => \A x \in Range(subs[i].srs) : x \notin Range(subs[k].srs)
      BY <2>3, SMT DEF SafeInv, ListInv, IdInv
    <3>4. leaked \subseteq leaked'
      BY <2>2
    <3>5. \A x \in sr' :
              \/ \E i \in DOMAIN subs' : subs'[i].id = x[1] /\ x \in Range(subs'[i].srs)
              \/ \E u \in Thread : th'[u].sr = x /\ th'[u].pc # "idle"
              \/ x \in leaked'
      BY <2>7, <2>8, <2>12, <3>1, <3>2, <3>4 DEF SafeInv, SysrepoMatches
    <3>6. \A i \in DOMAIN subs' : subs'[i].term \/ subs'[i].id \in missed \/ Range(subs'[i].srs) \subseteq sr'
      BY <2>2, <2>6, <2>7, <3>2, <3>3 DEF SafeInv, SysrepoMatches
    <3>7. QED
      BY <2>1, <3>5, <3>6 DEF SysrepoMatches
  <2>17. QED
    BY <2>1, <2>4, <2>7, <2>8, <2>9, <2>10, <2>11, <2>12, <2>13, <2>14, <2>15, <2>16, EndingStep
<1>5. ASSUME Relock(t) PROVE TypeOK' /\ CountInv' /\ SafeInv'
  <2> USE <1>5
  <2> DEFINE q == th[t]  r == [q EXCEPT !.pc = "finish"]
  <2>1. /\ q.pc = "sleep" /\ lock = None /\ lock' = t /\ Become(t, r)
        /\ UNCHANGED <<Shared, sidlock, sess, change, missed, undefined, miskilled>>
    BY DEF Relock, Goto, Shared, config, bound, hist
  <2>2. ThreadInv(t) /\ q \in ThreadState
    BY ThreadStates DEF SafeInv
  <2>3. r \in ThreadState
    BY <2>2 DEF ThreadState
  <2>4. th' \in [Thread -> ThreadState] /\ th'[t] = r /\ \A u \in Thread : u # t => th'[u] = th[u]
    BY <2>1, <2>3, BecomeEffect
  <2>5. th'[t].pc = "finish" /\ th'[t].id = q.id /\ th'[t].sr = q.sr /\ th'[t].ncs = q.ncs /\ th'[t].by = q.by
    BY <2>2, <2>4 DEF ThreadState
  <2> HIDE DEF r
  <2>6. ThreadStepTypes
    BY <2>1, <2>4 DEF ThreadStepTypes, TypeOK
  <2>7. t = "rpc" => ~Establishing /\ ~Establishing'
    BY <2>1, <2>5 DEF Establishing
  <2>8. ThreadInv(t)'
    <3>1. Establishing' = Establishing /\ (Establishing => th'["rpc"] = th["rpc"])
      BY <2>4, <2>7, Constants, SMT DEF Establishing
    <3>2. TermInv(th[t])'
      BY <2>1, <2>2, <2>5, <3>1 DEF ThreadInv, TermInv, Right, Shared
    <3>3. CallbackInv(th[t])'
      BY <2>1, <2>2, <2>5, <3>1 DEF ThreadInv, CallbackInv, Shared
    <3>4. QED
      BY <2>1, <2>2, <2>5, <3>2, <3>3 DEF ThreadInv, Shared
  <2>9. t = "rpc" => RpcInv'
    BY <2>1, <2>5 DEF SafeInv, RpcInv, Establishing
  <2>10. t \in Session => SessInv(t)'
    BY <2>1, <2>5 DEF SafeInv, SessInv, Shared, Idle
  <2>11. \A u \in Thread : u # t /\ Locked(th[u]) => lock' = u
    BY <2>1, OthersUnlocked
  <2>12. QED
    BY <2>1, <2>4, <2>5, <2>6, <2>7, <2>8, <2>9, <2>10, <2>11, ThreadStep
<1>6. QED
  BY <1>1, <1>2, <1>3, <1>4, <1>5

(* The thread is back from a callback, with or without having ended the    *)
(* subscription.                                                           *)
LEMMA CallbackEndEffect ==
    ASSUME TypeOK, CountInv, SafeInv, ~undefined, NEW t \in Session \cup {"notif", "timer"},
           Become(t, CallbackEnd(t)), th[t].pc \in {"cb", "done"}, t \in Session => th[t].sr # None,
           DOMAIN subs' = DOMAIN subs, \A i \in DOMAIN subs : subs'[i].nc = subs[i].nc /\ subs'[i].id = subs[i].id,
           UNCHANGED <<sess, missed, nextId>>
    PROVE  /\ t \in Thread /\ t # "rpc"
           /\ th' \in [Thread -> ThreadState] /\ \A u \in Thread : u # t => th'[u] = th[u]
           /\ th'[t].sr = None /\ th'[t].pc \in {"idle", "unsubs"}
           /\ ThreadInv(t)' /\ (t \in Session => SessInv(t)')
<1>1. t \in Thread /\ t # "rpc"
  BY Constants
<1>2. CallbackEnd(t) \in ThreadState
  BY IdleType, SMT DEF CallbackEnd, ThreadState
<1>3. th' \in [Thread -> ThreadState] /\ th'[t] = CallbackEnd(t) /\ \A u \in Thread : u # t => th'[u] = th[u]
  BY <1>1, <1>2, BecomeEffect
<1>4. /\ th'[t].sr = None /\ th'[t].id = 0 /\ th'[t].pc \in {"idle", "unsubs"}
      /\ (t \in Session => th'[t].pc = "unsubs")
  BY <1>3, SMT DEF CallbackEnd, Idle
<1>5. ThreadInv(t)'
  <2>1. nextId' > 0
    BY SMT DEF TypeOK
  <2>2. QED
    BY <1>4, <2>1 DEF ThreadInv, TermInv, CallbackInv, Locked
<1>6. t \in Session => SessInv(t)'
  <2> HAVE t \in Session
  <2>1. SessInv(t) /\ th[t].sr # None /\ th[t].pc # "idle"
    BY DEF SafeInv
  <2>2. th'[t].pc = "unsubs" /\ th'[t].sr = None /\ sess'[t] = "ending"
    BY <1>4, <2>1 DEF SessInv
  <2>3. \A i \in DOMAIN subs' : subs'[i].nc = t => subs'[i].id \in missed'
    BY <2>1 DEF SessInv
  <2>4. QED
    BY <2>2, <2>3 DEF SessInv
<1>7. QED
  BY <1>1, <1>3, <1>4, <1>5, <1>6

(* The final callback of a sysrepo subscription. *)
LEMMA CallbackSafe ==
    ASSUME TypeOK, CountInv, SafeInv, ~undefined, NEW t \in Session \cup {"notif", "timer"}
    PROVE  (Terminated(t) \/ TerminatedDone(t))
           => TypeOK' /\ CountInv' /\ (undefined' \/ SafeInv')
<1>1. ASSUME Terminated(t) PROVE TypeOK' /\ CountInv' /\ (undefined' \/ SafeInv')
  <2> USE <1>1
  <2> DEFINE q == th[t]
             usable == {i \in Found(q.id, None) : ~subs[i].term}
             isLast(i) == t = "timer" \/ subs[i].srs = <<q.sr>>
  <2>1. /\ q.pc = "cb" /\ (q.nolock \/ lock = None)
        /\ subs' = [i \in DOMAIN subs |-> IF i \in usable /\ t # "timer"
                                          THEN [subs[i] EXCEPT !.srs = Without(@, q.sr)] ELSE subs[i]]
        /\ UNCHANGED <<sidlock, nextId, status, sess, owner, filters, change, changes, leaked, missed, miskilled>>
    BY DEF Terminated, bound, config
  <2>2. t \in Thread /\ t # "rpc"
    BY Constants
  <2>3. \A i \in DOMAIN subs : i \in usable <=> subs[i].id = q.id /\ ~subs[i].term
    BY DEF Found
  <2>4. usable \subseteq DOMAIN subs
    BY DEF Found
  <2> HIDE DEF usable
  <2>5. /\ subs' \in Seq(Subscriptions) /\ Len(subs') = Len(subs) /\ DOMAIN subs' = DOMAIN subs
        /\ \A j \in DOMAIN subs :
              /\ subs'[j].id = subs[j].id /\ subs'[j].nc = subs[j].nc /\ subs'[j].type = subs[j].type
              /\ subs'[j].flt = subs[j].flt /\ subs'[j].xp = subs[j].xp /\ subs'[j].term = subs[j].term
              /\ subs'[j].srs = IF j \in usable /\ t # "timer" THEN Without(subs[j].srs, q.sr) ELSE subs[j].srs
    <3>1. ASSUME NEW j \in DOMAIN subs
          PROVE  LET e == [subs[j] EXCEPT !.srs = Without(@, q.sr)] IN
                 /\ e \in Subscriptions /\ e.id = subs[j].id /\ e.nc = subs[j].nc /\ e.type = subs[j].type
                 /\ e.flt = subs[j].flt /\ e.xp = subs[j].xp /\ e.term = subs[j].term
                 /\ e.srs = Without(subs[j].srs, q.sr)
      <4>1. subs[j] \in Subscriptions /\ subs[j].srs \in Seq(SrId) /\ IsInjective(subs[j].srs)
        BY SubsShape DEF SafeInv, ListInv
      <4>2. Without(subs[j].srs, q.sr) \in Seq(SrId)
        BY <4>1, WithoutProperties
      <4>3. QED
        BY <4>1, <4>2 DEF Subscriptions
    <3>2. \A j \in DOMAIN subs : subs[j] \in Subscriptions
      BY SubsShape
    <3>3. subs' \in [1 .. Len(subs) -> Subscriptions] /\ Len(subs) \in Nat
      BY <2>1, <3>1, <3>2, SubsShape
    <3>4. subs' \in Seq(Subscriptions) /\ Len(subs') = Len(subs) /\ DOMAIN subs' = DOMAIN subs
      BY <3>3, SubsShape, SMT
    <3>5. QED
      BY <2>1, <3>1, <3>4
  <2>6. /\ ThreadInv(t) /\ q \in ThreadState /\ (t = "timer" => q.sr = None)
        /\ (t # "timer" => q.sr # None /\ q.id = q.sr[1] /\ (Establishing => q.id # th["rpc"].id))
    BY <2>1, <2>2, ThreadStates, Constants DEF SafeInv, ThreadInv, CallbackInv
  <2>7. \A j \in DOMAIN subs : /\ subs[j].srs \in Seq(SrId) /\ IsInjective(subs[j].srs)
                               /\ \A x \in Range(subs[j].srs) : x[1] = subs[j].id
    BY SubsShape DEF SafeInv, ListInv
  <2>8. ASSUME NEW j \in DOMAIN subs
        PROVE  /\ IsInjective(subs'[j].srs) /\ Range(subs'[j].srs) \subseteq Range(subs[j].srs)
               /\ \A x \in Range(subs[j].srs) : x # q.sr => x \in Range(subs'[j].srs)
               /\ subs[j].srs # <<>> /\ subs[j].srs # <<q.sr>> => subs'[j].srs # <<>>
               /\ subs[j].srs # <<>> /\ Head(subs[j].srs) # q.sr => Head(subs'[j].srs) = Head(subs[j].srs)
    <3>1. CASE j \in usable /\ t # "timer"
      BY <2>5, <2>7, <3>1, WithoutProperties, SMT
    <3>2. CASE ~(j \in usable /\ t # "timer")
      BY <2>5, <2>7, <3>2
    <3>3. QED
      BY <3>1, <3>2
  <2>9. t # "timer" => \A j \in DOMAIN subs : subs[j].term \/ q.sr \notin Range(subs'[j].srs)
    <3> SUFFICES ASSUME t # "timer", NEW j \in DOMAIN subs, ~subs[j].term, q.sr \in Range(subs'[j].srs) PROVE FALSE
      OBVIOUS
    <3>1. j \in usable
      BY <2>3, <2>6, <2>7, <2>8
    <3>2. Range(subs'[j].srs) = Range(subs[j].srs) \ {q.sr}
      BY <2>5, <2>7, <3>1, WithoutProperties, SMT
    <3>3. QED
      BY <3>2
  <2>10. ASSUME \A i \in usable : ~isLast(i), sr' = sr \ {q.sr}, Become(t, CallbackEnd(t)), UNCHANGED <<lock, undefined>>
         PROVE  TypeOK' /\ CountInv' /\ SafeInv'
    <3>1. /\ th' \in [Thread -> ThreadState] /\ \A u \in Thread : u # t => th'[u] = th[u]
          /\ th'[t].sr = None /\ th'[t].pc \in {"idle", "unsubs"}
          /\ ThreadInv(t)' /\ (t \in Session => SessInv(t)')
      BY <2>1, <2>5, <2>6, <2>10, CallbackEndEffect, Constants
    <3>2. sr' \subseteq sr
      BY <2>10
    <3>3. TypeOK' /\ CountInv'
      BY <2>1, <2>5, <2>10, <3>1, <3>2 DEF TypeOK, CountInv
    <3>4. \A j \in DOMAIN subs : subs[j].srs # <<>> => subs'[j].srs # <<>>
      BY <2>5, <2>8, <2>10
    <3>5. Establishing' = Establishing /\ th'["rpc"] = th["rpc"]
      BY <2>2, <3>1, Constants DEF Establishing
    <3>6. ASSUME NEW u \in Thread, u # t, Locked(th[u]) PROVE lock' = u /\ TermInv(th[u])'
      <4>1. ThreadInv(u) /\ th'[u] = th[u]
        BY <3>1, <3>6 DEF SafeInv
      <4>2. CASE th[u].pc = "term"
        BY <2>1, <2>5, <2>10, <3>4, <3>6, <4>1, <4>2, SMT DEF ThreadInv, TermInv, Right
      <4>3. CASE th[u].pc = "unsub"
        <5>1. /\ th[u].at \in DOMAIN subs /\ subs[th[u].at].id = th[u].id /\ ~subs[th[u].at].term
              /\ subs[th[u].at].type = "ntf" /\ subs[th[u].at].srs # <<>>
              /\ (th[u].cb \in sr => Head(subs[th[u].at].srs) = th[u].cb)
          BY <4>1, <4>3 DEF ThreadInv, TermInv
        <5>2. th[u].cb \in sr' => Head(subs'[th[u].at].srs) = th[u].cb
          BY <2>8, <2>10, <5>1
        <5>3. QED
          BY <2>5, <2>10, <3>4, <3>6, <4>1, <4>3, <5>1, <5>2 DEF ThreadInv, TermInv
      <4>4. CASE th[u].pc = "finish"
        BY <2>1, <2>5, <2>10, <3>5, <3>6, <4>1, <4>4, SMT DEF ThreadInv, TermInv, Right
      <4>5. CASE th[u].pc \in {"subscribe", "done", "scan"}
        BY <2>10, <3>6, <4>1, <4>5 DEF ThreadInv, TermInv
      <4>6. lock' = u
        BY <2>10, <3>6, <4>1 DEF ThreadInv
      <4>7. QED
        BY <3>6, <4>2, <4>3, <4>4, <4>5, <4>6 DEF Locked
    <3>7. ASSUME th["rpc"].pc = "subscribe" PROVE RpcInv'
      <4>1. Establishing /\ Len(subs) \in DOMAIN subs /\ subs # <<>> /\ subs[Len(subs)].id = th["rpc"].id
            /\ subs[Len(subs)].srs = <<>> /\ subs' # <<>>
        BY <2>5, <3>7, SubsShape, SMT DEF SafeInv, RpcInv, Establishing
      <4>2. subs'[Len(subs)].srs = <<>>
        BY <2>3, <2>5, <2>6, <4>1
      <4>3. \A x \in sr : x[1] = th["rpc"].id => x \in sr'
        <5>1. None \notin sr
          BY Constants DEF TypeOK
        <5>2. QED
          BY <2>6, <2>10, <4>1, <5>1
      <4>4. QED
        <5>1. RpcInv /\ th'["rpc"] = th["rpc"]
          BY <3>5, <3>7 DEF SafeInv
        <5>2. QED
          <6>1. Len(subs') = Len(subs) /\ subs'[Len(subs)].id = subs[Len(subs)].id
                /\ subs'[Len(subs)].type = subs[Len(subs)].type /\ subs'[Len(subs)].term = subs[Len(subs)].term
            BY <2>5, <4>1
          <6>2. /\ th["rpc"].by \in Session /\ sess[th["rpc"].by] = "running"
                /\ th["rpc"].ncs = th["rpc"].by /\ th["rpc"].id > 0 /\ owner[th["rpc"].id] = th["rpc"].ncs
                /\ th["rpc"].req \in Types \X (Filter \cup {None})
                /\ subs[Len(subs)].type = th["rpc"].req[1] /\ ~subs[Len(subs)].term
                /\ th["rpc"].req[1] = "ntf" => th["rpc"].todo # {} \/ \E x \in sr : x[1] = th["rpc"].id
            BY <3>7, <4>1, <5>1 DEF RpcInv
          <6>3. QED
            BY <2>1, <3>7, <4>1, <4>2, <4>3, <5>1, <6>1, <6>2 DEF RpcInv
    <3>8. ASSUME NEW j \in DOMAIN subs PROVE Kept(j)
      <4>1. subs[j].term => Range(subs[j].srs) \cap sr \subseteq leaked
        BY DEF SafeInv, ListInv
      <4>2. \/ ~(subs'[j].type = "ntf" /\ ~subs'[j].term /\ subs'[j].srs = <<>>)
            \/ th'["rpc"].pc = "subscribe" /\ j = Len(subs)
            \/ \E u \in Thread : th'[u].pc = "term" /\ th'[u].at = j
        <5>1. \/ ~(subs[j].type = "ntf" /\ ~subs[j].term /\ subs[j].srs = <<>>)
              \/ th["rpc"].pc = "subscribe" /\ j = Len(subs)
              \/ \E u \in Thread : th[u].pc = "term" /\ th[u].at = j
          BY DEF SafeInv, ListInv
        <5>2. \A u \in Thread : th[u].pc = "term" => th'[u] = th[u]
          BY <2>1, <3>1
        <5>3. QED
          BY <2>5, <3>4, <3>5, <5>1, <5>2
      <4>3. QED
        BY <2>1, <2>5, <2>8, <3>2, <4>1, <4>2 DEF Kept
    <3>9. SysrepoMatches'
      <4>1. None \notin sr
        BY Constants DEF TypeOK
      <4>2. \A x \in sr' : \A u \in Thread : th[u].sr = x => th'[u] = th[u]
        BY <2>10, <3>1
      <4>3. \A x \in sr' :
                \/ \E i \in DOMAIN subs' : subs'[i].id = x[1] /\ x \in Range(subs'[i].srs)
                \/ th'["rpc"].pc = "subscribe" /\ th'["rpc"].id = x[1]
                \/ \E u \in Thread : th'[u].sr = x /\ th'[u].pc # "idle"
                \/ x \in leaked
        <5> TAKE x \in sr'
        <5>1. x \in sr /\ x # q.sr
          BY <2>10
        <5>2. \/ \E i \in DOMAIN subs : subs[i].id = x[1] /\ x \in Range(subs[i].srs)
              \/ th["rpc"].pc = "subscribe" /\ th["rpc"].id = x[1]
              \/ \E u \in Thread : th[u].sr = x /\ th[u].pc # "idle"
              \/ x \in leaked
          BY <5>1 DEF SafeInv, SysrepoMatches
        <5>3. \A i \in DOMAIN subs : subs[i].id = x[1] /\ x \in Range(subs[i].srs) =>
                                     subs'[i].id = x[1] /\ x \in Range(subs'[i].srs)
          BY <2>5, <2>8, <5>1
        <5>4. QED
          BY <2>5, <3>5, <4>2, <5>2, <5>3
      <4>4. \A i \in DOMAIN subs : subs[i].term \/ subs[i].id \in missed \/ Range(subs[i].srs) \subseteq sr
        BY DEF SafeInv, SysrepoMatches
      <4>5. ASSUME NEW i \in DOMAIN subs
            PROVE  subs'[i].term \/ subs'[i].id \in missed \/ Range(subs'[i].srs) \subseteq sr'
        <5>1. subs'[i].term = subs[i].term /\ subs'[i].id = subs[i].id /\ Range(subs'[i].srs) \subseteq Range(subs[i].srs)
          BY <2>5, <2>8
        <5>2. subs[i].term \/ subs[i].id \in missed \/ Range(subs'[i].srs) \subseteq sr
          BY <4>4, <5>1
        <5>3. subs[i].term \/ q.sr \notin Range(subs'[i].srs) \/ q.sr = None
          BY <2>6, <2>9
        <5>4. QED
          BY <2>10, <4>1, <5>1, <5>2, <5>3
      <4>6. QED
        BY <2>1, <2>5, <4>3, <4>5, SMT DEF SysrepoMatches
    <3>10. QED
      BY <2>1, <2>2, <2>5, <3>1, <3>2, <3>3, <3>6, <3>7, <3>8, <3>9, EndingStep
  <2>11. ASSUME NEW i \in usable, isLast(i), lock' = t, undefined' = (q.nolock \/ sess[subs[i].nc] = "gone"),
                Become(t, [q EXCEPT !.pc = "term", !.at = i, !.ncs = subs[i].nc]), UNCHANGED sr
         PROVE  TypeOK' /\ CountInv' /\ (undefined' \/ SafeInv')
    <3> DEFINE r == [q EXCEPT !.pc = "term", !.at = i, !.ncs = subs[i].nc]
    <3>1. i \in DOMAIN subs /\ i \in Nat /\ subs[i].id = q.id /\ ~subs[i].term /\ subs[i].nc \in Session
      BY <2>3, <2>4, SubsShape, SMT
    <3>2. r \in ThreadState
      BY <2>6, <3>1 DEF ThreadState
    <3>3. th' \in [Thread -> ThreadState] /\ th'[t] = r /\ \A u \in Thread : u # t => th'[u] = th[u]
      BY <2>2, <2>11, <3>2, BecomeEffect
    <3>4. th'[t].pc = "term" /\ th'[t].at = i /\ th'[t].id = q.id /\ th'[t].sr = q.sr /\ th'[t].ncs = subs[i].nc
      BY <2>6, <3>3 DEF ThreadState
    <3> HIDE DEF r
    <3>5. TypeOK' /\ CountInv'
      <4>1. undefined' \in BOOLEAN
        BY <2>6, <2>11 DEF ThreadState
      <4>2. QED
        BY <2>1, <2>2, <2>5, <2>11, <3>3, <4>1, SMT DEF TypeOK, CountInv
    <3>6. ASSUME ~undefined' PROVE SafeInv'
      <4>1. lock = None
        BY <2>1, <2>11, <3>6
      <4>2. \A u \in Thread : ~Locked(th[u])
        BY <4>1, Exclusion
      <4>3. th["rpc"].pc # "subscribe"
        BY <4>2, Constants DEF Locked
      <4>4. Establishing' = Establishing /\ th'["rpc"] = th["rpc"]
        BY <2>2, <3>3, Constants DEF Establishing
      <4>5. ThreadInv(t)'
        <5>1. owner[q.id] = subs[i].nc
          BY <3>1 DEF SafeInv, IdInv
        <5>2. TermInv(th[t])'
          BY <2>1, <2>5, <3>1, <3>4, <5>1 DEF TermInv, Right
        <5>3. CallbackInv(th[t])'
          BY <2>5, <2>6, <2>9, <3>4, <4>4 DEF CallbackInv
        <5>4. QED
          BY <2>1, <2>6, <2>11, <3>4, <5>2, <5>3 DEF ThreadInv
      <4>6. t \in Session => SessInv(t)'
        BY <2>1, <2>5, <3>4, SMT DEF SafeInv, SessInv, Idle
      <4>7. \A j \in DOMAIN subs : j # i => subs'[j].srs = subs[j].srs
        BY <2>3, <2>5, <3>1, SMT DEF SafeInv, IdInv
      <4>8. ASSUME NEW j \in DOMAIN subs PROVE Kept(j)
        <5>1. subs[j].term => Range(subs[j].srs) \cap sr \subseteq leaked
          BY DEF SafeInv, ListInv
        <5>2. \/ ~(subs'[j].type = "ntf" /\ ~subs'[j].term /\ subs'[j].srs = <<>>)
              \/ \E u \in Thread : th'[u].pc = "term" /\ th'[u].at = j
          <6>1. CASE j = i
            BY <2>2, <3>4, <6>1
          <6>2. CASE j # i
            BY <2>5, <4>2, <4>7, <6>2, Listed DEF Locked
          <6>3. QED
            BY <6>1, <6>2
        <5>3. QED
          BY <2>1, <2>5, <2>8, <2>11, <5>1, <5>2 DEF Kept
      <4>9. SysrepoMatches'
        <5>1. \A x \in sr, u \in Thread : th[u].sr = x /\ th[u].pc # "idle" => th'[u].sr = x /\ th'[u].pc # "idle"
          BY <3>3, <3>4
        <5>2. \A x \in Range(subs[i].srs) : x \in Range(subs'[i].srs) \/ th'[t].sr = x
          BY <2>8, <3>1, <3>4
        <5>3. \A x \in sr :
                  \/ \E j \in DOMAIN subs' : subs'[j].id = x[1] /\ x \in Range(subs'[j].srs)
                  \/ \E u \in Thread : th'[u].sr = x /\ th'[u].pc # "idle"
                  \/ x \in leaked
          <6> TAKE x \in sr
          <6>1. \/ \E j \in DOMAIN subs : subs[j].id = x[1] /\ x \in Range(subs[j].srs)
                \/ \E u \in Thread : th[u].sr = x /\ th[u].pc # "idle"
                \/ x \in leaked
            BY <4>3 DEF SafeInv, SysrepoMatches
          <6>2. ASSUME NEW j \in DOMAIN subs, subs[j].id = x[1], x \in Range(subs[j].srs)
                PROVE  \/ subs'[j].id = x[1] /\ x \in Range(subs'[j].srs)
                       \/ th'[t].sr = x /\ th'[t].pc # "idle"
            BY <2>5, <3>4, <4>7, <5>2, <6>2
          <6>3. QED
            BY <2>2, <2>5, <5>1, <6>1, <6>2
        <5>4. \A j \in DOMAIN subs : subs[j].term \/ subs[j].id \in missed \/ Range(subs[j].srs) \subseteq sr
          BY DEF SafeInv, SysrepoMatches
        <5>5. \A j \in DOMAIN subs : subs'[j].term \/ subs'[j].id \in missed \/ Range(subs'[j].srs) \subseteq sr
          BY <2>5, <2>8, <5>4
        <5>6. QED
          BY <2>1, <2>5, <2>11, <5>3, <5>5, SMT DEF SysrepoMatches
      <4>10. QED
        BY <2>1, <2>2, <2>5, <2>11, <3>3, <4>2, <4>3, <4>5, <4>6, <4>8, <4>9, EndingStep
    <3>7. QED
      BY <3>5, <3>6
  <2>12. QED
    BY <2>10, <2>11 DEF Terminated, usable
<1>2. ASSUME TerminatedDone(t) PROVE TypeOK' /\ CountInv' /\ SafeInv'
  <2> USE <1>2
  <2> DEFINE q == th[t]
  <2>1. /\ q.pc = "done" /\ (q.sr # None \/ t = "timer") /\ lock' \in {lock, None} /\ sr' = sr \ {q.sr}
        /\ Become(t, CallbackEnd(t))
        /\ UNCHANGED <<subs, sidlock, nextId, status, sess, owner, filters, change, changes,
                       undefined, leaked, missed, miskilled>>
    BY DEF TerminatedDone, bound, config, hist
  <2>2. /\ t \in Thread /\ t # "rpc"
        /\ th' \in [Thread -> ThreadState] /\ \A u \in Thread : u # t => th'[u] = th[u]
        /\ th'[t].sr = None /\ th'[t].pc \in {"idle", "unsubs"}
        /\ ThreadInv(t)' /\ (t \in Session => SessInv(t)')
    BY <2>1, CallbackEndEffect, Constants
  <2>3. sr' \subseteq sr
    BY <2>1
  <2>4. TypeOK' /\ CountInv'
    <3>1. lock' \in Thread \cup {None}
      BY <2>1 DEF TypeOK
    <3>2. QED
      BY <2>1, <2>2, <2>3, <3>1 DEF TypeOK, CountInv
  <2>5. \A u \in Thread : u # t => ~Locked(th[u])
    BY <2>1, <2>2, OthersUnlocked DEF Locked
  <2>6. th["rpc"].pc # "subscribe"
    BY <2>2, <2>5, Constants DEF Locked
  <2>7. ASSUME NEW j \in DOMAIN subs PROVE Kept(j)
    <3>1. subs[j].type = "ntf" /\ ~subs[j].term => subs[j].srs # <<>>
      BY <2>1, <2>5, <2>6 DEF SafeInv, ListInv, Locked
    <3>2. QED
      BY <2>1, <2>3, <3>1 DEF SafeInv, ListInv, Kept
  <2>8. SysrepoMatches'
    <3>1. q.sr # None => \A i \in DOMAIN subs : subs[i].term \/ q.sr \notin Range(subs[i].srs)
      BY <2>1, <2>2 DEF SafeInv, ThreadInv, CallbackInv
    <3>2. None \notin sr
      BY Constants DEF TypeOK
    <3>3. \A x \in sr' : \A u \in Thread : th[u].sr = x => th'[u] = th[u]
      BY <2>1, <2>2
    <3>4. \A x \in sr' :
              \/ \E i \in DOMAIN subs : subs[i].id = x[1] /\ x \in Range(subs[i].srs)
              \/ \E u \in Thread : th'[u].sr = x /\ th'[u].pc # "idle"
              \/ x \in leaked
      BY <2>3, <2>6, <3>3 DEF SafeInv, SysrepoMatches
    <3>5. \A i \in DOMAIN subs : subs[i].term \/ subs[i].id \in missed \/ Range(subs[i].srs) \subseteq sr'
      BY <2>1, <3>1, <3>2 DEF SafeInv, SysrepoMatches
    <3>6. QED
      BY <2>1, <3>4, <3>5 DEF SysrepoMatches
  <2>9. QED
    BY <2>1, <2>2, <2>3, <2>4, <2>5, <2>6, <2>7, <2>8, EndingStep
<1>3. QED
  BY <1>1, <1>2

(***************************************************************************)
(* establish-subscription subscribes to a module.                          *)
(***************************************************************************)
LEMMA SubscribeSafe ==
    ASSUME TypeOK, CountInv, SafeInv, ~undefined, NEW m \in Module, Subscribe(m)
    PROVE  TypeOK' /\ CountInv' /\ SafeInv'
<1> DEFINE q == th["rpc"]  r == [q EXCEPT !.todo = q.todo \ {m}]  x == <<q.id, m>>
<1>1. /\ q.pc = "subscribe" /\ sr' = sr \cup {x} /\ Become("rpc", r)
      /\ UNCHANGED <<subs, lock, sidlock, nextId, status, sess, owner, filters, change, changes,
                     undefined, leaked, missed, miskilled>>
  BY DEF Subscribe, bound, config, hist
<1>2. q \in ThreadState /\ q.id \in 0 .. MaxSubs /\ ThreadInv("rpc") /\ q.id > 0 /\ q.id < nextId
  BY <1>1, ThreadStates, Constants DEF SafeInv, RpcInv, Establishing, ThreadInv
<1>3. x \in SrId /\ x[1] = q.id
  BY <1>2, Constants, SMT DEF SrId
<1>4. r \in ThreadState
  <2>1. q.todo \ {m} \in SUBSET Module
    BY <1>2 DEF ThreadState
  <2>2. QED
    BY <1>2, <2>1 DEF ThreadState
<1>5. th' \in [Thread -> ThreadState] /\ th'["rpc"] = r /\ \A u \in Thread : u # "rpc" => th'[u] = th[u]
  BY <1>1, <1>4, BecomeEffect, Constants
<1>6. /\ th'["rpc"].pc = "subscribe" /\ th'["rpc"].id = q.id /\ th'["rpc"].ncs = q.ncs
      /\ th'["rpc"].by = q.by /\ th'["rpc"].req = q.req /\ th'["rpc"].sr = q.sr
  BY <1>1, <1>2, <1>5 DEF ThreadState
<1> HIDE DEF r, x
<1>7. TypeOK' /\ CountInv'
  BY <1>1, <1>3, <1>5 DEF TypeOK, CountInv
<1>8. Establishing /\ Establishing'
  BY <1>1, <1>6 DEF Establishing
<1>9. \A u \in Thread : u # "rpc" => ~Locked(th[u])
  BY <1>1, OthersUnlocked, Constants DEF Locked
<1>10. ASSUME NEW u \in Thread, u # "rpc" PROVE ThreadInv(u)'
  <2>1. ThreadInv(u) /\ th'[u] = th[u] /\ ~Locked(th[u])
    BY <1>5, <1>9, <1>10 DEF SafeInv
  <2>2. TermInv(th[u])'
    BY <1>1, <1>6, <1>8, <2>1 DEF ThreadInv, TermInv, Right, Locked
  <2>3. CallbackInv(th[u])'
    BY <1>1, <1>6, <1>8, <2>1 DEF ThreadInv, CallbackInv
  <2>4. QED
    BY <1>1, <2>1, <2>2, <2>3 DEF ThreadInv, Locked
<1>11. ThreadInv("rpc")'
  <2>1. q.sr = None /\ lock = "rpc"
    BY <1>1, <1>2, Constants DEF ThreadInv, Locked
  <2>2. QED
    BY <1>1, <1>2, <1>6, <2>1 DEF ThreadInv, TermInv, CallbackInv
<1>12. RpcInv'
  <2>1. \E y \in sr' : y[1] = th'["rpc"].id
    BY <1>1, <1>3, <1>6
  <2>2. QED
    BY <1>1, <1>6, <1>8, <2>1 DEF SafeInv, RpcInv
<1>13. \A u \in Session : SessInv(u)'
  BY <1>1, <1>5, Constants, SMT DEF SafeInv, SessInv
<1>14. IdInv' /\ FilterInv'
  BY <1>1, <1>2, <1>3 DEF SafeInv, IdInv, FilterInv
<1>15. ListInv'
  <2>1. \A t \in Thread : th[t].pc = "term" => th'[t] = th[t]
    BY <1>1, <1>5
  <2>2. Len(subs) \in DOMAIN subs /\ subs[Len(subs)].id = q.id /\ subs[Len(subs)].srs = <<>>
    BY <1>1, SubsShape, SMT DEF SafeInv, RpcInv
  <2>3. \A i \in DOMAIN subs : x \notin Range(subs[i].srs)
    <3> SUFFICES ASSUME NEW i \in DOMAIN subs, x \in Range(subs[i].srs) PROVE FALSE
      OBVIOUS
    <3>1. subs[i].id = q.id
      BY <1>3 DEF SafeInv, ListInv
    <3>2. i = Len(subs)
      BY <2>2, <3>1 DEF SafeInv, IdInv
    <3>3. QED
      BY <2>2, <3>2, SMT DEF Range
  <2>4. QED
    BY <1>1, <1>6, <2>1, <2>3, SMT DEF SafeInv, ListInv
<1>16. SysrepoMatches'
  <2>1. \A t \in Thread, y \in sr : th[t].sr = y /\ th[t].pc # "idle" => th'[t].sr = y /\ th'[t].pc # "idle"
    BY <1>1, <1>5, <1>6
  <2>2. QED
    BY <1>1, <1>3, <1>6, <2>1 DEF SafeInv, SysrepoMatches
<1>17. StatusExact'
  <2>1. \A u \in Session : OwnSubs(u)' = OwnSubs(u) /\ BeingMade(u)' = BeingMade(u)
    BY <1>1, <1>6 DEF OwnSubs, BeingMade
  <2>2. QED
    BY <1>1, <2>1 DEF SafeInv, StatusExact
<1>18. QED
  BY <1>7, <1>10, <1>11, <1>12, <1>13, <1>14, <1>15, <1>16, <1>17 DEF SafeInv

(***************************************************************************)
(* The array and the counts, after other steps.                            *)
(***************************************************************************)
LEMMA DecStatusEffect ==
    ASSUME TypeOK, CountInv, NEW STATE s, DecStatus(s)
    PROVE  /\ status' \in [Session -> 0 .. MaxSubs] /\ \A u \in Session : status'[u] < nextId
           /\ \A u \in Session : u # s => status'[u] = status[u]
           /\ s \in Session => status'[s] = IF status[s] = 0 THEN 0 ELSE status[s] - 1
<1>1. \A u \in Session : status[u] \in 0 .. MaxSubs /\ status[u] < nextId
  BY DEF TypeOK, CountInv
<1>2. /\ DOMAIN status' = Session
      /\ \A u \in Session : status'[u] = IF u = s THEN (IF status[u] = 0 THEN 0 ELSE status[u] - 1) ELSE status[u]
  BY DEF DecStatus, TypeOK
<1>3. \A n \in 0 .. MaxSubs : n < nextId => /\ (IF n = 0 THEN 0 ELSE n - 1) \in 0 .. MaxSubs
                                             /\ (IF n = 0 THEN 0 ELSE n - 1) < nextId
  BY Constants, SMT DEF TypeOK
<1>4. \A u \in Session : status'[u] \in 0 .. MaxSubs /\ status'[u] < nextId
  BY <1>1, <1>2, <1>3
<1>5. status' = [u \in Session |-> status'[u]]
  BY <1>2 DEF DecStatus, TypeOK
<1>6. QED
  BY <1>2, <1>4, <1>5

(* One subscription less, or one fewer being made: the count follows. *)
LEMMA CountDown ==
    ASSUME TypeOK, CountInv, NEW s \in Session, DecStatus(s), NEW c \in Nat, status[s] = c + 1
    PROVE  status'[s] = c
<1>1. status'[s] = IF status[s] = 0 THEN 0 ELSE status[s] - 1
  BY DecStatusEffect
<1>2. QED
  BY <1>1, SMT

(* The array after sub_ntf_new. *)
LEMMA AppendEffect ==
    ASSUME TypeOK, NEW STATE e, e \in Subscriptions, subs' = Append(subs, e)
    PROVE  /\ subs' \in Seq(Subscriptions) /\ Len(subs') = Len(subs) + 1 /\ subs' # <<>>
           /\ Len(subs) + 1 \in Nat /\ Len(subs) + 1 \notin DOMAIN subs
           /\ DOMAIN subs' = DOMAIN subs \cup {Len(subs) + 1} /\ subs'[Len(subs) + 1] = e
           /\ \A i \in DOMAIN subs : subs'[i] = subs[i]
<1>1. subs \in Seq(Subscriptions) /\ Len(subs) \in Nat /\ DOMAIN subs = 1 .. Len(subs)
  BY SubsShape DEF TypeOK
<1>2. /\ subs' \in Seq(Subscriptions) /\ Len(subs') = Len(subs) + 1 /\ subs'[Len(subs) + 1] = e
      /\ \A i \in 1 .. Len(subs) : subs'[i] = subs[i]
  BY <1>1, SMT
<1>3. DOMAIN subs' = 1 .. Len(subs) + 1
  BY <1>2, SMT
<1>4. 1 .. Len(subs) + 1 = 1 .. Len(subs) \cup {Len(subs) + 1} /\ Len(subs) + 1 \notin 1 .. Len(subs) /\ Len(subs) + 1 \in Nat
  BY <1>1, SMT
<1>5. subs' # <<>>
  BY <1>2, <1>1, SMT
<1>6. QED
  BY <1>1, <1>2, <1>3, <1>4, <1>5

(* The array without its last subscription. *)
LEMMA DropLastEffect ==
    ASSUME TypeOK, subs # <<>>, subs' = SubSeq(subs, 1, Len(subs) - 1)
    PROVE  /\ subs' \in Seq(Subscriptions) /\ Len(subs) \in DOMAIN subs
           /\ DOMAIN subs' = DOMAIN subs \ {Len(subs)} /\ \A i \in DOMAIN subs' : subs'[i] = subs[i]
<1>1. subs \in Seq(Subscriptions) /\ Len(subs) \in Nat \ {0} /\ DOMAIN subs = 1 .. Len(subs)
  BY SubsShape, SMT DEF TypeOK
<1>2. /\ subs' \in Seq(Subscriptions) /\ Len(subs') = Len(subs) - 1
      /\ \A i \in 1 .. Len(subs) - 1 : subs'[i] = subs[i]
  BY <1>1, SMT
<1>3. DOMAIN subs' = 1 .. Len(subs) - 1
  BY <1>1, <1>2, SMT
<1>4. 1 .. Len(subs) - 1 = 1 .. Len(subs) \ {Len(subs)} /\ Len(subs) \in 1 .. Len(subs)
  BY <1>1, SMT
<1>5. QED
  BY <1>1, <1>2, <1>3, <1>4

LEMMA RemoveAtShift ==
    ASSUME NEW S, NEW s \in Seq(S), NEW k \in 1 .. Len(s)
    PROVE  \E g \in [1 .. Len(s) - 1 -> (1 .. Len(s)) \ {k}] :
            /\ \A i, j \in 1 .. Len(s) - 1 : g[i] = g[j] => i = j
            /\ \A n \in (1 .. Len(s)) \ {k} : \E i \in 1 .. Len(s) - 1 : g[i] = n
            /\ \A i \in 1 .. Len(s) - 1 : RemoveAt(s, k)[i] = s[g[i]]
<1> DEFINE from(i) == IF i < k THEN i ELSE i + 1
           g == [i \in 1 .. Len(s) - 1 |-> from(i)]
<1>1. \A i \in 1 .. Len(s) - 1 : RemoveAt(s, k)[i] = s[from(i)]
  BY RemoveAtProperties
<1>2. \A i \in 1 .. Len(s) - 1 : from(i) \in (1 .. Len(s)) \ {k}
  BY SMT
<1>3. \A i, j \in 1 .. Len(s) - 1 : from(i) = from(j) => i = j
  BY SMT
<1>4. \A n \in (1 .. Len(s)) \ {k} : \E i \in 1 .. Len(s) - 1 : from(i) = n
  <2> TAKE n \in (1 .. Len(s)) \ {k}
  <2>1. CASE n < k
    BY <2>1, SMT
  <2>2. CASE n > k
    <3>1. n - 1 \in 1 .. Len(s) - 1 /\ from(n - 1) = n
      BY <2>2, SMT
    <3>2. QED
      BY <3>1
  <2>3. QED
    BY <2>1, <2>2, SMT
<1> HIDE DEF from
<1>5. g \in [1 .. Len(s) - 1 -> (1 .. Len(s)) \ {k}] /\ \A i \in 1 .. Len(s) - 1 : g[i] = from(i)
  BY <1>2
<1> HIDE DEF g
<1>6. \A i, j \in 1 .. Len(s) - 1 : g[i] = g[j] => i = j
  BY <1>3, <1>5
<1>7. \A n \in (1 .. Len(s)) \ {k} : \E i \in 1 .. Len(s) - 1 : g[i] = n
  BY <1>4, <1>5
<1>8. \A i \in 1 .. Len(s) - 1 : RemoveAt(s, k)[i] = s[g[i]]
  BY <1>1, <1>5
<1>9. QED
  BY <1>5, <1>6, <1>7, <1>8


(***************************************************************************)
(* What the counting of subscriptions takes from the theory of finite      *)
(* sets.  SubNtf_proofs shows it from the library's theorems.              *)
(***************************************************************************)
FiniteSetFacts ==
    /\ \A n \in Nat : IsFiniteSet(1 .. n)
    /\ \A S : IsFiniteSet(S) =>
            /\ Cardinality(S) \in Nat
            /\ \A T \in SUBSET S : IsFiniteSet(T)
            /\ \A x : x \notin S => Cardinality(S \cup {x}) = Cardinality(S) + 1
            /\ \A x \in S : Cardinality(S \ {x}) = Cardinality(S) - 1

LEMMA OwnSubsFinite ==
    ASSUME FiniteSetFacts, TypeOK, NEW s
    PROVE  IsFiniteSet(OwnSubs(s)) /\ Cardinality(OwnSubs(s)) \in Nat
<1>1. Len(subs) \in Nat /\ OwnSubs(s) \in SUBSET (1 .. Len(subs))
  BY SubsShape, SMT DEF OwnSubs
<1>2. QED
  BY <1>1 DEF FiniteSetFacts

LEMMA PlusZero == \A n \in Nat : n + 0 = n
BY SMT

LEMMA RequestState ==
    ASSUME NEW id \in 0 .. MaxSubs, NEW s \in Session, NEW req \in Types \X (Filter \cup {None})
    PROVE  [Idle EXCEPT !.pc = "establish", !.id = id, !.by = s, !.ncs = s, !.req = req] \in ThreadState
BY IdleType DEF ThreadState


(* establish-subscription, up to its subscribing to the modules. *)
LEMMA EstablishSafe ==
    ASSUME FiniteSetFacts, TypeOK, CountInv, SafeInv, ~undefined
    PROVE  (\/ \E s \in Session, type \in Types, f \in Filter \cup {None} : EstablishStart(s, type, f)
            \/ EstablishRefuse \/ EstablishNew \/ SubscribeFails)
           => TypeOK' /\ CountInv' /\ (undefined' \/ SafeInv')
<1>1. ASSUME NEW s \in Session, NEW type \in Types, NEW f \in Filter \cup {None}, EstablishStart(s, type, f)
      PROVE  TypeOK' /\ CountInv' /\ SafeInv'
  <2> USE <1>1
  <2> DEFINE r == [Idle EXCEPT !.pc = "establish", !.id = nextId, !.by = s, !.ncs = s, !.req = <<type, f>>]
  <2>1. /\ th["rpc"] = Idle /\ sess[s] = "running" /\ nextId <= MaxSubs
        /\ status' = [status EXCEPT ![s] = @ + 1] /\ nextId' = nextId + 1
        /\ owner' = [owner EXCEPT ![nextId] = s] /\ Become("rpc", r)
        /\ UNCHANGED <<subs, lock, sidlock, sr, sess, filters, change, changes, undefined, leaked, missed, miskilled>>
    BY DEF EstablishStart, Rpc, config, hist
  <2>2. nextId \in 1 .. MaxSubs /\ nextId \in 0 .. MaxSubs /\ nextId + 1 \in 1 .. MaxSubs + 1
    <3>1. nextId \in 1 .. MaxSubs + 1 /\ nextId <= MaxSubs /\ MaxSubs \in Nat
      BY <2>1, Constants DEF TypeOK
    <3>2. QED
      BY ONLY <3>1, SMT
  <2>3. r \in ThreadState
    BY <2>2, RequestState
  <2>4. th' \in [Thread -> ThreadState] /\ th'["rpc"] = r /\ \A u \in Thread : u # "rpc" => th'[u] = th[u]
    BY <2>1, <2>3, BecomeEffect, Constants
  <2>5. /\ th'["rpc"].pc = "establish" /\ th'["rpc"].id = nextId /\ th'["rpc"].by = s /\ th'["rpc"].ncs = s
        /\ th'["rpc"].req = <<type, f>> /\ th'["rpc"].sr = None
        /\ th["rpc"].pc = "idle" /\ th["rpc"].sr = None
    BY <2>1, <2>4, SMT DEF Idle
  <2> HIDE DEF r
  <2>6. /\ owner' \in [1 .. MaxSubs -> Session \cup {None}] /\ owner'[nextId] = s
        /\ \A id \in 1 .. MaxSubs : id # nextId => owner'[id] = owner[id]
    BY <2>1, <2>2 DEF TypeOK
  <2>7. /\ status' \in [Session -> 0 .. MaxSubs] /\ status'[s] = status[s] + 1
        /\ \A u \in Session : u # s => status'[u] = status[u]
    <3>1. status[s] + 1 \in 0 .. MaxSubs
      BY <2>1, <2>2, Constants, SMT DEF TypeOK, CountInv
    <3>2. QED
      BY <2>1, <3>1 DEF TypeOK
  <2>8. \A n \in Nat : n < nextId => n < nextId + 1 /\ n # nextId
    BY <2>2, SMT
  <2>9. TypeOK'
    <3>1. \A i \in DOMAIN subs' : subs'[i].id < nextId'
      BY <2>1, <2>8, SubsShape, SMT
    <3>2. QED
      BY <2>1, <2>2, <2>4, <2>6, <2>7, <3>1 DEF TypeOK
  <2>10. CountInv'
    <3>1. ASSUME NEW u \in Session PROVE status'[u] < nextId + 1
      <4>1. status[u] \in Nat /\ status[u] < nextId /\ nextId \in Nat
        BY <2>2, SMT DEF CountInv, TypeOK
      <4>2. status'[u] = status[u] \/ status'[u] = status[u] + 1
        BY <2>7
      <4>3. QED
        BY <4>1, <4>2, SMT
    <3>2. QED
      BY <2>1, <3>1 DEF CountInv
  <2>11. ~Establishing /\ Establishing'
    BY <2>5 DEF Establishing
  <2>12. \A i \in DOMAIN subs : subs[i].id # nextId /\ subs[i].id \in 1 .. MaxSubs /\ owner'[subs[i].id] = owner[subs[i].id]
    <3>1. \A i \in DOMAIN subs : subs[i].id \in 1 .. MaxSubs /\ subs[i].id < nextId
      BY SubsShape
    <3>2. \A id \in 1 .. MaxSubs : id < nextId => id # nextId
      BY <2>2, SMT
    <3>3. QED
      BY <2>6, <3>1, <3>2
  <2>13. ASSUME NEW u \in Thread, u # "rpc" PROVE ThreadInv(u)'
    <3>1. ThreadInv(u) /\ th'[u] = th[u] /\ th[u].id \in Nat /\ th[u].id \in 0 .. MaxSubs /\ th[u].id # nextId /\ th[u].id < nextId'
      <4>1. ThreadInv(u) /\ th'[u] = th[u] /\ th[u].id \in 0 .. MaxSubs /\ th[u].id < nextId
        BY <2>4, <2>13, ThreadStates DEF SafeInv, ThreadInv
      <4>2. QED
        <5>1. \A id \in 0 .. MaxSubs : id \in Nat
          BY SMT
        <5>2. QED
          BY <2>1, <2>8, <4>1, <5>1
    <3>2. th[u].id > 0 => owner'[th[u].id] = owner[th[u].id]
      <4>1. th[u].id > 0 => th[u].id \in 1 .. MaxSubs
        BY <3>1, Constants, SMT
      <4>2. QED
        BY <2>6, <3>1, <4>1
    <3>3. TermInv(th[u])'
      <4>1. th[u].pc = "term" => Right(th[u])' = Right(th[u])
        BY <2>1, <2>12, <3>1 DEF ThreadInv, TermInv, Right
      <4>2. th[u].pc \in {"sleep", "finish"} => Right(th[u])' = Right(th[u])
        BY <2>1, <3>1, <3>2 DEF ThreadInv, TermInv, Right
      <4>3. QED
        BY <2>1, <2>5, <3>1, <4>1, <4>2 DEF ThreadInv, TermInv
    <3>4. CallbackInv(th[u])'
      BY <2>1, <2>5, <3>1 DEF ThreadInv, CallbackInv
    <3>5. QED
      BY <2>1, <3>1, <3>3, <3>4 DEF ThreadInv, Locked
  <2>14. ThreadInv("rpc")'
    <3>1. nextId < nextId'
      BY <2>1, <2>2, SMT
    <3>2. QED
      BY <2>5, <3>1 DEF ThreadInv, TermInv, CallbackInv, Locked
  <2>15. RpcInv'
    <3>1. nextId > 0 /\ type \in Types /\ <<type, f>> \in Types \X (Filter \cup {None})
      BY <2>2, SMT
    <3>2. QED
      BY <2>1, <2>5, <2>6, <2>12, <3>1 DEF RpcInv
  <2>16. \A u \in Session : SessInv(u)'
    <3> TAKE u \in Session
    <3>1. SessInv(u) /\ th'[u] = th[u]
      BY <2>4, Constants DEF SafeInv
    <3>2. QED
      BY <2>1, <3>1 DEF SessInv
  <2>17. IdInv'
    <3>1. \A x \in sr : x[1] \in Nat
      BY SMT DEF TypeOK, SrId
    <3>2. \A x \in sr : x[1] < nextId'
      BY <2>1, <2>8, <3>1 DEF SafeInv, IdInv
    <3>3. QED
      BY <2>1, <2>12, <3>2 DEF SafeInv, IdInv
  <2>18. ListInv'
    <3>1. \A t \in Thread : th[t].pc = "term" => th'[t] = th[t]
      BY <2>4, <2>5
    <3>2. QED
      <4>1. ASSUME NEW i \in DOMAIN subs, subs[i].type = "ntf", ~subs[i].term, subs[i].srs = <<>>
            PROVE  \E t \in Thread : th'[t].pc = "term" /\ th'[t].at = i
        <5>1. \E t \in Thread : th[t].pc = "term" /\ th[t].at = i
          BY <2>5, <4>1 DEF SafeInv, ListInv
        <5>2. QED
          BY <3>1, <5>1
      <4>2. \A i \in DOMAIN subs : /\ IsInjective(subs[i].srs) /\ \A x \in Range(subs[i].srs) : x[1] = subs[i].id
                                   /\ subs[i].term => Range(subs[i].srs) \cap sr \subseteq leaked
        BY DEF SafeInv, ListInv
      <4>3. QED
        BY <2>1, <4>1, <4>2 DEF ListInv
  <2>19. FilterInv'
    BY <2>1 DEF SafeInv, FilterInv
  <2>20. SysrepoMatches'
    <3>1. \A t \in Thread : th[t].pc # "idle" => th'[t] = th[t]
      BY <2>4, <2>5
    <3>2. QED
      <4>1. \A x \in sr : \/ \E i \in DOMAIN subs : subs[i].id = x[1] /\ x \in Range(subs[i].srs)
                          \/ \E t \in Thread : th'[t].sr = x /\ th'[t].pc # "idle"
                          \/ x \in leaked
        BY <2>5, <3>1 DEF SafeInv, SysrepoMatches
      <4>2. \A i \in DOMAIN subs : subs[i].term \/ subs[i].id \in missed \/ Range(subs[i].srs) \subseteq sr
        BY DEF SafeInv, SysrepoMatches
      <4>3. QED
        BY <2>1, <4>1, <4>2 DEF SysrepoMatches
  <2>21. StatusExact'
    <3>1. \A u \in Session : OwnSubs(u)' = OwnSubs(u)
      BY <2>1 DEF OwnSubs
    <3>2. \A u \in Session : BeingMade(u) = 0 /\ BeingMade(u)' = IF u = s THEN 1 ELSE 0
      BY <2>5 DEF BeingMade
    <3>3. miskilled \/ \A u \in Session : sess[u] = "gone" \/ status[u] = Cardinality(OwnSubs(u)) + 0
      BY <3>2 DEF SafeInv, StatusExact
    <3>4. ASSUME ~miskilled, NEW u \in Session
          PROVE  sess[u] = "gone" \/ status'[u] = Cardinality(OwnSubs(u)) + IF u = s THEN 1 ELSE 0
      <4>1. CASE u = s
        <5>1. status[s] = Cardinality(OwnSubs(s)) + 0
          BY <2>1, <3>3, <3>4
        <5>2. Cardinality(OwnSubs(s)) \in Nat
          BY OwnSubsFinite
        <5>3. QED
          BY <2>7, <4>1, <5>1, <5>2, PlusZero
      <4>2. CASE u # s
        BY <2>7, <3>3, <3>4, <4>2
      <4>3. QED
        BY <4>1, <4>2
    <3>5. QED
      BY <2>1, <3>1, <3>2, <3>4 DEF StatusExact
  <2>22. QED
    BY <2>9, <2>10, <2>13, <2>14, <2>15, <2>16, <2>17, <2>18, <2>19, <2>20, <2>21 DEF SafeInv
<1>2. ASSUME EstablishRefuse PROVE TypeOK' /\ CountInv' /\ SafeInv'
  <2> USE <1>2
  <2> DEFINE q == th["rpc"]
  <2>1. /\ q.pc = "establish" /\ DecStatus(q.ncs) /\ Become("rpc", Idle)
        /\ UNCHANGED <<subs, lock, sidlock, nextId, sr, sess, owner, filters, change, changes,
                       undefined, leaked, missed, miskilled>>
    BY DEF EstablishRefuse, EstablishError, Fault, bound, config, hist
  <2>2. th' \in [Thread -> ThreadState] /\ th'["rpc"] = Idle /\ \A u \in Thread : u # "rpc" => th'[u] = th[u]
    BY <2>1, IdleType, BecomeEffect, Constants
  <2>3. /\ status' \in [Session -> 0 .. MaxSubs] /\ \A u \in Session : status'[u] < nextId
        /\ \A u \in Session : u # q.ncs => status'[u] = status[u]
    BY <2>1, DecStatusEffect
  <2>4. TypeOK' /\ CountInv'
    BY <2>1, <2>2, <2>3 DEF TypeOK, CountInv
  <2>5. Establishing /\ ~Establishing' /\ q.sr = None /\ th'["rpc"].pc = "idle"
    <3>1. Establishing /\ ~Establishing' /\ th'["rpc"].pc = "idle"
      BY <2>1, <2>2, SMT DEF Establishing, Idle
    <3>2. q.sr = None
      BY Constants DEF SafeInv, ThreadInv
    <3>3. QED
      BY <3>1, <3>2
  <2>6. ASSUME NEW u \in Thread, u # "rpc" PROVE ThreadInv(u)'
    <3>1. ThreadInv(u) /\ th'[u] = th[u]
      BY <2>2, <2>6 DEF SafeInv
    <3>2. TermInv(th[u])'
      BY <2>1, <2>5, <3>1 DEF ThreadInv, TermInv, Right
    <3>3. CallbackInv(th[u])'
      BY <2>1, <2>5, <3>1 DEF ThreadInv, CallbackInv
    <3>4. QED
      BY <2>1, <3>1, <3>2, <3>3 DEF ThreadInv, Locked
  <2>7. ThreadInv("rpc")'
    BY <2>2, <2>4, IdleThread, Constants
  <2>8. RpcInv'
    BY <2>5 DEF RpcInv
  <2>9. \A u \in Session : SessInv(u)'
    <3> TAKE u \in Session
    <3>1. SessInv(u) /\ th'[u] = th[u]
      BY <2>2, Constants DEF SafeInv
    <3>2. QED
      BY <2>1, <3>1 DEF SessInv
  <2>10. IdInv' /\ FilterInv'
    BY <2>1 DEF SafeInv, IdInv, FilterInv
  <2>11. ListInv'
    <3>1. \A t \in Thread : th[t].pc = "term" => th'[t] = th[t]
      BY <2>1, <2>2
    <3>2. QED
      <4>1. ASSUME NEW i \in DOMAIN subs, subs[i].type = "ntf", ~subs[i].term, subs[i].srs = <<>>
            PROVE  \E t \in Thread : th'[t].pc = "term" /\ th'[t].at = i
        <5>1. \E t \in Thread : th[t].pc = "term" /\ th[t].at = i
          BY <2>1, <4>1 DEF SafeInv, ListInv
        <5>2. QED
          BY <3>1, <5>1
      <4>2. \A i \in DOMAIN subs : /\ IsInjective(subs[i].srs) /\ \A x \in Range(subs[i].srs) : x[1] = subs[i].id
                                   /\ subs[i].term => Range(subs[i].srs) \cap sr \subseteq leaked
        BY DEF SafeInv, ListInv
      <4>3. QED
        BY <2>1, <4>1, <4>2 DEF ListInv
  <2>12. SysrepoMatches'
    <3>1. \A t \in Thread, x \in sr : th[t].sr = x => th'[t] = th[t]
      BY <2>2, <2>5, Constants DEF TypeOK
    <3>2. QED
      <4>1. \A x \in sr : \/ \E i \in DOMAIN subs : subs[i].id = x[1] /\ x \in Range(subs[i].srs)
                          \/ \E t \in Thread : th'[t].sr = x /\ th'[t].pc # "idle"
                          \/ x \in leaked
        BY <2>1, <3>1 DEF SafeInv, SysrepoMatches
      <4>2. \A i \in DOMAIN subs : subs[i].term \/ subs[i].id \in missed \/ Range(subs[i].srs) \subseteq sr
        BY DEF SafeInv, SysrepoMatches
      <4>3. QED
        BY <2>1, <4>1, <4>2 DEF SysrepoMatches
  <2>13. StatusExact'
    <3>1. \A u \in Session : OwnSubs(u)' = OwnSubs(u) /\ Cardinality(OwnSubs(u)) \in Nat
      BY <2>1, OwnSubsFinite DEF OwnSubs
    <3>2. \A u \in Session : BeingMade(u) = (IF u = q.ncs THEN 1 ELSE 0) /\ BeingMade(u)' = 0
      BY <2>1, <2>5 DEF BeingMade
    <3>3. q.ncs \in Session /\ sess[q.ncs] = "running"
      BY <2>1, <2>5 DEF SafeInv, RpcInv
    <3>4. ASSUME ~miskilled, NEW u \in Session PROVE sess[u] = "gone" \/ status'[u] = Cardinality(OwnSubs(u)) + 0
      <4>1. sess[u] = "gone" \/ status[u] = Cardinality(OwnSubs(u)) + IF u = q.ncs THEN 1 ELSE 0
        BY <3>2, <3>4 DEF SafeInv, StatusExact
      <4>2. CASE u = q.ncs
        <5>1. status[u] = Cardinality(OwnSubs(u)) + 1
          BY <3>3, <4>1, <4>2
        <5>2. status'[u] = Cardinality(OwnSubs(u))
          BY <2>1, <3>1, <4>2, <5>1, CountDown
        <5>3. QED
          BY <3>1, <5>2, PlusZero
      <4>3. CASE u # q.ncs
        BY <2>3, <4>1, <4>3
      <4>4. QED
        BY <4>2, <4>3
    <3>5. QED
      BY <2>1, <3>1, <3>2, <3>4 DEF StatusExact
  <2>14. QED
    BY <2>4, <2>6, <2>7, <2>8, <2>9, <2>10, <2>11, <2>12, <2>13 DEF SafeInv
<1>3. ASSUME EstablishNew PROVE TypeOK' /\ CountInv' /\ SafeInv'
  <2> USE <1>3
  <2> DEFINE q == th["rpc"]  f == q.req[2]  n == Len(subs) + 1
             e == [id |-> q.id, nc |-> q.ncs, type |-> q.req[1], srs |-> <<>>, term |-> FALSE, flt |-> f,
                   xp |-> IF f = None THEN 0 ELSE filters[f]]
  <2>1. /\ q.pc = "establish" /\ lock = None /\ lock' = "rpc" /\ subs' = Append(subs, e)
        /\ f # None => filters[f] # 0
        /\ UNCHANGED <<sidlock, nextId, sr, status, sess, owner, filters, change, changes,
                       undefined, leaked, missed, miskilled>>
    BY DEF EstablishNew, bound, config, hist
  <2>2. PICK moved \in BOOLEAN, todo \in Streams :
          /\ todo = {} => q.req[1] = "push"
          /\ th' = [t \in Thread |->
                    IF t = "rpc" THEN [q EXCEPT !.pc = "subscribe", !.todo = todo]
                    ELSE IF moved /\ th[t].pc \in {"sleep", "send"} THEN [th[t] EXCEPT !.at = 0]
                    ELSE th[t]]
    BY DEF EstablishNew
  <2>3. /\ q \in ThreadState /\ q.id \in 0 .. MaxSubs /\ ThreadInv("rpc") /\ q.id > 0 /\ q.id < nextId
        /\ q.req \in Types \X (Filter \cup {None}) /\ q.ncs \in Session /\ sess[q.ncs] = "running"
        /\ owner[q.id] = q.ncs /\ q.sr = None /\ \A i \in DOMAIN subs : subs[i].id # q.id
    BY <2>1, ThreadStates, Constants DEF SafeInv, RpcInv, Establishing, ThreadInv
  <2>4. e \in Subscriptions /\ e.id = q.id /\ e.nc = q.ncs /\ e.type = q.req[1] /\ e.srs = <<>> /\ ~e.term
        /\ (e.flt # None => e.xp # 0 /\ e.xp = filters[e.flt])
    <3>1. q.id \in 1 .. MaxSubs
      BY <2>3, Constants, SMT
    <3>2. f \in Filter \cup {None} /\ q.req[1] \in Types
      BY <2>3
    <3>3. (IF f = None THEN 0 ELSE filters[f]) \in 0 .. MaxChanges + 1
      BY <3>2, Constants, SMT DEF TypeOK
    <3>4. <<>> \in Seq(SrId)
      BY SMT
    <3>5. QED
      BY <2>1, <2>3, <3>1, <3>2, <3>3, <3>4 DEF Subscriptions
  <2> HIDE DEF e
  <2>5. /\ subs' \in Seq(Subscriptions) /\ Len(subs') = n /\ subs' # <<>> /\ n \in Nat /\ n \notin DOMAIN subs
        /\ DOMAIN subs' = DOMAIN subs \cup {n} /\ subs'[n] = e
        /\ \A i \in DOMAIN subs : subs'[i] = subs[i]
    BY <2>1, <2>4, AppendEffect
  <2> HIDE DEF n
  <2>6. /\ th'["rpc"] \in ThreadState /\ th'["rpc"].pc = "subscribe" /\ th'["rpc"].id = q.id /\ th'["rpc"].ncs = q.ncs
        /\ th'["rpc"].by = q.by /\ th'["rpc"].req = q.req /\ th'["rpc"].sr = q.sr /\ th'["rpc"].todo = todo
    <3>1. th'["rpc"] = [q EXCEPT !.pc = "subscribe", !.todo = todo]
      BY <2>2, Constants
    <3>2. todo \in SUBSET Module
      BY SubNtfAssumption
    <3>3. QED
      BY <2>3, <3>1, <3>2 DEF ThreadState
  <2>7. ASSUME NEW u \in Thread, u # "rpc"
        PROVE  /\ th'[u] \in ThreadState /\ (th[u].pc \notin {"sleep", "send"} => th'[u] = th[u])
               /\ th'[u].pc = th[u].pc /\ th'[u].id = th[u].id /\ th'[u].ncs = th[u].ncs /\ th'[u].sr = th[u].sr
    <3>1. th[u] \in ThreadState
      BY ThreadStates
    <3>2. th'[u] = th[u] \/ (th[u].pc \in {"sleep", "send"} /\ th'[u] = [th[u] EXCEPT !.at = 0])
      BY <2>2, <2>7
    <3>3. QED
      BY <3>1, <3>2, SMT DEF ThreadState
  <2>8. TypeOK' /\ CountInv'
    <3>1. th' \in [Thread -> ThreadState]
      <4>1. \A u \in Thread : th'[u] \in ThreadState
        BY <2>6, <2>7
      <4>2. th' = [u \in Thread |-> th'[u]]
        BY <2>2
      <4>3. QED
        BY <4>1, <4>2
    <3>2. \A i \in DOMAIN subs' : subs'[i].id < nextId
      BY <2>3, <2>4, <2>5, SubsShape
    <3>3. QED
      BY <2>1, <2>5, <3>1, <3>2, Constants DEF TypeOK, CountInv
  <2>9. Establishing /\ Establishing' /\ \A u \in Thread : ~Locked(th[u])
    BY <2>1, <2>6, Exclusion DEF Establishing
  <2>10. ASSUME NEW u \in Thread, u # "rpc" PROVE ThreadInv(u)'
    <3>1. ThreadInv(u) /\ ~Locked(th[u]) /\ ~Locked(th'[u])
      BY <2>7, <2>9, <2>10 DEF SafeInv, Locked
    <3>2. TermInv(th[u])'
      <4>1. th'[u].pc = th[u].pc /\ th'[u].id = th[u].id /\ th'[u].ncs = th[u].ncs
        BY <2>7, <2>10
      <4>2. th[u].pc \notin {"term", "unsub", "finish"}
        BY <3>1 DEF Locked
      <4>3. CASE th[u].pc = "sleep"
        <5>1. /\ Right(th[u]) /\ th[u].id > 0 /\ th[u].id # q.id
              /\ \A i \in DOMAIN subs : subs[i].id = th[u].id => subs[i].term
          BY <2>9, <3>1, <4>3 DEF ThreadInv, TermInv
        <5>2. Right(th[u])'
          BY <2>1, <4>1, <5>1 DEF Right
        <5>3. \A i \in DOMAIN subs' : subs'[i].id = th[u].id => subs'[i].term
          BY <2>4, <2>5, <5>1
        <5>4. QED
          BY <2>6, <4>1, <4>3, <5>1, <5>2, <5>3 DEF TermInv
      <4>4. QED
        BY <4>1, <4>2, <4>3 DEF TermInv
    <3>3. CallbackInv(th[u])'
      <4>1. Range(e.srs) = {}
        BY <2>4, SMT DEF Range
      <4>2. QED
        BY <2>1, <2>5, <2>6, <2>7, <2>9, <2>10, <3>1, <4>1 DEF ThreadInv, CallbackInv
    <3>4. QED
      BY <2>1, <2>7, <2>10, <3>1, <3>2, <3>3 DEF ThreadInv
  <2>11. ThreadInv("rpc")'
    BY <2>1, <2>3, <2>6 DEF ThreadInv, TermInv, CallbackInv
  <2>12. RpcInv'
    BY <2>1, <2>2, <2>3, <2>4, <2>5, <2>6, <2>9 DEF SafeInv, RpcInv, Types
  <2>13. \A u \in Session : SessInv(u)'
    <3> TAKE u \in Session
    <3>1. SessInv(u) /\ u \in Thread /\ u # "rpc"
      BY Constants DEF SafeInv
    <3>2. u # q.ncs \/ (th'[u].pc = "idle" /\ th'[u].sr = None)
      <4>1. Idle.pc = "idle" /\ Idle.sr = None
        BY SMT DEF Idle
      <4>2. QED
        BY <2>3, <2>7, <3>1, <4>1 DEF SessInv
    <3>3. sess[u] = "running" => th'[u] = Idle
      BY <2>7, <3>1 DEF SessInv, Idle
    <3>4. QED
      <4>1. th'[u].pc = th[u].pc /\ th'[u].sr = th[u].sr
        BY <2>7, <3>1
      <4>2. u # q.ncs \/ (th[u].pc # "unsubs" /\ th[u].sr = None)
        BY <3>2, <4>1
      <4>3. (th[u].pc = "unsubs" \/ th[u].sr # None) => \A i \in DOMAIN subs' : subs'[i].nc = u => subs'[i].id \in missed
        BY <2>4, <2>5, <3>1, <4>2 DEF SessInv
      <4>4. QED
        BY <2>1, <3>1, <3>3, <4>1, <4>3 DEF SessInv
  <2>14. IdInv'
    <3>1. /\ \A i, j \in DOMAIN subs : subs[i].id = subs[j].id => i = j
          /\ \A i \in DOMAIN subs : subs[i].nc = owner[subs[i].id]
          /\ \A x \in sr : x[1] < nextId
      BY DEF SafeInv, IdInv
    <3>2. ASSUME NEW i \in DOMAIN subs', NEW j \in DOMAIN subs', subs'[i].id = subs'[j].id PROVE i = j
      <4>1. \A k \in DOMAIN subs : subs'[k].id # subs'[n].id
        BY <2>3, <2>4, <2>5
      <4>2. CASE i \in DOMAIN subs /\ j \in DOMAIN subs
        BY <2>5, <3>1, <3>2, <4>2
      <4>3. CASE i = n \/ j = n
        BY <2>5, <3>2, <4>1, <4>3
      <4>4. QED
        BY <2>5, <4>2, <4>3
    <3>3. \A i \in DOMAIN subs' : subs'[i].nc = owner[subs'[i].id]
      BY <2>3, <2>4, <2>5, <3>1
    <3>4. QED
      BY <2>1, <3>1, <3>2, <3>3 DEF IdInv
  <2>15. FilterInv'
    BY <2>1, <2>4, <2>5 DEF SafeInv, FilterInv
  <2>16. ListInv'
    <3>1. Range(e.srs) = {} /\ IsInjective(e.srs)
      BY <2>4, SMT DEF Range, IsInjective
    <3>2. \A i \in DOMAIN subs : subs[i].type = "ntf" /\ ~subs[i].term => subs[i].srs # <<>>
      BY <2>9, Listed DEF Locked
    <3>3. QED
      <4>1. \A i \in DOMAIN subs : /\ IsInjective(subs[i].srs) /\ \A x \in Range(subs[i].srs) : x[1] = subs[i].id
                                   /\ subs[i].term => Range(subs[i].srs) \cap sr \subseteq leaked
        BY DEF SafeInv, ListInv
      <4>2. \A i \in DOMAIN subs' : IsInjective(subs'[i].srs) /\ \A x \in Range(subs'[i].srs) : x[1] = subs'[i].id
        BY <2>5, <3>1, <4>1
      <4>3. \A i \in DOMAIN subs' : subs'[i].term => Range(subs'[i].srs) \cap sr \subseteq leaked
        BY <2>4, <2>5, <4>1
      <4>4. \A i \in DOMAIN subs' : subs'[i].type = "ntf" /\ ~subs'[i].term /\ subs'[i].srs = <<>> => i = n
        BY <2>5, <3>2
      <4>5. QED
        BY <2>1, <2>5, <2>6, <4>2, <4>3, <4>4 DEF ListInv
  <2>17. SysrepoMatches'
    <3>1. \A t \in Thread, y \in sr : th[t].sr = y /\ th[t].pc # "idle" => th'[t].sr = y /\ th'[t].pc # "idle"
      BY <2>6, <2>7
    <3>2. Range(e.srs) = {}
      BY <2>4, SMT DEF Range
    <3>3. ASSUME NEW x \in sr
          PROVE  \/ \E i \in DOMAIN subs' : subs'[i].id = x[1] /\ x \in Range(subs'[i].srs)
                 \/ \E t \in Thread : th'[t].sr = x /\ th'[t].pc # "idle"
                 \/ x \in leaked
      <4>1. \/ \E i \in DOMAIN subs : subs[i].id = x[1] /\ x \in Range(subs[i].srs)
            \/ \E t \in Thread : th[t].sr = x /\ th[t].pc # "idle"
            \/ x \in leaked
        BY <2>1 DEF SafeInv, SysrepoMatches
      <4>2. QED
        BY <2>5, <3>1, <4>1
    <3>4. \A i \in DOMAIN subs' : subs'[i].term \/ subs'[i].id \in missed \/ Range(subs'[i].srs) \subseteq sr
      <4>1. \A i \in DOMAIN subs : subs[i].term \/ subs[i].id \in missed \/ Range(subs[i].srs) \subseteq sr
        BY DEF SafeInv, SysrepoMatches
      <4>2. QED
        BY <2>5, <3>2, <4>1
    <3>5. QED
      BY <2>1, <3>3, <3>4 DEF SysrepoMatches
  <2>18. StatusExact'
    <3>1. \A u \in Session : Cardinality(OwnSubs(u)) \in Nat /\ IsFiniteSet(OwnSubs(u))
      BY OwnSubsFinite
    <3>2. \A u \in Session : BeingMade(u) = (IF u = q.ncs THEN 1 ELSE 0) /\ BeingMade(u)' = 0
      BY <2>1, <2>6 DEF BeingMade
    <3>3. \A u \in Session : u = q.ncs => OwnSubs(u)' = OwnSubs(u) \cup {n} /\ n \notin OwnSubs(u)
      BY <2>4, <2>5 DEF OwnSubs
    <3>4. \A u \in Session : u # q.ncs => OwnSubs(u)' = OwnSubs(u)
      BY <2>4, <2>5 DEF OwnSubs
    <3>5. \A u \in Session : u = q.ncs => Cardinality(OwnSubs(u))' = Cardinality(OwnSubs(u)) + 1
      BY <3>1, <3>3 DEF FiniteSetFacts
    <3>6. ASSUME ~miskilled, NEW u \in Session
          PROVE  sess[u] = "gone" \/ status[u] = Cardinality(OwnSubs(u))' + 0
      <4>1. sess[u] = "gone" \/ status[u] = Cardinality(OwnSubs(u)) + IF u = q.ncs THEN 1 ELSE 0
        BY <3>2, <3>6 DEF SafeInv, StatusExact
      <4>2. CASE u = q.ncs
        BY <3>1, <3>5, <4>1, <4>2, SMT
      <4>3. CASE u # q.ncs
        BY <3>4, <4>1, <4>3
      <4>4. QED
        BY <4>2, <4>3
    <3>7. QED
      BY <2>1, <3>2, <3>6 DEF StatusExact
  <2>19. QED
    BY <2>8, <2>10, <2>11, <2>12, <2>13, <2>14, <2>15, <2>16, <2>17, <2>18 DEF SafeInv
<1>4. ASSUME SubscribeFails PROVE TypeOK' /\ CountInv' /\ (undefined' \/ SafeInv')
  <2> USE <1>4
  <2> DEFINE q == th["rpc"]  n == Len(subs)  made == {x \in sr : x[1] = q.id}
  <2>1. /\ q.pc = "subscribe" /\ DecStatus(q.ncs) /\ Become("rpc", Idle) /\ sr' = sr \ made /\ lock' = None
        /\ subs' = SubSeq(subs, 1, n - 1) /\ undefined' \in BOOLEAN
        /\ UNCHANGED <<sidlock, nextId, sess, owner, filters, change, changes, leaked, missed, miskilled>>
    BY DEF SubscribeFails, EstablishError, Fault, bound, config
  <2>2. th' \in [Thread -> ThreadState] /\ th'["rpc"] = Idle /\ \A u \in Thread : u # "rpc" => th'[u] = th[u]
    BY <2>1, IdleType, BecomeEffect, Constants
  <2>3. /\ status' \in [Session -> 0 .. MaxSubs] /\ \A u \in Session : status'[u] < nextId
        /\ \A u \in Session : u # q.ncs => status'[u] = status[u]
    BY <2>1, DecStatusEffect
  <2>4. /\ Establishing /\ ~Establishing' /\ q.sr = None /\ th'["rpc"].pc = "idle" /\ subs # <<>>
        /\ subs[n].id = q.id /\ owner[q.id] = q.ncs /\ q.ncs \in Session /\ sess[q.ncs] = "running"
    <3>1. Establishing /\ ~Establishing' /\ th'["rpc"].pc = "idle"
      BY <2>1, <2>2, SMT DEF Establishing, Idle
    <3>2. q.sr = None
      BY Constants DEF SafeInv, ThreadInv
    <3>3. /\ subs # <<>> /\ subs[n].id = q.id /\ owner[q.id] = q.ncs
          /\ q.by \in Session /\ q.ncs = q.by /\ sess[q.by] = "running"
      BY <2>1, <3>1 DEF SafeInv, RpcInv
    <3>4. QED
      BY <3>1, <3>2, <3>3
  <2>5. /\ subs' \in Seq(Subscriptions) /\ n \in DOMAIN subs
        /\ DOMAIN subs' = DOMAIN subs \ {n} /\ \A i \in DOMAIN subs' : subs'[i] = subs[i]
    BY <2>1, <2>4, DropLastEffect
  <2> HIDE DEF n
  <2>6. TypeOK' /\ CountInv'
    BY <2>1, <2>2, <2>3, <2>5 DEF TypeOK, CountInv
  <2>7. /\ \A i \in DOMAIN subs' : i \in DOMAIN subs /\ subs[i].id # q.id
        /\ \A i \in DOMAIN subs : i \notin DOMAIN subs' => subs[i].id = q.id
        /\ subs[n].nc = q.ncs
    <3>1. \A i \in DOMAIN subs : subs[i].id = q.id => i = n
      <4>1. \A i, j \in DOMAIN subs : subs[i].id = subs[j].id => i = j
        BY DEF SafeInv, IdInv
      <4>2. QED
        BY <2>4, <2>5, <4>1
    <3>2. subs[n].nc = owner[subs[n].id]
      BY <2>5 DEF SafeInv, IdInv
    <3>3. QED
      BY <2>4, <2>5, <3>1, <3>2
  <2>8. \A u \in Thread : u # "rpc" => ~Locked(th[u])
    BY <2>1, OthersUnlocked, Constants DEF Locked
  <2>9. ASSUME NEW u \in Thread, u # "rpc" PROVE ThreadInv(u)'
    <3>1. ThreadInv(u) /\ th'[u] = th[u] /\ ~Locked(th[u])
      BY <2>2, <2>8, <2>9 DEF SafeInv
    <3>2. TermInv(th[u])'
      BY <2>1, <2>4, <2>5, <3>1 DEF ThreadInv, TermInv, Right, Locked
    <3>3. CallbackInv(th[u])'
      BY <2>1, <2>4, <2>5, <3>1 DEF ThreadInv, CallbackInv
    <3>4. QED
      BY <2>1, <3>1, <3>2, <3>3 DEF ThreadInv
  <2>10. ThreadInv("rpc")'
    BY <2>2, <2>6, IdleThread, Constants
  <2>11. RpcInv'
    BY <2>4 DEF RpcInv
  <2>12. \A u \in Session : SessInv(u)'
    <3> TAKE u \in Session
    <3>1. SessInv(u) /\ th'[u] = th[u]
      BY <2>2, Constants DEF SafeInv
    <3>2. QED
      BY <2>1, <2>5, <3>1 DEF SessInv
  <2>13. IdInv' /\ FilterInv'
    <3>1. sr' \subseteq sr /\ \A i \in DOMAIN subs' : i \in DOMAIN subs /\ subs'[i] = subs[i]
      BY <2>1, <2>5
    <3>2. owner' = owner /\ nextId' = nextId
      BY <2>1
    <3>3. IdInv'
      BY <3>1, <3>2 DEF SafeInv, IdInv
    <3>4. FilterInv'
      BY <2>1, <3>1 DEF SafeInv, FilterInv
    <3>5. QED
      BY <3>3, <3>4
  <2>14. ListInv'
    <3>1. \A t \in Thread : th[t].pc = "term" => th'[t] = th[t]
      BY <2>1, <2>2
    <3>2. Len(subs) \notin DOMAIN subs'
      BY <2>5 DEF n
    <3>3. ASSUME NEW i \in DOMAIN subs'
          PROVE  /\ i \in DOMAIN subs /\ i # Len(subs) /\ subs'[i] = subs[i]
                 /\ IsInjective(subs[i].srs) /\ \A x \in Range(subs[i].srs) : x[1] = subs[i].id
                 /\ subs[i].term => Range(subs[i].srs) \cap sr' \subseteq leaked
      BY <2>1, <2>5, <3>2, <3>3 DEF SafeInv, ListInv
    <3>4. ASSUME NEW i \in DOMAIN subs', subs[i].type = "ntf", ~subs[i].term, subs[i].srs = <<>>
          PROVE  \E t \in Thread : th'[t].pc = "term" /\ th'[t].at = i
      <4>1. \E t \in Thread : th[t].pc = "term" /\ th[t].at = i
        BY <3>3, <3>4 DEF SafeInv, ListInv
      <4>2. QED
        BY <3>1, <4>1
    <3>5. leaked' = leaked
      BY <2>1
    <3>6. QED
      <4>1. \A i \in DOMAIN subs' : IsInjective(subs'[i].srs) /\ \A x \in Range(subs'[i].srs) : x[1] = subs'[i].id
        BY <3>3
      <4>2. \A i \in DOMAIN subs' : subs'[i].term => Range(subs'[i].srs) \cap sr' \subseteq leaked'
        BY <3>3, <3>5
      <4>3. \A i \in DOMAIN subs' : subs'[i].type = "ntf" /\ ~subs'[i].term /\ subs'[i].srs = <<>> =>
                                    \E t \in Thread : th'[t].pc = "term" /\ th'[t].at = i
        BY <3>3, <3>4
      <4>4. QED
        BY <4>1, <4>2, <4>3 DEF ListInv
  <2>15. SysrepoMatches'
    <3>1. \A t \in Thread, x \in sr : th[t].sr = x => th'[t] = th[t]
      BY <2>2, <2>4, Constants DEF TypeOK
    <3>2. \A x \in sr' : x \in sr /\ x[1] # q.id
      BY <2>1
    <3>3. \A i \in DOMAIN subs' : \A x \in Range(subs[i].srs) : x \in sr => x \in sr'
      <4>1. \A i \in DOMAIN subs : \A x \in Range(subs[i].srs) : x[1] = subs[i].id
        BY DEF SafeInv, ListInv
      <4>2. QED
        BY <2>1, <2>7, <4>1
    <3>4. ASSUME NEW x \in sr'
          PROVE  \/ \E i \in DOMAIN subs' : subs'[i].id = x[1] /\ x \in Range(subs'[i].srs)
                 \/ \E t \in Thread : th'[t].sr = x /\ th'[t].pc # "idle"
                 \/ x \in leaked
      <4>1. \/ \E i \in DOMAIN subs : subs[i].id = x[1] /\ x \in Range(subs[i].srs)
            \/ \E t \in Thread : th[t].sr = x /\ th[t].pc # "idle"
            \/ x \in leaked \/ x[1] = q.id
        BY <3>2 DEF SafeInv, SysrepoMatches
      <4>2. \A i \in DOMAIN subs : subs[i].id = x[1] => i \in DOMAIN subs' /\ subs'[i] = subs[i]
        BY <2>5, <2>7, <3>2
      <4>3. QED
        BY <3>1, <3>2, <4>1, <4>2
    <3>5. \A i \in DOMAIN subs' : subs'[i].term \/ subs'[i].id \in missed \/ Range(subs'[i].srs) \subseteq sr'
      BY <2>5, <3>3 DEF SafeInv, SysrepoMatches
    <3>6. QED
      BY <2>1, <3>4, <3>5 DEF SysrepoMatches
  <2>16. StatusExact'
    <3>1. \A u \in Session : Cardinality(OwnSubs(u)) \in Nat /\ IsFiniteSet(OwnSubs(u))
      BY OwnSubsFinite
    <3>2. \A u \in Session : BeingMade(u) = 0 /\ BeingMade(u)' = 0
      BY <2>1, <2>4 DEF BeingMade
    <3>3. \A u \in Session : u = q.ncs => OwnSubs(u)' = OwnSubs(u) \ {n} /\ n \in OwnSubs(u)
      BY <2>5, <2>7 DEF OwnSubs
    <3>4. \A u \in Session : u # q.ncs => OwnSubs(u)' = OwnSubs(u)
      BY <2>5, <2>7 DEF OwnSubs
    <3>5. \A u \in Session : u = q.ncs => /\ Cardinality(OwnSubs(u))' = Cardinality(OwnSubs(u)) - 1
                                          /\ Cardinality(OwnSubs(u))' \in Nat
      <4>1. \A u \in Session : OwnSubs(u) \ {n} \in SUBSET OwnSubs(u)
        OBVIOUS
      <4>2. QED
        BY <3>1, <3>3, <4>1 DEF FiniteSetFacts
    <3>6. ASSUME ~miskilled, NEW u \in Session
          PROVE  sess[u] = "gone" \/ status'[u] = Cardinality(OwnSubs(u))' + 0
      <4>1. sess[u] = "gone" \/ status[u] = Cardinality(OwnSubs(u)) + 0
        BY <3>2, <3>6 DEF SafeInv, StatusExact
      <4>2. CASE u = q.ncs
        <5>1. status[u] = Cardinality(OwnSubs(u))' + 1
          BY <2>4, <3>1, <3>5, <4>1, <4>2, SMT
        <5>2. status'[u] = Cardinality(OwnSubs(u))'
          BY <2>1, <3>5, <4>2, <5>1, CountDown
        <5>3. QED
          BY <3>5, <4>2, <5>2, PlusZero
      <4>3. CASE u # q.ncs
        BY <2>3, <3>4, <4>1, <4>3
      <4>4. QED
        BY <4>2, <4>3
    <3>7. QED
      BY <2>1, <3>2, <3>6 DEF StatusExact
  <2>17. QED
    BY <2>6, <2>9, <2>10, <2>11, <2>12, <2>13, <2>14, <2>15, <2>16 DEF SafeInv
<1>5. QED
  BY <1>1, <1>2, <1>3, <1>4

============================================================================
