--------------------------- MODULE SubNtf_proofs ---------------------------
(***************************************************************************)
(* The rest of the proof that SubNtfInv's invariant is kept, with what     *)
(* takes theorems on finite sets: the end of establish-subscription and    *)
(* the removal from the array; and the theorems that follow, for any       *)
(* sessions, modules, streams and filters and any number of subscriptions, *)
(* RPCs, changes and faults.                                               *)
(***************************************************************************)
EXTENDS SubNtfSteps, FiniteSetTheorems

\* A leaf that names no prover is left to Zenon.
USE ZenonT(30)

LEMMA SetToSeqProperties ==
    ASSUME NEW S, IsFiniteSet(S)
    PROVE  /\ SetToSeq(S) \in Seq(S) /\ IsInjective(SetToSeq(S)) /\ Range(SetToSeq(S)) = S
           /\ S # {} => SetToSeq(S) # <<>>
<1> DEFINE n == Cardinality(S)  f == SetToSeq(S)
<1>1. n \in Nat /\ ExistsBijection(1 .. n, S)
  BY FS_CardinalityType
<1>2. \E g \in [1 .. n -> S] : IsInjective(g)
  BY <1>1 DEF ExistsBijection, Bijection, Injection, IsInjective
<1>3. f \in [1 .. n -> S] /\ IsInjective(f)
  BY <1>2 DEF SetToSeq
<1> HIDE DEF f
<1>4. f \in Injection(1 .. n, S)
  BY <1>3 DEF Injection, IsInjective
<1>5. Cardinality(1 .. n) = n
  BY <1>1, FS_Interval, SMT
<1>6. f \in Surjection(1 .. n, S)
  BY <1>4, <1>5, FS_Injection
<1>7. Range(f) = S
  BY <1>3, <1>6 DEF Surjection, Range
<1>8. f \in Seq(S)
  BY <1>1, <1>3, SMT
<1>9. S # {} => f # <<>>
  <2>1. f = <<>> => 1 .. n = {}
    BY <1>3, SMT
  <2>2. QED
    BY <1>3, <1>7, <2>1 DEF Range
<1>10. QED
  BY <1>3, <1>7, <1>8, <1>9 DEF f

LEMMA FiniteSets == FiniteSetFacts
<1>1. \A n \in Nat : IsFiniteSet(1 .. n)
  BY FS_Interval, SMT
<1>2. \A S : IsFiniteSet(S) => Cardinality(S) \in Nat
  BY FS_CardinalityType
<1>3. \A S : IsFiniteSet(S) => \A T \in SUBSET S : IsFiniteSet(T)
  BY FS_Subset
<1>4. \A S : IsFiniteSet(S) => \A x : x \notin S => Cardinality(S \cup {x}) = Cardinality(S) + 1
  BY FS_AddElement
<1>5. \A S : IsFiniteSet(S) => \A x \in S : Cardinality(S \ {x}) = Cardinality(S) - 1
  BY FS_RemoveElement
<1>6. QED
  BY <1>1, <1>2, <1>3, <1>4, <1>5 DEF FiniteSetFacts

(***************************************************************************)
(* The end of establish-subscription: the sysrepo subscriptions made are   *)
(* listed in the entry.                                                    *)
(***************************************************************************)
LEMMA EstablishDoneSafe ==
    ASSUME TypeOK, CountInv, SafeInv, ~undefined, EstablishDone
    PROVE  TypeOK' /\ CountInv' /\ SafeInv'
<1> DEFINE q == th["rpc"]  n == Len(subs)  made == {x \in sr : x[1] = q.id}
           e == [subs[n] EXCEPT !.srs = SetToSeq(made)]
<1>1. /\ q.pc = "subscribe" /\ q.todo = {} /\ Put(n, e) /\ lock' = None /\ Become("rpc", Idle)
      /\ UNCHANGED <<sidlock, nextId, sr, status, sess, owner, filters, change, changes,
                     undefined, leaked, missed, miskilled>>
  BY DEF EstablishDone, bound, config, hist
<1>2. th' \in [Thread -> ThreadState] /\ th'["rpc"] = Idle /\ \A u \in Thread : u # "rpc" => th'[u] = th[u]
  BY <1>1, IdleType, BecomeEffect, Constants
<1>3. /\ Establishing /\ ~Establishing' /\ q.sr = None /\ th'["rpc"].pc = "idle" /\ subs # <<>>
      /\ subs[n].id = q.id /\ ~subs[n].term /\ subs[n].type = q.req[1]
      /\ (q.req[1] = "ntf" => made # {})
  BY <1>1, <1>2, Constants, SMT DEF Establishing, Idle, SafeInv, ThreadInv, RpcInv
<1>4. n \in DOMAIN subs
  BY <1>3, SubsShape, SMT
<1>5. /\ SetToSeq(made) \in Seq(SrId) /\ IsInjective(SetToSeq(made)) /\ Range(SetToSeq(made)) = made
      /\ (made # {} => SetToSeq(made) # <<>>)
  <2>1. IsFiniteSet(SrId)
    <3>1. IsFiniteSet(1 .. MaxSubs)
      BY Constants, FS_Interval, SMT
    <3>2. QED
      BY <3>1, Constants, FS_Product DEF SrId
  <2>2. made \subseteq SrId
    BY DEF TypeOK
  <2>3. IsFiniteSet(made)
    BY <2>1, <2>2, FS_Subset
  <2>4. SetToSeq(made) \in Seq(made) => SetToSeq(made) \in Seq(SrId)
    BY <2>2, SMT
  <2>5. QED
    BY <2>3, <2>4, SetToSeqProperties
<1>6. /\ e \in Subscriptions /\ e.id = subs[n].id /\ e.nc = subs[n].nc /\ e.type = subs[n].type
      /\ e.srs = SetToSeq(made) /\ e.term = subs[n].term /\ e.flt = subs[n].flt /\ e.xp = subs[n].xp
  <2>1. subs[n] \in Subscriptions
    BY <1>4, SubsShape
  <2>2. QED
    BY <1>5, <2>1 DEF Subscriptions
<1> HIDE DEF e, made
<1>7. /\ subs' \in Seq(Subscriptions) /\ DOMAIN subs' = DOMAIN subs
      /\ subs'[n] = e /\ \A j \in DOMAIN subs : j # n => subs'[j] = subs[j]
      /\ \A j \in DOMAIN subs : subs'[j].id = subs[j].id
  BY <1>1, <1>4, <1>6, PutEffect, SMT
<1>8. \A j \in DOMAIN subs : /\ subs'[j].nc = subs[j].nc /\ subs'[j].term = subs[j].term
                             /\ subs'[j].flt = subs[j].flt /\ subs'[j].xp = subs[j].xp
  BY <1>6, <1>7
<1>9. TypeOK' /\ CountInv'
  BY <1>1, <1>2, <1>7 DEF TypeOK, CountInv
<1>10. \A u \in Thread : u # "rpc" => ~Locked(th[u])
  BY <1>1, OthersUnlocked, Constants DEF Locked
<1>11. ASSUME NEW u \in Thread, u # "rpc" PROVE ThreadInv(u)'
  <2>1. ThreadInv(u) /\ th'[u] = th[u] /\ ~Locked(th[u])
    BY <1>2, <1>10, <1>11 DEF SafeInv
  <2>2. TermInv(th[u])'
    BY <1>1, <1>3, <1>7, <1>8, <2>1 DEF ThreadInv, TermInv, Right, Locked
  <2>3. CallbackInv(th[u])'
    <3>1. th[u].sr # None => th[u].sr \notin made
      BY <1>3, <2>1 DEF ThreadInv, CallbackInv, made
    <3>2. QED
      <4> SUFFICES ASSUME th[u].sr # None PROVE CallbackInv(th[u])'
        BY <2>1 DEF CallbackInv
      <4>1. /\ th[u].id = th[u].sr[1] /\ th[u].pc \notin {"idle", "send"}
            /\ th[u].pc # "cb" => \A i \in DOMAIN subs : subs[i].term \/ th[u].sr \notin Range(subs[i].srs)
        BY <2>1 DEF ThreadInv, CallbackInv
      <4>2. ~Establishing'
        BY <1>3 DEF Establishing
      <4>3. ASSUME th[u].pc # "cb", NEW i \in DOMAIN subs
            PROVE  subs'[i].term \/ th[u].sr \notin Range(subs'[i].srs)
        BY <1>5, <1>6, <1>7, <3>1, <4>1, <4>3
      <4>4. QED
        BY <1>7, <2>1, <4>1, <4>2, <4>3 DEF CallbackInv
  <2>4. QED
    BY <1>1, <2>1, <2>2, <2>3 DEF ThreadInv
<1>12. ThreadInv("rpc")'
  BY <1>2, <1>9, IdleThread, Constants
<1>13. RpcInv'
  BY <1>3 DEF RpcInv
<1>14. \A u \in Session : SessInv(u)'
  <2> TAKE u \in Session
  <2>1. SessInv(u) /\ th'[u] = th[u]
    BY <1>2, Constants DEF SafeInv
  <2>2. QED
    BY <1>1, <1>7, <1>8, <2>1 DEF SessInv
<1>15. IdInv' /\ FilterInv'
  <2>1. IdInv'
    BY <1>1, <1>7, <1>8 DEF SafeInv, IdInv
  <2>2. FilterInv'
    BY <1>1, <1>7, <1>8 DEF SafeInv, FilterInv
  <2>3. QED
    BY <2>1, <2>2
<1>16. ListInv'
  <2>1. \A t \in Thread : th[t].pc = "term" => th'[t] = th[t]
    BY <1>1, <1>2
  <2>2. /\ IsInjective(e.srs) /\ \A x \in Range(e.srs) : x[1] = e.id
        /\ (e.type = "ntf" => e.srs # <<>>) /\ ~e.term
    BY <1>3, <1>5, <1>6 DEF made
  <2>3. ASSUME NEW i \in DOMAIN subs, i # n, subs[i].type = "ntf", ~subs[i].term, subs[i].srs = <<>>
        PROVE  \E t \in Thread : th'[t].pc = "term" /\ th'[t].at = i
    <3>1. \E t \in Thread : th[t].pc = "term" /\ th[t].at = i
      BY <2>3 DEF SafeInv, ListInv
    <3>2. QED
      BY <2>1, <3>1
  <2>4. ASSUME NEW i \in DOMAIN subs, i # n
        PROVE  /\ IsInjective(subs[i].srs) /\ \A x \in Range(subs[i].srs) : x[1] = subs[i].id
               /\ subs[i].term => Range(subs[i].srs) \cap sr \subseteq leaked
    BY DEF SafeInv, ListInv
  <2>5. QED
    <3>1. \A i \in DOMAIN subs' : IsInjective(subs'[i].srs) /\ \A x \in Range(subs'[i].srs) : x[1] = subs'[i].id
      BY <1>7, <2>2, <2>4
    <3>2. \A i \in DOMAIN subs' : subs'[i].type = "ntf" /\ ~subs'[i].term /\ subs'[i].srs = <<>> =>
                                  \E t \in Thread : th'[t].pc = "term" /\ th'[t].at = i
      BY <1>7, <2>2, <2>3
    <3>3. \A i \in DOMAIN subs' : subs'[i].term => Range(subs'[i].srs) \cap sr' \subseteq leaked'
      BY <1>1, <1>7, <2>2, <2>4
    <3>4. QED
      BY <3>1, <3>2, <3>3 DEF ListInv
<1>17. SysrepoMatches'
  <2>1. \A t \in Thread, x \in sr : th[t].sr = x => th'[t] = th[t]
    BY <1>2, <1>3, Constants, SMT DEF TypeOK
  <2>2. \A x \in sr : x[1] = q.id => subs'[n].id = x[1] /\ x \in Range(subs'[n].srs)
    BY <1>3, <1>5, <1>6, <1>7 DEF made
  <2>3. \A i \in DOMAIN subs : \A x \in sr : subs[i].id = x[1] /\ x[1] # q.id => subs'[i] = subs[i]
    BY <1>3, <1>7
  <2>4. ASSUME NEW x \in sr
        PROVE  \/ \E i \in DOMAIN subs' : subs'[i].id = x[1] /\ x \in Range(subs'[i].srs)
               \/ \E t \in Thread : th'[t].sr = x /\ th'[t].pc # "idle"
               \/ x \in leaked
    <3>1. \/ \E i \in DOMAIN subs : subs[i].id = x[1] /\ x \in Range(subs[i].srs)
          \/ \E t \in Thread : th[t].sr = x /\ th[t].pc # "idle"
          \/ x \in leaked \/ x[1] = q.id
      BY DEF SafeInv, SysrepoMatches
    <3>2. CASE x[1] = q.id
      BY <1>4, <1>7, <2>2, <3>2
    <3>3. CASE x[1] # q.id
      BY <1>7, <2>1, <2>3, <3>1, <3>3
    <3>4. QED
      BY <3>2, <3>3
  <2>5. made \subseteq sr
    BY DEF made
  <2>6. \A i \in DOMAIN subs' : subs'[i].term \/ subs'[i].id \in missed \/ Range(subs'[i].srs) \subseteq sr
    <3>1. \A i \in DOMAIN subs : subs[i].term \/ subs[i].id \in missed \/ Range(subs[i].srs) \subseteq sr
      BY DEF SafeInv, SysrepoMatches
    <3>2. Range(subs'[n].srs) \subseteq sr
      BY <1>5, <1>6, <1>7, <2>5
    <3>3. QED
      BY <1>7, <3>1, <3>2
  <2>7. QED
    BY <1>1, <2>4, <2>6 DEF SysrepoMatches
<1>18. StatusExact'
  <2>1. \A u \in Session : OwnSubs(u)' = OwnSubs(u) /\ BeingMade(u)' = BeingMade(u)
    BY <1>1, <1>3, <1>7, <1>8 DEF OwnSubs, BeingMade
  <2>2. QED
    BY <1>1, <2>1 DEF SafeInv, StatusExact
<1>19. QED
  BY <1>9, <1>11, <1>12, <1>13, <1>14, <1>15, <1>16, <1>17, <1>18 DEF SafeInv

(***************************************************************************)
(* The end of sub_ntf_terminate_sub: the subscription is taken out of the  *)
(* array.                                                                  *)
(***************************************************************************)
LEMMA RemoveEffect ==
    ASSUME TypeOK, NEW STATE k, k \in DOMAIN subs, subs' = RemoveAt(subs, k),
           \A i, j \in DOMAIN subs : subs[i].id = subs[j].id => i = j
    PROVE  /\ subs' \in Seq(Subscriptions)
           /\ \A j \in DOMAIN subs' : \E i \in DOMAIN subs : i # k /\ subs'[j] = subs[i]
           /\ \A i \in DOMAIN subs : i # k => \E j \in DOMAIN subs' : subs'[j] = subs[i]
           /\ \A i, j \in DOMAIN subs' : subs'[i].id = subs'[j].id => i = j
           /\ \A s \in Session : Cardinality(OwnSubs(s))' = Cardinality(OwnSubs(s) \ {k})
<1>1. subs \in Seq(Subscriptions) /\ DOMAIN subs = 1 .. Len(subs) /\ k \in 1 .. Len(subs)
  BY SubsShape DEF TypeOK
<1>2. subs' \in Seq(Subscriptions) /\ DOMAIN subs' = 1 .. Len(subs) - 1
  BY <1>1, RemoveAtProperties
<1>3. PICK g \in [1 .. Len(subs) - 1 -> (1 .. Len(subs)) \ {k}] :
            /\ \A i, j \in 1 .. Len(subs) - 1 : g[i] = g[j] => i = j
            /\ \A n \in (1 .. Len(subs)) \ {k} : \E i \in 1 .. Len(subs) - 1 : g[i] = n
            /\ \A i \in 1 .. Len(subs) - 1 : RemoveAt(subs, k)[i] = subs[g[i]]
  BY <1>1, RemoveAtShift
<1>4. /\ g \in [DOMAIN subs' -> DOMAIN subs \ {k}]
      /\ \A i, j \in DOMAIN subs' : g[i] = g[j] => i = j
      /\ \A n \in DOMAIN subs \ {k} : \E i \in DOMAIN subs' : g[i] = n
      /\ \A i \in DOMAIN subs' : subs'[i] = subs[g[i]]
  BY <1>1, <1>2, <1>3
<1>5. /\ \A j \in DOMAIN subs' : \E i \in DOMAIN subs : i # k /\ subs'[j] = subs[i]
      /\ \A i \in DOMAIN subs : i # k => \E j \in DOMAIN subs' : subs'[j] = subs[i]
      /\ \A i, j \in DOMAIN subs' : subs'[i].id = subs'[j].id => i = j
  <2>1. \A j \in DOMAIN subs' : \E i \in DOMAIN subs : i # k /\ subs'[j] = subs[i]
    BY <1>4
  <2>2. \A i \in DOMAIN subs : i # k => \E j \in DOMAIN subs' : subs'[j] = subs[i]
    BY <1>4, SMT
  <2>3. \A i, j \in DOMAIN subs' : subs'[i].id = subs'[j].id => i = j
    <3> TAKE i, j \in DOMAIN subs'
    <3> HAVE subs'[i].id = subs'[j].id
    <3>1. g[i] \in DOMAIN subs /\ g[j] \in DOMAIN subs /\ subs[g[i]].id = subs[g[j]].id
      BY <1>4
    <3>2. g[i] = g[j]
      BY <3>1
    <3>3. QED
      BY <1>4, <3>2
  <2>4. QED
    BY <2>1, <2>2, <2>3
<1>6. ASSUME NEW s \in Session PROVE Cardinality(OwnSubs(s))' = Cardinality(OwnSubs(s) \ {k})
  <2> DEFINE A == OwnSubs(s)'  B == OwnSubs(s) \ {k}  h == [j \in A |-> g[j]]
  <2>1. A = {j \in DOMAIN subs' : subs'[j].nc = s} /\ B = {i \in DOMAIN subs : subs[i].nc = s /\ i # k}
    BY DEF OwnSubs
  <2> HIDE DEF A, B
  <2>2. h \in [A -> B] /\ \A j \in A : h[j] = g[j]
    BY <1>4, <2>1, SMT
  <2>3. \A i, j \in A : h[i] = h[j] => i = j
    BY <1>4, <2>1, <2>2
  <2>4. \A n \in B : \E j \in A : h[j] = n
    <3> TAKE n \in B
    <3>1. PICK j \in DOMAIN subs' : g[j] = n
      BY <1>4, <2>1
    <3>2. j \in A
      BY <1>4, <2>1, <3>1
    <3>3. QED
      BY <2>2, <3>1, <3>2
  <2> HIDE DEF h
  <2>5. h \in Injection(A, B) /\ h \in Surjection(A, B)
    BY <2>2, <2>3, <2>4 DEF Injection, IsInjective, Surjection
  <2>6. IsFiniteSet(B)
    BY FiniteSets, OwnSubsFinite, FS_RemoveElement DEF B
  <2>7. Cardinality(A) = Cardinality(B)
    BY <2>5, <2>6, FS_Injection
  <2>8. QED
    BY <2>7 DEF A, B
<1>7. QED
  BY <1>2, <1>5, <1>6

LEMMA FinishSafe ==
    ASSUME TypeOK, CountInv, SafeInv, ~undefined, NEW t \in Thread, Finish(t)
    PROVE  TypeOK' /\ CountInv' /\ (undefined' \/ SafeInv')
<1> DEFINE q == th[t]  k == q.at  r == [q EXCEPT !.pc = "done", !.inner = FALSE]
<1>0. subs' = IF k \in DOMAIN subs THEN RemoveAt(subs, k) ELSE subs
  BY DEF Finish
<1>1. /\ q.pc = "finish"
      /\ undefined' = (k \notin DOMAIN subs \/ sess[q.ncs] = "gone" \/ subs[k].id # q.id \/ (q.inner /\ sidlock # q.cb))
      /\ DecStatus(q.ncs) /\ sidlock' \in {None, sidlock} /\ Become(t, r)
      /\ UNCHANGED <<lock, nextId, sr, sess, owner, filters, change, changes, leaked, missed, miskilled>>
  BY DEF Finish, config, bound
<1>2. q \in ThreadState /\ ThreadInv(t)
  BY ThreadStates DEF SafeInv
<1>3. th' \in [Thread -> ThreadState] /\ th'[t] = r /\ \A u \in Thread : u # t => th'[u] = th[u]
  <2>1. r \in ThreadState
    BY <1>2 DEF ThreadState
  <2>2. QED
    BY <1>1, <2>1, BecomeEffect
<1>4. th'[t].pc = "done" /\ th'[t].id = q.id /\ th'[t].sr = q.sr /\ th'[t].by = q.by
  BY <1>2, <1>3 DEF ThreadState
<1> HIDE DEF r
<1>5. /\ status' \in [Session -> 0 .. MaxSubs] /\ \A u \in Session : status'[u] < nextId
      /\ \A u \in Session : u # q.ncs => status'[u] = status[u]
  BY <1>1, DecStatusEffect
<1>6. k \in DOMAIN subs =>
        /\ subs' \in Seq(Subscriptions)
        /\ \A j \in DOMAIN subs' : \E i \in DOMAIN subs : i # k /\ subs'[j] = subs[i]
        /\ \A i \in DOMAIN subs : i # k => \E j \in DOMAIN subs' : subs'[j] = subs[i]
        /\ \A i, j \in DOMAIN subs' : subs'[i].id = subs'[j].id => i = j
        /\ \A s \in Session : Cardinality(OwnSubs(s))' = Cardinality(OwnSubs(s) \ {k})
  BY <1>0, RemoveEffect DEF SafeInv, IdInv
<1>7. TypeOK' /\ CountInv'
  <2>1. subs' \in Seq(Subscriptions) /\ \A i \in DOMAIN subs' : subs'[i].id < nextId
    <3>1. CASE k \in DOMAIN subs
      BY <1>6, <3>1, SubsShape, SMT
    <3>2. CASE k \notin DOMAIN subs
      BY <1>0, <3>2 DEF TypeOK
    <3>3. QED
      BY <3>1, <3>2
  <2>2. undefined' \in BOOLEAN /\ sidlock' \in SrId \cup {None}
    BY <1>1 DEF TypeOK
  <2>3. QED
    BY <1>1, <1>3, <1>5, <2>1, <2>2 DEF TypeOK, CountInv
<1>8. ASSUME ~undefined' PROVE SafeInv'
  <2>1. k \in DOMAIN subs /\ sess[q.ncs] # "gone" /\ subs[k].id = q.id
    BY <1>1, <1>8
  <2>2. subs[k].term /\ Right(q) /\ lock = t /\ subs[k].nc = owner[q.id] /\ subs[k].nc \in Session
    <3>1. Locked(q) /\ (Locked(q) => lock = t) /\ TermInv(q)
      BY <1>1, <1>2 DEF ThreadInv, Locked
    <3>2. Right(q) /\ \A i \in DOMAIN subs : subs[i].id = q.id => subs[i].term
      BY <1>1, <3>1 DEF TermInv
    <3>3. subs[k].nc = owner[subs[k].id]
      BY <2>1 DEF SafeInv, IdInv
    <3>4. subs[k].nc \in Session
      BY <2>1, SubsShape DEF Subscriptions
    <3>5. QED
      BY <2>1, <3>1, <3>2, <3>3, <3>4
  <2>3. /\ \A j \in DOMAIN subs' : \E i \in DOMAIN subs : i # k /\ subs'[j] = subs[i]
        /\ \A i \in DOMAIN subs : i # k => \E j \in DOMAIN subs' : subs'[j] = subs[i]
    BY <1>6, <2>1
  <2>4. \A u \in Thread : u # t => ~Locked(th[u])
    BY <1>1, OthersUnlocked DEF Locked
  <2>5. t = "rpc" => ~Establishing /\ ~Establishing'
    BY <1>1, <1>4 DEF Establishing
  <2>6. Establishing' = Establishing /\ (Establishing => th'["rpc"] = th["rpc"])
    BY <1>3, <2>5, Constants, SMT DEF Establishing
  <2>7. ASSUME NEW u \in Thread PROVE CallbackInv(th[u])'
    <3>1. CallbackInv(th[u]) /\ th'[u].sr = th[u].sr /\ th'[u].id = th[u].id
      BY <1>3, <1>4 DEF SafeInv, ThreadInv
    <3>2. th'[u].pc = th[u].pc \/ (th'[u].pc = "done" /\ th[u].pc = "finish")
      BY <1>1, <1>3, <1>4
    <3>3. QED
      BY <1>1, <2>3, <2>6, <3>1, <3>2 DEF CallbackInv
  <2>8. ASSUME NEW u \in Thread, u # t PROVE ThreadInv(u)'
    <3>1. ThreadInv(u) /\ th'[u] = th[u] /\ ~Locked(th[u])
      BY <1>3, <2>4, <2>8 DEF SafeInv
    <3>2. TermInv(th[u])'
      <4>1. th[u].pc \notin {"term", "unsub", "finish"}
        BY <3>1 DEF Locked
      <4>2. CASE th[u].pc = "sleep"
        <5>1. /\ Right(th[u]) /\ th[u].id > 0 /\ (Establishing => th[u].id # th["rpc"].id)
              /\ \A i \in DOMAIN subs : subs[i].id = th[u].id => subs[i].term
          BY <3>1, <4>2 DEF ThreadInv, TermInv
        <5>2. \A i \in DOMAIN subs' : subs'[i].id = th[u].id => subs'[i].term
          BY <2>3, <5>1, SMT
        <5>3. QED
          BY <1>1, <2>6, <3>1, <4>2, <5>1, <5>2 DEF TermInv, Right
      <4>3. CASE th[u].pc # "sleep"
        BY <3>1, <4>1, <4>3 DEF TermInv
      <4>4. QED
        BY <4>2, <4>3
    <3>3. QED
      BY <1>1, <2>7, <3>1, <3>2 DEF ThreadInv
  <2>9. ThreadInv(t)'
    BY <1>1, <1>2, <1>4, <2>2, <2>7 DEF ThreadInv, TermInv
  <2>10. RpcInv'
    <3>1. th["rpc"].pc # "subscribe" /\ th'["rpc"].pc # "subscribe"
      BY <1>1, <1>3, <1>4, <2>4, Constants DEF Locked
    <3>2. th'["rpc"].pc # "idle" => th'["rpc"].by \in Session /\ sess'[th'["rpc"].by] = "running"
      BY <1>1, <1>3, <1>4, Constants DEF SafeInv, RpcInv
    <3>3. th'["rpc"].pc = "establish" => Establishing' /\ th["rpc"].pc = "establish" /\ th'["rpc"] = th["rpc"]
      BY <2>6 DEF Establishing
    <3>4. UNCHANGED <<sess, owner>>
      BY <1>1
    <3>5. Establishing' => /\ th'["rpc"].ncs = th'["rpc"].by /\ th'["rpc"].id > 0
                           /\ owner'[th'["rpc"].id] = th'["rpc"].ncs
                           /\ th'["rpc"].req \in Types \X (Filter \cup {None})
      BY <2>6, <3>4 DEF SafeInv, RpcInv
    <3>6. th'["rpc"].pc = "establish" => \A i \in DOMAIN subs' : subs'[i].id # th'["rpc"].id
      BY <2>3, <3>3 DEF SafeInv, RpcInv
    <3>7. QED
      BY <3>1, <3>2, <3>5, <3>6 DEF RpcInv
  <2>11. ASSUME NEW s \in Session PROVE SessInv(s)'
    <3>1. SessInv(s) /\ s \in Thread /\ th'[s].sr = th[s].sr
      BY <1>3, <1>4, Constants DEF SafeInv
    <3>2. th'[s] = th[s] \/ (s = t /\ th'[s].pc = "done" /\ th[s].pc = "finish")
      BY <1>1, <1>3, <1>4, <3>1
    <3>3. UNCHANGED <<sess, missed>>
      BY <1>1
    <3>4. sess[s] = "running" => th'[s] = Idle
      BY <3>1, <3>2 DEF SessInv, Idle
    <3>5. th'[s].pc = "unsubs" \/ th'[s].sr # None =>
            \A i \in DOMAIN subs' : subs'[i].nc = s => subs'[i].id \in missed
      BY <2>3, <3>1, <3>2 DEF SessInv
    <3>6. th'[s].pc # "idle" => sess[s] = "ending"
      BY <3>1, <3>2 DEF SessInv
    <3>7. th'[s].pc \in {"wait", "scan", "unsubs"} => th'[s].sr = None
      BY <3>1, <3>2 DEF SessInv
    <3>8. QED
      BY <3>3, <3>4, <3>5, <3>6, <3>7 DEF SessInv
  <2>12. IdInv'
    BY <1>1, <1>6, <2>1, <2>3, SMT DEF SafeInv, IdInv
  <2>13. ListInv'
    <3>1. \A i \in DOMAIN subs : subs[i].type = "ntf" /\ ~subs[i].term => subs[i].srs # <<>>
      BY <1>1, <2>4, Listed DEF Locked
    <3>2. \A i \in DOMAIN subs :
            /\ IsInjective(subs[i].srs) /\ \A x \in Range(subs[i].srs) : x[1] = subs[i].id
            /\ subs[i].term => Range(subs[i].srs) \cap sr \subseteq leaked
      BY DEF SafeInv, ListInv
    <3>3. UNCHANGED <<sr, leaked>>
      BY <1>1
    <3>4. ASSUME NEW j \in DOMAIN subs'
          PROVE  /\ IsInjective(subs'[j].srs) /\ \A x \in Range(subs'[j].srs) : x[1] = subs'[j].id
                 /\ ~(subs'[j].type = "ntf" /\ ~subs'[j].term /\ subs'[j].srs = <<>>)
                 /\ subs'[j].term => Range(subs'[j].srs) \cap sr \subseteq leaked
      <4>1. PICK i \in DOMAIN subs : subs'[j] = subs[i]
        BY <2>3
      <4>2. QED
        BY <3>1, <3>2, <4>1
    <3>5. QED
      BY <3>3, <3>4 DEF ListInv
  <2>14. FilterInv'
    BY <1>1, <2>3, SMT DEF SafeInv, FilterInv
  <2>15. SysrepoMatches'
    <3>1. th["rpc"].pc # "subscribe"
      BY <1>1, <2>4, Constants DEF Locked
    <3>2. \A u \in Thread, x \in sr : th[u].sr = x /\ th[u].pc # "idle" => th'[u].sr = x /\ th'[u].pc # "idle"
      BY <1>3, <1>4
    <3>3. Range(subs[k].srs) \cap sr \subseteq leaked
      BY <2>1, <2>2 DEF SafeInv, ListInv
    <3>4. \A x \in sr :
              \/ \E i \in DOMAIN subs' : subs'[i].id = x[1] /\ x \in Range(subs'[i].srs)
              \/ \E u \in Thread : th'[u].sr = x /\ th'[u].pc # "idle"
              \/ x \in leaked
      <4> TAKE x \in sr
      <4>1. \/ \E i \in DOMAIN subs : subs[i].id = x[1] /\ x \in Range(subs[i].srs)
            \/ \E u \in Thread : th[u].sr = x /\ th[u].pc # "idle"
            \/ x \in leaked
        BY <3>1 DEF SafeInv, SysrepoMatches
      <4>2. ASSUME NEW i \in DOMAIN subs, subs[i].id = x[1], x \in Range(subs[i].srs)
            PROVE  x \in leaked \/ \E j \in DOMAIN subs' : subs'[j].id = x[1] /\ x \in Range(subs'[j].srs)
        BY <2>3, <3>3, <4>2
      <4>3. QED
        BY <3>2, <4>1, <4>2
    <3>5. \A i \in DOMAIN subs' : subs'[i].term \/ subs'[i].id \in missed \/ Range(subs'[i].srs) \subseteq sr
      BY <2>3 DEF SafeInv, SysrepoMatches
    <3>6. QED
      BY <1>1, <3>4, <3>5 DEF SysrepoMatches
  <2>16. StatusExact'
    <3>1. \A u \in Session : Cardinality(OwnSubs(u)) \in Nat /\ IsFiniteSet(OwnSubs(u))
      BY FiniteSets, OwnSubsFinite
    <3>2. \A u \in Session : BeingMade(u)' = BeingMade(u) /\ BeingMade(u) \in Nat
      BY <2>6 DEF BeingMade, Establishing
    <3>3. \A u \in Session : u # subs[k].nc => OwnSubs(u) \ {k} = OwnSubs(u)
      BY DEF OwnSubs
    <3>4. \A u \in Session : u = subs[k].nc => k \in OwnSubs(u)
      BY <2>1 DEF OwnSubs
    <3>5. \A u \in Session : u # subs[k].nc => Cardinality(OwnSubs(u))' = Cardinality(OwnSubs(u))
      BY <1>6, <2>1, <3>3
    <3>6. \A u \in Session : u = subs[k].nc => /\ Cardinality(OwnSubs(u))' = Cardinality(OwnSubs(u)) - 1
                                               /\ Cardinality(OwnSubs(u))' \in Nat
      <4> TAKE u \in Session
      <4> HAVE u = subs[k].nc
      <4>1. /\ IsFiniteSet(OwnSubs(u) \ {k})
            /\ Cardinality(OwnSubs(u) \ {k}) = Cardinality(OwnSubs(u)) - 1
        BY <3>1, <3>4, FS_RemoveElement
      <4>2. Cardinality(OwnSubs(u) \ {k}) \in Nat
        BY <4>1, FS_CardinalityType
      <4>3. QED
        BY <1>6, <2>1, <4>1, <4>2
    <3>7. ASSUME ~miskilled, NEW u \in Session
          PROVE  sess[u] = "gone" \/ status'[u] = Cardinality(OwnSubs(u))' + BeingMade(u)
      <4>1. q.ncs = subs[k].nc
        BY <2>2, <3>7 DEF Right
      <4>2. sess[u] = "gone" \/ status[u] = Cardinality(OwnSubs(u)) + BeingMade(u)
        BY <3>7 DEF SafeInv, StatusExact
      <4>3. CASE u = q.ncs
        <5> DEFINE c == Cardinality(OwnSubs(u))' + BeingMade(u)
        <5>1. status[u] = c + 1 /\ c \in Nat
          BY <2>1, <3>1, <3>2, <3>6, <4>1, <4>2, <4>3, SMT
        <5> HIDE DEF c
        <5>2. status'[u] = c
          BY <1>1, <4>3, <5>1, CountDown
        <5>3. QED
          BY <5>2 DEF c
      <4>4. CASE u # q.ncs
        BY <1>5, <3>5, <4>1, <4>2, <4>4
      <4>5. QED
        BY <4>3, <4>4
    <3>8. QED
      BY <1>1, <3>2, <3>7 DEF StatusExact
  <2>17. QED
    BY <2>8, <2>9, <2>10, <2>11, <2>12, <2>13, <2>14, <2>15, <2>16 DEF SafeInv
<1>9. QED
  BY <1>7, <1>8

(***************************************************************************)
(* Every step of every thread keeps the invariant.                         *)
(***************************************************************************)

Safe == ~undefined /\ TypeOK /\ CountInv /\ SafeInv
SafeAfter == TypeOK' /\ CountInv' /\ (undefined' \/ SafeInv')

LEMMA InitSafe == Init => SubInv
<1> SUFFICES ASSUME Init PROVE SubInv
  OBVIOUS
<1>1. /\ subs = <<>> /\ lock = None /\ sidlock = None /\ nextId = 1 /\ sr = {}
      /\ change = None /\ changes = 0 /\ undefined = FALSE /\ miskilled = FALSE
      /\ th = [t \in Thread |-> Idle]
  BY DEF Init
<1>2. owner \in [1 .. MaxSubs -> Session \cup {None}] /\ sess \in [Session -> {"running", "ending", "gone"}]
  BY DEF Init
<1>3. status \in [Session -> 0 .. MaxSubs] /\ \A s \in Session : status[s] = 0 /\ sess[s] = "running"
  BY Constants, SMT DEF Init
<1>4. filters \in [Filter -> 0 .. MaxChanges + 1] /\ \A f \in Filter : filters[f] = 1
  BY Constants, SMT DEF Init
<1>5. th \in [Thread -> ThreadState] /\ \A t \in Thread : th[t] = Idle
  BY <1>1, IdleType
<1>6. subs \in Seq(Subscriptions) /\ DOMAIN subs = {} /\ nextId \in 1 .. MaxSubs + 1
  BY <1>1, Constants, SMT
<1>7. TypeOK /\ CountInv
  <2>1. changes \in 0 .. MaxChanges
    BY <1>1, Constants, SMT
  <2>2. TypeOK
    BY <1>1, <1>2, <1>3, <1>4, <1>5, <1>6, <2>1 DEF TypeOK
  <2>3. CountInv
    BY <1>1, <1>3, <1>4, SMT DEF CountInv
  <2>4. QED
    BY <2>2, <2>3
<1>8. Idle.pc = "idle" /\ Idle.sr = None /\ Idle.id = 0
  BY DEF Idle
<1>9. ASSUME NEW t \in Thread PROVE ThreadInv(t)
  BY <1>1, <1>5, <1>8, SMT DEF ThreadInv, TermInv, CallbackInv, Locked
<1>10. RpcInv
  BY <1>5, <1>8, Constants DEF RpcInv, Establishing
<1>11. ASSUME NEW s \in Session PROVE SessInv(s)
  BY <1>3, <1>5, <1>8, Constants DEF SessInv
<1>12. IdInv /\ ListInv /\ FilterInv /\ SysrepoMatches
  BY <1>1, <1>6 DEF IdInv, ListInv, FilterInv, SysrepoMatches
<1>13. StatusExact
  <2>1. \A s \in Session : OwnSubs(s) = {} /\ BeingMade(s) = 0
    BY <1>5, <1>6, <1>8, Constants DEF OwnSubs, BeingMade
  <2>2. Cardinality({}) = 0
    BY FS_EmptySet
  <2>3. QED
    BY <1>3, <2>1, <2>2, SMT DEF StatusExact
<1>14. QED
  BY <1>7, <1>9, <1>10, <1>11, <1>12, <1>13 DEF SubInv, SafeInv

LEMMA TermStepSafe ==
    ASSUME Safe, NEW t \in Thread, TermStep(t)
    PROVE  SafeAfter
<1>1. ASSUME Finish(t) PROVE SafeAfter
  BY <1>1, FinishSafe DEF Safe, SafeAfter
<1>2. ASSUME LockPass(t) \/ Unsubscribe(t) \/ UnsubscribeFails(t) \/ Terminating(t) \/ Relock(t)
      PROVE  SafeAfter
  BY <1>2, TermWorkSafe DEF Safe, SafeAfter
<1>3. QED
  BY <1>1, <1>2 DEF TermStep

LEMMA CallbackStepSafe ==
    ASSUME Safe, NEW t \in Session \cup {"notif", "timer"}, CallbackStep(t)
    PROVE  SafeAfter
<1>1. ASSUME Terminated(t) \/ TerminatedDone(t) PROVE SafeAfter
  BY <1>1, CallbackSafe DEF Safe, SafeAfter
<1>2. t \in Thread
  BY Constants
<1>3. QED
  BY <1>1, <1>2, TermStepSafe DEF CallbackStep

LEMMA StepSafe == SubInv /\ [Next]_vars => SubInv'
<1> SUFFICES ASSUME SubInv, [Next]_vars PROVE SubInv'
  OBVIOUS
<1>1. CASE UNCHANGED vars
  <2>1. /\ TypeOK' = TypeOK /\ CountInv' = CountInv /\ undefined' = undefined
    BY <1>1 DEF TypeOK, CountInv, vars
  <2>2. \A t \in Thread : ThreadInv(t)' = ThreadInv(t)
    <3> TAKE t \in Thread
    <3>1. TermInv(th[t])' = TermInv(th[t])
      BY <1>1 DEF TermInv, Right, Establishing, vars
    <3>2. CallbackInv(th[t])' = CallbackInv(th[t])
      BY <1>1 DEF CallbackInv, Establishing, vars
    <3>3. QED
      BY <1>1, <3>1, <3>2 DEF ThreadInv, vars
  <2>3. RpcInv' = RpcInv /\ \A s \in Session : SessInv(s)' = SessInv(s)
    BY <1>1 DEF RpcInv, SessInv, Establishing, vars
  <2>4. IdInv' = IdInv /\ ListInv' = ListInv /\ FilterInv' = FilterInv
    BY <1>1 DEF IdInv, ListInv, FilterInv, vars
  <2>5. SysrepoMatches' = SysrepoMatches /\ StatusExact' = StatusExact
    <3>1. SysrepoMatches' = SysrepoMatches
      BY <1>1 DEF SysrepoMatches, vars
    <3>2. \A s \in Session : OwnSubs(s)' = OwnSubs(s) /\ BeingMade(s)' = BeingMade(s)
      BY <1>1 DEF OwnSubs, BeingMade, vars
    <3>3. StatusExact' = StatusExact
      BY <1>1, <3>2 DEF StatusExact, vars
    <3>4. QED
      BY <3>1, <3>3
  <2>6. QED
    BY <2>1, <2>2, <2>3, <2>4, <2>5 DEF SubInv, SafeInv
<1>2. CASE Next
  <2>0. Safe
    BY <1>2 DEF Next, SubInv, Safe
  <2>1. "rpc" \in Thread /\ "data" \in Thread
    BY Constants
  <2>2. ASSUME NEW s \in Session, NEW type \in Types, NEW f \in Filter \cup {None}, EstablishStart(s, type, f)
        PROVE  SafeAfter
    BY <2>0, <2>2, FiniteSets, EstablishSafe DEF Safe, SafeAfter
  <2>3. ASSUME NEW s \in Session, NEW id \in 1 .. MaxSubs, NEW f \in Filter \cup {None}, ModifySub(s, id, f)
        PROVE  SafeAfter
    BY <2>0, <2>3, FilterWorkSafe DEF Safe, SafeAfter
  <2>4. ASSUME \/ \E s \in Session, id \in 1 .. MaxSubs : DeleteSub(s, id) \/ KillSub(s, id)
               \/ \E s \in Session : EndSession(s)
        PROVE  SafeAfter
    BY <2>0, <2>4, RequestSafe DEF Safe, SafeAfter
  <2>5. ASSUME NEW f \in Filter, ConfigChange(f) PROVE SafeAfter
    BY <2>0, <2>5, FilterWorkSafe DEF Safe, SafeAfter
  <2>6. ASSUME \/ \E x \in SrId : StopTime(x) \/ Notify(x)
               \/ \E id \in 1 .. MaxSubs : StopTimer(id)
               \/ NotifSent
        PROVE  SafeAfter
    BY <2>0, <2>6, CallbackBeginsSafe DEF Safe, SafeAfter
  <2>7. ASSUME RpcStep PROVE SafeAfter
    <3>1. ASSUME EstablishRefuse \/ EstablishNew \/ SubscribeFails PROVE SafeAfter
      BY <2>0, <3>1, FiniteSets, EstablishSafe DEF Safe, SafeAfter
    <3>2. ASSUME EstablishDone PROVE SafeAfter
      BY <2>0, <3>2, EstablishDoneSafe DEF Safe, SafeAfter
    <3>3. ASSUME NEW m \in Module, Subscribe(m) PROVE SafeAfter
      BY <2>0, <3>3, SubscribeSafe DEF Safe, SafeAfter
    <3>4. ASSUME RpcDone PROVE SafeAfter
      BY <2>0, <3>4, RequestSafe DEF Safe, SafeAfter
    <3>5. ASSUME TermStep("rpc") PROVE SafeAfter
      BY <2>0, <2>1, <3>5, TermStepSafe
    <3>6. QED
      BY <2>7, <3>1, <3>2, <3>3, <3>4, <3>5 DEF RpcStep
  <2>8. ASSUME DataStep PROVE SafeAfter
    <3>1. ASSUME FilterModified \/ FilterDeleted \/ FilterScan \/ FilterScanEnds \/ FilterNext PROVE SafeAfter
      BY <2>0, <3>1, FilterWorkSafe DEF Safe, SafeAfter
    <3>2. ASSUME TermStep("data") PROVE SafeAfter
      BY <2>0, <2>1, <3>2, TermStepSafe
    <3>3. QED
      BY <2>8, <3>1, <3>2 DEF DataStep
  <2>9. ASSUME NEW t \in {"notif", "timer"}, CallbackStep(t) PROVE SafeAfter
    BY <2>0, <2>9, CallbackStepSafe
  <2>10. ASSUME NEW s \in Session, SessionStep(s) PROVE SafeAfter
    <3>1. ASSUME \/ SessionLock(s) \/ SessionScan(s) \/ SessionScanEnds(s) \/ SessionNext(s)
                 \/ SessionUnsubscribe(s) \/ SessionFree(s)
          PROVE  SafeAfter
      BY <2>0, <3>1, SessionWorkSafe DEF Safe, SafeAfter
    <3>2. ASSUME CallbackStep(s) PROVE SafeAfter
      BY <2>0, <3>2, CallbackStepSafe
    <3>3. QED
      BY <2>10, <3>1, <3>2 DEF SessionStep
  <2>11. SafeAfter
    BY ONLY <1>2, <2>2, <2>3, <2>4, <2>5, <2>6, <2>7, <2>8, <2>9, <2>10 DEF Next, NotifStep
  <2>12. QED
    BY <2>11 DEF SafeAfter, SubInv
<1>3. QED
  BY <1>1, <1>2

LEMMA Safety == Spec => []SubInv
BY InitSafe, StepSafe, PTL DEF Spec

(* Every variable keeps its type, the counts of subscriptions stay between *)
(* zero and the number of IDs given out, and only IDs given out are in the *)
(* array, even after undefined behaviour (np2srv_rpc_establish_sub_cb,     *)
(* sub_ntf_terminate_sub).                                                 *)
THEOREM TypeCorrect == Spec => []TypeOK
<1>1. SubInv => TypeOK
  BY DEF SubInv
<1>2. QED
  BY Safety, <1>1, PTL

(* sysrepo and the registry agree on the subscriptions there are, through  *)
(* failed subscribing, the passing of the lock and whichever threads meet  *)
(* in sub_ntf_terminate_sub and np2srv_sub_ntf_terminate_sub_cb.           *)
THEOREM SysrepoAgrees == Spec => []SysrepoMatches
<1>1. SubInv => SysrepoMatches
  BY DEF SubInv, SafeInv, SysrepoMatches
<1>2. QED
  BY Safety, <1>1, PTL

(* libnetconf2 counts each living session's subscriptions exactly, unless  *)
(* another session killed one of yang-push (np2srv_rpc_establish_sub_cb,   *)
(* np2srv_rpc_kill_sub_cb, sub_ntf_terminate_sub).                         *)
THEOREM CountsAreExact == Spec => []StatusExact
<1>1. SubInv => StatusExact
  BY DEF SubInv, SafeInv, StatusExact
<1>2. QED
  BY Safety, <1>1, PTL

(* A change of a configured filter that has been handled is in effect for  *)
(* every subscription that was not passed by, could be changed and is not  *)
(* being terminated (np2srv_config_sub_ntf_filters_cb).                    *)
THEOREM FiltersAreCurrent == Spec => []FilterCurrent
<1>1. SubInv => FilterCurrent
  <2> SUFFICES ASSUME SubInv, change = None, ~undefined, NEW i \in DOMAIN subs
               PROVE  \/ subs[i].flt = None \/ subs[i].term \/ subs[i].id \in missed
                      \/ subs[i].xp = filters[subs[i].flt]
    BY DEF FilterCurrent
  <2>1. subs[i].flt \in Filter \cup {None} /\ FilterInv
    BY SubsShape DEF SubInv, SafeInv, Subscriptions
  <2>2. QED
    BY <2>1, Constants DEF FilterInv
<1>2. QED
  BY Safety, <1>1, PTL
============================================================================
