----------------------------- MODULE SubNtfInv -----------------------------
(***************************************************************************)
(* What the registry of subscriptions keeps to, for any number of sessions,*)
(* subscriptions, modules and filters, whichever way its threads meet:     *)
(* types, the registry's agreement with sysrepo, with libnetconf2's counts *)
(* and with the configured filters.  This module has the inductive         *)
(* invariant, and the steps that change one thread or filters only.        *)
(***************************************************************************)
EXTENDS SubNtf, TLAPS

\* A leaf that names no prover is left to Zenon.
USE ZenonT(30)

(***************************************************************************)
(* The inductive invariant, of which nothing is claimed any more once the  *)
(* behaviour is undefined.                                                 *)
(***************************************************************************)

Locked(r) == r.pc \in {"subscribe", "term", "unsub", "finish", "done", "scan"}
Establishing == th["rpc"].pc \in {"establish", "subscribe"}

(* Thread t in state r.  Who works on the array holds the lock.  In        *)
(* sub_ntf_terminate_sub it is about a certain subscription, and works for *)
(* its owner when it comes to the count, unless miskilled.  A callback     *)
(* that has looked at the array has taken its ID off it.                   *)
Right(r) == miskilled \/ r.ncs = owner[r.id]

TermInv(r) ==
    LET e == subs[r.at] IN
    /\ r.pc \in {"term", "unsub"} => r.at \in DOMAIN subs /\ e.id = r.id /\ ~e.term
    /\ r.pc = "term" => Right(r) \/ (e.type = "ntf" /\ e.srs # <<>>)
    /\ r.pc = "unsub" => e.type = "ntf" /\ e.srs # <<>> /\ (r.cb \in sr => Head(e.srs) = r.cb)
    /\ r.pc \in {"sleep", "finish"} =>
        /\ Right(r) /\ r.id > 0 /\ (Establishing => r.id # th["rpc"].id)
        /\ \A i \in DOMAIN subs : subs[i].id = r.id => subs[i].term

CallbackInv(r) ==
    r.sr # None => /\ r.id = r.sr[1] /\ r.pc \notin {"idle", "send"} /\ (Establishing => r.id # th["rpc"].id)
                   /\ r.pc # "cb" => \A i \in DOMAIN subs : subs[i].term \/ r.sr \notin Range(subs[i].srs)

ThreadInv(t) ==
    /\ Locked(th[t]) => lock = t
    /\ th[t].id < nextId
    /\ TermInv(th[t]) /\ CallbackInv(th[t])
    /\ th[t].sr # None => t \in Session \cup {"notif"}
    /\ th[t].pc = "cb" /\ t # "timer" => th[t].sr # None

(* The RPC in progress, and what establish-subscription has made so far. *)
RpcInv ==
    LET r == th["rpc"] IN
    /\ r.pc # "idle" => r.by \in Session /\ sess[r.by] = "running"
    /\ Establishing => /\ r.ncs = r.by /\ r.id > 0 /\ owner[r.id] = r.ncs
                       /\ r.req \in Types \X (Filter \cup {None})
    /\ r.pc = "establish" => \A i \in DOMAIN subs : subs[i].id # r.id
    /\ r.pc = "subscribe" => /\ subs # <<>>
                             /\ LET e == subs[Len(subs)] IN
                                /\ e.id = r.id /\ e.type = r.req[1]
                                /\ ~e.term /\ e.srs = <<>>
                             /\ r.req[1] = "ntf" => r.todo # {} \/ \E x \in sr : x[1] = r.id

(* A session that runs has no worker ending it; one whose subscriptions    *)
(* have been gone through has none left that was not passed by.            *)
SessInv(s) ==
    /\ sess[s] = "running" => th[s] = Idle
    /\ th[s].pc # "idle" => sess[s] = "ending"
    /\ th[s].pc \in {"wait", "scan", "unsubs"} => th[s].sr = None
    /\ th[s].pc = "unsubs" \/ th[s].sr # None =>
        \A i \in DOMAIN subs : subs[i].nc = s => subs[i].id \in missed

(* Subscriptions have IDs of their own, given out before, each with the    *)
(* session it was given to, and so have sysrepo's subscriptions.           *)
IdInv ==
    /\ \A i, j \in DOMAIN subs : subs[i].id = subs[j].id => i = j
    /\ \A i \in DOMAIN subs : subs[i].nc = owner[subs[i].id]
    /\ \A x \in sr : x[1] < nextId

(* The sysrepo subscriptions that a subscription lists are its own and     *)
(* different.  A stream subscription has some, unless it is being made or  *)
(* its last one is in its final callback; when it is terminated there are  *)
(* none left but those that could not be removed.                          *)
ListInv ==
    \A i \in DOMAIN subs :
        LET e == subs[i] IN
        /\ IsInjective(e.srs) /\ \A x \in Range(e.srs) : x[1] = e.id
        /\ e.type = "ntf" /\ ~e.term /\ e.srs = <<>> =>
            \/ th["rpc"].pc = "subscribe" /\ i = Len(subs)
            \/ \E t \in Thread : th[t].pc = "term" /\ th[t].at = i
        /\ e.term => Range(e.srs) \cap sr \subseteq leaked

(* Filters in use have been read, and are up to date or about to be.       *)
FilterInv ==
    \A i \in DOMAIN subs :
        LET e == subs[i] IN
        e.flt # None => /\ e.xp # 0
                        /\ e.term \/ e.id \in missed \/ e.xp = filters[e.flt] \/ change = e.flt

SafeInv ==
    /\ \A t \in Thread : ThreadInv(t)
    /\ RpcInv /\ (\A s \in Session : SessInv(s)) /\ IdInv /\ ListInv /\ FilterInv
    /\ SysrepoMatches /\ StatusExact

(* No count is larger than the number of IDs given out, no version of a    *)
(* filter larger than the number of changes.                               *)
CountInv == (\A s \in Session : status[s] < nextId) /\ \A f \in Filter : filters[f] <= changes + 1

SubInv == TypeOK /\ CountInv /\ (undefined \/ SafeInv)

(***************************************************************************)
(* Lemmas on sequences.                                                    *)
(***************************************************************************)

LEMMA ConcatType ==
    ASSUME NEW S, NEW a \in Seq(S), NEW b \in Seq(S)
    PROVE  a \o b \in Seq(S) /\ Len(a \o b) = Len(a) + Len(b)
  BY SMT

LEMMA RemoveAtProperties ==
    ASSUME NEW S, NEW s \in Seq(S), NEW k \in 1 .. Len(s)
    PROVE  /\ RemoveAt(s, k) \in Seq(S) /\ Len(RemoveAt(s, k)) = Len(s) - 1
           /\ DOMAIN RemoveAt(s, k) = 1 .. Len(s) - 1
           /\ \A i \in 1 .. Len(s) - 1 : RemoveAt(s, k)[i] = IF i < k THEN s[i] ELSE s[i + 1]
<1> DEFINE a == SubSeq(s, 1, k - 1)  b == SubSeq(s, k + 1, Len(s))
<1>1. a \in Seq(S) /\ Len(a) = k - 1 /\ \A i \in 1 .. k - 1 : a[i] = s[i]
  BY SMT
<1>2. b \in Seq(S) /\ Len(b) = Len(s) - k /\ \A i \in 1 .. Len(s) - k : b[i] = s[k + i]
  BY SMT
<1> HIDE DEF a, b
<1>3. a \o b \in Seq(S) /\ Len(a \o b) = Len(s) - 1
  <2>1. a \o b \in Seq(S) /\ Len(a \o b) = Len(a) + Len(b)
    BY <1>1, <1>2, ConcatType
  <2>2. QED
    BY <1>1, <1>2, <2>1, SMT
<1>4. \A i \in 1 .. Len(s) - 1 : (a \o b)[i] = IF i < k THEN s[i] ELSE s[i + 1]
  <2> TAKE i \in 1 .. Len(s) - 1
  <2>0. i < k \/ i >= k
    <3>1. Len(s) \in Nat
      BY SMT
    <3>2. i \in Int /\ k \in Int
      BY <3>1, SMT
    <3>3. QED
      BY <3>2, SMT
  <2>1. CASE i < k
    BY <1>1, <1>2, <2>1, SMT
  <2>2. CASE i >= k
    <3>1. (a \o b)[i] = b[i - (k - 1)]
      BY <1>1, <1>2, <2>2, SMT
    <3>2. i - (k - 1) \in 1 .. Len(s) - k /\ k + (i - (k - 1)) = i + 1
      BY <2>2, SMT
    <3>3. b[i - (k - 1)] = s[k + (i - (k - 1))]
      BY <1>2, <3>2
    <3>4. (a \o b)[i] = s[i + 1]
      BY <3>1, <3>2, <3>3
    <3>5. ~(i < k)
      BY <2>2, SMT
    <3>6. QED
      BY <3>4, <3>5
  <2>3. QED
    BY <2>0, <2>1, <2>2
<1>5. RemoveAt(s, k) = a \o b
  BY DEF RemoveAt, a, b
<1>6. DOMAIN RemoveAt(s, k) = 1 .. Len(s) - 1
  BY <1>3, <1>5, SMT
<1>7. QED
  BY <1>3, <1>4, <1>5, <1>6

(* Everything but the k-th element stays. *)
LEMMA RemoveAtRange ==
    ASSUME NEW S, NEW s \in Seq(S), NEW k \in 1 .. Len(s), IsInjective(s)
    PROVE  /\ IsInjective(RemoveAt(s, k))
           /\ Range(RemoveAt(s, k)) = Range(s) \ {s[k]}
<1> DEFINE r == RemoveAt(s, k)  from(i) == IF i < k THEN i ELSE i + 1
<1>1. /\ r \in Seq(S) /\ DOMAIN r = 1 .. Len(s) - 1 /\ DOMAIN s = 1 .. Len(s)
      /\ \A i \in 1 .. Len(s) - 1 : r[i] = s[from(i)]
  BY RemoveAtProperties, SMT
<1>2. \A i \in 1 .. Len(s) - 1 : from(i) \in 1 .. Len(s) /\ from(i) # k
  BY SMT
<1>3. \A i, j \in 1 .. Len(s) - 1 : from(i) = from(j) => i = j
  BY SMT
<1>4. \A n \in 1 .. Len(s) : n # k => \E i \in 1 .. Len(s) - 1 : from(i) = n
  <2> TAKE n \in 1 .. Len(s)
  <2> HAVE n # k
  <2>1. CASE n < k
    BY <2>1, SMT
  <2>2. CASE n > k
    <3>1. n - 1 \in 1 .. Len(s) - 1 /\ from(n - 1) = n
      BY <2>2, SMT
    <3>2. QED
      BY <3>1
  <2>3. QED
    BY <2>1, <2>2, SMT
<1> HIDE DEF r, from
<1>5. IsInjective(r)
  <2> SUFFICES ASSUME NEW i \in DOMAIN r, NEW j \in DOMAIN r, r[i] = r[j] PROVE i = j
    BY DEF IsInjective
  <2>1. /\ i \in 1 .. Len(s) - 1 /\ j \in 1 .. Len(s) - 1
        /\ from(i) \in DOMAIN s /\ from(j) \in DOMAIN s /\ s[from(i)] = s[from(j)]
    BY <1>1, <1>2
  <2>2. from(i) = from(j)
    BY <2>1 DEF IsInjective
  <2>3. QED
    BY <1>3, <2>1, <2>2
<1>6. Range(r) \subseteq Range(s) \ {s[k]}
  <2> SUFFICES ASSUME NEW i \in 1 .. Len(s) - 1 PROVE r[i] \in Range(s) \ {s[k]}
    BY <1>1 DEF Range
  <2>1. r[i] = s[from(i)] /\ from(i) \in DOMAIN s /\ from(i) # k /\ k \in DOMAIN s
    BY <1>1, <1>2
  <2>2. s[from(i)] # s[k]
    BY <2>1 DEF IsInjective
  <2>3. QED
    BY <2>1, <2>2 DEF Range
<1>7. Range(s) \ {s[k]} \subseteq Range(r)
  <2> SUFFICES ASSUME NEW n \in 1 .. Len(s), n # k PROVE s[n] \in Range(r)
    BY <1>1 DEF Range
  <2>1. PICK i \in 1 .. Len(s) - 1 : from(i) = n
    BY <1>4
  <2>2. QED
    BY <1>1, <2>1 DEF Range
<1>8. QED
  BY <1>5, <1>6, <1>7 DEF r

(* An ID is taken off a list of different IDs. *)
LEMMA WithoutProperties ==
    ASSUME NEW S, NEW s \in Seq(S), NEW x, IsInjective(s)
    PROVE  /\ Without(s, x) \in Seq(S) /\ IsInjective(Without(s, x))
           /\ Range(Without(s, x)) = Range(s) \ {x}
           /\ s # <<>> /\ s # <<x>> => Without(s, x) # <<>>
           /\ s # <<>> /\ Head(s) # x => Head(Without(s, x)) = Head(s)
<1>0. Len(s) \in Nat /\ DOMAIN s = 1 .. Len(s)
  BY SMT
<1>1. CASE x \in Range(s)
  <2> DEFINE k == CHOOSE i \in DOMAIN s : s[i] = x  r == RemoveAt(s, k)
  <2>1. k \in 1 .. Len(s) /\ s[k] = x
    BY <1>0, <1>1 DEF Range
  <2>2. Without(s, x) = r
    BY <1>1 DEF Without
  <2> HIDE DEF k
  <2>3. /\ r \in Seq(S) /\ Len(r) = Len(s) - 1
        /\ \A i \in 1 .. Len(s) - 1 : r[i] = IF i < k THEN s[i] ELSE s[i + 1]
    BY <2>1, RemoveAtProperties
  <2>8. Len(r) = Len(s) - 1
    BY <2>3
  <2>4. IsInjective(r) /\ Range(r) = Range(s) \ {x}
    BY <2>1, RemoveAtRange
  <2> HIDE DEF r
  <2>5. s # <<x>> => r # <<>>
    <3> SUFFICES ASSUME r = <<>> PROVE s = <<x>>
      OBVIOUS
    <3>1. Len(s) = 1
      <4>1. Len(r) = 0
        OBVIOUS
      <4>2. \A n \in Nat : 0 = n - 1 => n = 1
        BY SMT
      <4>3. Len(s) \in Nat
        BY <1>0
      <4>4. QED
        BY <2>8, <4>1, <4>2, <4>3
    <3>2. k = 1
      BY <2>1, <3>1, SMT
    <3>3. QED
      BY <2>1, <3>1, <3>2, SMT
  <2>6. s # <<>> /\ Head(s) # x => Head(r) = Head(s)
    <3> SUFFICES ASSUME s # <<>>, Head(s) # x PROVE Head(r) = Head(s)
      OBVIOUS
    <3>1. s[1] # x /\ Head(s) = s[1]
      BY SMT
    <3>2. k > 1
      BY <2>1, <3>1, SMT
    <3>3. r[1] = s[1] /\ Len(r) >= 1
      BY <1>0, <2>1, <2>3, <3>2, SMT
    <3>4. QED
      BY <2>3, <3>1, <3>3, SMT
  <2>7. QED
    BY <2>2, <2>3, <2>4, <2>5, <2>6
<1>2. CASE x \notin Range(s)
  BY <1>2 DEF Without
<1>3. QED
  BY <1>1, <1>2

LEMMA TailProperties ==
    ASSUME NEW S, NEW s \in Seq(S), s # <<>>, IsInjective(s)
    PROVE  /\ Head(s) \in S /\ Head(s) \in Range(s) /\ Tail(s) \in Seq(S)
           /\ IsInjective(Tail(s)) /\ Range(Tail(s)) = Range(s) \ {Head(s)}
<1>1. /\ Tail(s) \in Seq(S) /\ Len(Tail(s)) = Len(s) - 1 /\ Len(s) \in Nat \ {0}
      /\ \A i \in 1 .. Len(s) - 1 : Tail(s)[i] = s[i + 1]
      /\ Head(s) = s[1] /\ DOMAIN s = 1 .. Len(s) /\ DOMAIN Tail(s) = 1 .. Len(s) - 1
  BY SMT
<1>2. Head(s) \in Range(s) /\ Head(s) \in S
  BY <1>1, SMT DEF Range
<1>3. IsInjective(Tail(s))
  BY <1>1, SMT DEF IsInjective
<1>4. Range(Tail(s)) \subseteq Range(s) \ {Head(s)}
  BY <1>1, SMT DEF Range, IsInjective
<1>5. Range(s) \ {Head(s)} \subseteq Range(Tail(s))
  <2> SUFFICES ASSUME NEW n \in 1 .. Len(s), n # 1 PROVE s[n] \in Range(Tail(s))
    BY <1>1 DEF Range
  <2>1. n - 1 \in 1 .. Len(s) - 1 /\ (n - 1) + 1 = n
    BY <1>1, SMT
  <2>2. Tail(s)[n - 1] = s[n]
    BY <1>1, <2>1
  <2>3. QED
    BY <1>1, <2>1, <2>2 DEF Range
<1>6. QED
  BY <1>1, <1>2, <1>3, <1>4, <1>5

(***************************************************************************)
(* Types.                                                                  *)
(***************************************************************************)

LEMMA Constants ==
    /\ MaxSubs \in Nat /\ MaxChanges \in Nat /\ IsFiniteSet(Module)
    /\ None \notin Thread /\ None \notin Session /\ None \notin Filter /\ None \notin SrId
    /\ "rpc" \in Thread \ Session /\ "data" \in Thread \ Session
    /\ "notif" \in Thread \ Session /\ "timer" \in Thread \ Session /\ Session \subseteq Thread
BY SubNtfAssumption DEF Thread

LEMMA IdleType == Idle \in ThreadState
BY Constants, SMT DEF Idle, ThreadState

LEMMA NextIdPositive ==
    ASSUME TypeOK
    PROVE  nextId > 0
<1>1. nextId \in 1 .. MaxSubs + 1
  BY DEF TypeOK
<1>2. QED
  BY <1>1, Constants, SMT

(* A thread that goes on at another place stays a thread. *)
LEMMA StateMoves ==
    ASSUME NEW q \in ThreadState
    PROVE  /\ [q EXCEPT !.pc = "term"] \in ThreadState
           /\ [q EXCEPT !.pc = "done", !.inner = FALSE] \in ThreadState
           /\ \A a \in Nat : [q EXCEPT !.pc = "scan", !.at = a] \in ThreadState
           /\ \A a \in Nat, n \in 0 .. 2 : [q EXCEPT !.at = a, !.nodes = n] \in ThreadState
<1>1. [q EXCEPT !.pc = "term"] \in ThreadState
  BY DEF ThreadState
<1>2. [q EXCEPT !.pc = "done", !.inner = FALSE] \in ThreadState
  BY DEF ThreadState
<1>3. \A a \in Nat : [q EXCEPT !.pc = "scan", !.at = a] \in ThreadState
  BY DEF ThreadState
<1>4. \A a \in Nat, n \in 0 .. 2 : [q EXCEPT !.at = a, !.nodes = n] \in ThreadState
  BY DEF ThreadState
<1>5. QED
  BY <1>1, <1>2, <1>3, <1>4

(* The registry as a function, without sequences. *)
LEMMA SubsShape ==
    ASSUME TypeOK
    PROVE  /\ Len(subs) \in Nat /\ DOMAIN subs = 1 .. Len(subs)
           /\ \A i \in DOMAIN subs :
                /\ subs[i] \in Subscriptions /\ subs[i].id \in 1 .. MaxSubs /\ subs[i].nc \in Session
                /\ subs[i].type \in Types /\ subs[i].srs \in Seq(SrId) /\ subs[i].term \in BOOLEAN
                /\ subs[i].id < nextId
<1>1. subs \in Seq(Subscriptions) /\ \A i \in DOMAIN subs : subs[i].id < nextId
  BY DEF TypeOK
<1>2. Len(subs) \in Nat /\ DOMAIN subs = 1 .. Len(subs)
  BY <1>1, SMT
<1>3. \A i \in DOMAIN subs : subs[i] \in Subscriptions
  BY <1>1, SMT
<1>4. QED
  BY <1>1, <1>2, <1>3 DEF Subscriptions

LEMMA BecomeEffect ==
    ASSUME TypeOK, NEW t \in Thread, NEW STATE r, r \in ThreadState, Become(t, r)
    PROVE  /\ th' \in [Thread -> ThreadState] /\ th'[t] = r
           /\ \A u \in Thread : u # t => th'[u] = th[u]
BY DEF Become, TypeOK

LEMMA PutEffect ==
    ASSUME TypeOK, NEW STATE i, i \in DOMAIN subs, NEW STATE e, e \in Subscriptions,
           e.id = subs[i].id, Put(i, e)
    PROVE  /\ subs' \in Seq(Subscriptions) /\ Len(subs') = Len(subs) /\ DOMAIN subs' = DOMAIN subs
           /\ subs'[i] = e /\ \A j \in DOMAIN subs : j # i => subs'[j] = subs[j]
           /\ \A j \in DOMAIN subs : subs'[j].id = subs[j].id
BY SMT DEF Put, TypeOK

LEMMA ThreadStates ==
    ASSUME TypeOK
    PROVE  /\ \A t \in Thread : th[t] \in ThreadState
           /\ \A t \in Thread : th[t].at \in Nat /\ th[t].id \in 0 .. MaxSubs /\ th[t].left \in Int
BY DEF TypeOK, ThreadState

(***************************************************************************)
(* Steps that change the state of one thread and nothing that is shared    *)
(* but the lock (and perhaps the state of the thread's session).           *)
(***************************************************************************)

Shared == <<subs, nextId, sr, owner, status, filters, changes, leaked>>

ThreadStepTypes ==
    /\ th' \in [Thread -> ThreadState] /\ lock' \in Thread \cup {None}
    /\ sidlock' \in SrId \cup {None} /\ {undefined', miskilled'} \subseteq BOOLEAN
    /\ sess' \in [Session -> {"running", "ending", "gone"}] /\ change' \in Filter \cup {None}

LEMMA ThreadStepTyped ==
    ASSUME TypeOK, CountInv, ThreadStepTypes, UNCHANGED Shared
    PROVE  TypeOK' /\ CountInv'
<1>1. TypeOK'
  BY DEF TypeOK, ThreadStepTypes, Shared
<1>2. CountInv'
  BY DEF CountInv, Shared
<1>3. QED
  BY <1>1, <1>2

LEMMA ThreadStep ==
    ASSUME TypeOK, CountInv, SafeInv, ~undefined, ThreadStepTypes, UNCHANGED Shared,
           NEW t \in Thread, \A u \in Thread : u # t => th'[u] = th[u],
           missed \subseteq missed', miskilled => miskilled', change' = change \/ FilterInv',
           \A u \in Thread : u # t /\ Locked(th[u]) => lock' = u,
           ThreadInv(t)', t = "rpc" \/ sess' # sess => RpcInv', t \in Session => SessInv(t)',
           \A s \in Session : s # t => sess'[s] = sess[s],
           \A s \in Session : sess[s] = "gone" => sess'[s] = "gone",
           t = "rpc" => ~Establishing /\ ~Establishing',
           th[t].pc = "term" => subs[th[t].at].type = "push" \/ subs[th[t].at].srs # <<>>,
           th[t].sr = None \/ (th'[t].sr = th[t].sr /\ th'[t].pc # "idle")
    PROVE  TypeOK' /\ CountInv' /\ SafeInv'
<1> USE DEF ThreadStepTypes, Shared
<1>1. TypeOK' /\ CountInv'
  BY ThreadStepTyped
<1>3. Establishing' = Establishing /\ (Establishing' => th'["rpc"] = th["rpc"])
  BY Constants, SMT DEF Establishing
<1>4. ASSUME NEW u \in Thread, u # t PROVE ThreadInv(u)'
  <2>1. ThreadInv(u) /\ th'[u] = th[u]
    BY <1>4 DEF SafeInv
  <2>2. TermInv(th[u])'
    BY <1>3, <2>1 DEF ThreadInv, TermInv, Right
  <2>3. CallbackInv(th[u])'
    BY <1>3, <2>1 DEF ThreadInv, CallbackInv
  <2>4. QED
    BY <1>4, <2>1, <2>2, <2>3 DEF ThreadInv, Locked
<1>5. RpcInv'
  <2>1. CASE t # "rpc" /\ sess' = sess
    <3>1. RpcInv /\ th'["rpc"] = th["rpc"]
      BY <2>1, Constants DEF SafeInv
    <3>2. QED
      BY <1>3, <2>1, <3>1 DEF RpcInv
  <2>2. QED
    BY <2>1
<1>6. \A s \in Session : SessInv(s)'
  <2>1. ASSUME NEW s \in Session, s # t PROVE SessInv(s)'
    BY <2>1, Constants, SMT DEF SafeInv, SessInv
  <2>2. QED
    BY <2>1
<1>7. IdInv'
  BY DEF SafeInv, IdInv
<1>8. ListInv'
  <2> SUFFICES ASSUME NEW i \in DOMAIN subs, subs[i].type = "ntf", ~subs[i].term, subs[i].srs = <<>>
               PROVE  \/ th'["rpc"].pc = "subscribe" /\ i = Len(subs)
                      \/ \E u \in Thread : th'[u].pc = "term" /\ th'[u].at = i
    BY SMT DEF SafeInv, ListInv
  <2>1. CASE th["rpc"].pc = "subscribe" /\ i = Len(subs)
    BY <1>3, <2>1 DEF Establishing
  <2>2. ASSUME NEW u \in Thread, th[u].pc = "term", th[u].at = i
        PROVE  \E w \in Thread : th'[w].pc = "term" /\ th'[w].at = i
    BY <2>2
  <2>3. QED
    BY <2>1, <2>2 DEF SafeInv, ListInv
<1>9. FilterInv'
  BY DEF SafeInv, FilterInv
<1>10. SysrepoMatches'
  <2>1. ASSUME NEW x \in sr, NEW u \in Thread, th[u].sr = x, th[u].pc # "idle"
        PROVE  \E w \in Thread : th'[w].sr = x /\ th'[w].pc # "idle"
    <3>1. x # None
      BY Constants DEF TypeOK
    <3>2. QED
      BY <2>1, <3>1
  <2>2. th["rpc"].pc = "subscribe" => th'["rpc"].pc = "subscribe" /\ th'["rpc"].id = th["rpc"].id
    BY <1>3 DEF Establishing
  <2>3. QED
    BY <2>1, <2>2, SMT DEF SafeInv, SysrepoMatches
<1>11. StatusExact'
  <2>1. \A s \in Session : OwnSubs(s)' = OwnSubs(s)
    BY DEF OwnSubs
  <2>2. \A s \in Session : BeingMade(s)' = BeingMade(s)
    BY <1>3 DEF BeingMade, Establishing
  <2>3. ~miskilled' => \A s \in Session : sess[s] = "gone" \/ status[s] = Cardinality(OwnSubs(s)) + BeingMade(s)
    BY DEF SafeInv, StatusExact
  <2>4. QED
    BY <2>1, <2>2, <2>3 DEF StatusExact
<1>12. QED
  BY <1>1, <1>4, <1>5, <1>6, <1>7, <1>8, <1>9, <1>10, <1>11 DEF SafeInv

(* Facts about the state a thread is in, as far as the steps need them. *)
LEMMA Exclusion ==
    ASSUME TypeOK, SafeInv, NEW t \in Thread
    PROVE  /\ lock = None => ~Locked(th[t])
           /\ Locked(th[t]) => lock = t /\ \A u \in Thread : u # t => ~Locked(th[u])
BY Constants DEF SafeInv, ThreadInv

(* A stream subscription that is found when nobody holds the lock, or by   *)
(* the thread that holds it, has something to be ended.                    *)
LEMMA Listed ==
    ASSUME TypeOK, SafeInv, NEW i \in DOMAIN subs, subs[i].type = "ntf", ~subs[i].term,
           \A t \in Thread : th[t].pc \notin {"term", "subscribe"}
    PROVE  subs[i].srs # <<>>
BY Constants DEF SafeInv, ListInv

(* An idle thread is free of claims. *)
LEMMA IdleThread ==
    ASSUME NEW t \in Thread, th'[t] = Idle, TypeOK'
    PROVE  ThreadInv(t)'
<1>1. nextId' \in 1 .. MaxSubs + 1
  BY DEF TypeOK
<1>2. nextId' > 0
  BY <1>1, Constants, SMT
<1>3. th'[t].pc = "idle" /\ th'[t].id = 0 /\ th'[t].sr = None
  BY SMT DEF Idle
<1>4. QED
  BY <1>2, <1>3 DEF ThreadInv, TermInv, CallbackInv, Locked

LEMMA OthersUnlocked ==
    ASSUME TypeOK, SafeInv, NEW t \in Thread, lock = None \/ Locked(th[t])
    PROVE  \A u \in Thread : u # t => ~Locked(th[u])
BY Exclusion

(* An RPC on an established subscription begins, one is over, a session    *)
(* ends.                                                                   *)
LEMMA RequestSafe ==
    ASSUME TypeOK, CountInv, SafeInv, ~undefined
    PROVE  (\/ \E s \in Session, id \in 1 .. MaxSubs : DeleteSub(s, id) \/ KillSub(s, id)
            \/ RpcDone \/ \E s \in Session : EndSession(s))
           => TypeOK' /\ CountInv' /\ (undefined' \/ SafeInv')
<1>1. ASSUME NEW s \in Session, NEW id \in 1 .. MaxSubs, NEW nc, RemoveSub(s, id, nc)
      PROVE  TypeOK' /\ CountInv' /\ (undefined' \/ SafeInv')
  <2> USE <1>1
  <2>1. PICK i \in Found(id, nc) :
          /\ Grant(i) /\ lock' = "rpc"
          /\ Become("rpc", [Idle EXCEPT !.pc = "term", !.id = id, !.at = i, !.by = s, !.ncs = s])
          /\ miskilled' = (miskilled \/ (subs[i].nc # s /\ subs[i].type = "push"))
    BY DEF RemoveSub
  <2>2. /\ th["rpc"] = Idle /\ sess[s] = "running" /\ lock = None
        /\ UNCHANGED <<subs, sidlock, nextId, sr, status, sess, owner, filters, change, faults, changes, leaked, missed>>
    BY DEF RemoveSub, Rpc, config
  <2>3. i \in DOMAIN subs /\ subs[i].id = id /\ i \in Nat /\ subs[i].term \in BOOLEAN /\ id < nextId
    BY SubsShape, SMT DEF Found
  <2> DEFINE r == [Idle EXCEPT !.pc = "term", !.id = id, !.at = i, !.by = s, !.ncs = s]
  <2>4. r \in ThreadState
    <3>1. id \in 0 .. MaxSubs
      BY Constants, SMT
    <3>2. QED
      BY <2>3, <3>1, IdleType DEF ThreadState
  <2>5. th' \in [Thread -> ThreadState] /\ th'["rpc"] = r /\ \A u \in Thread : u # "rpc" => th'[u] = th[u]
    BY <2>1, <2>4, BecomeEffect, Constants
  <2>6. undefined' = subs[i].term /\ miskilled' \in BOOLEAN
    BY <2>1 DEF Grant
  <2>7. ThreadStepTypes /\ UNCHANGED Shared
    BY <2>1, <2>2, <2>3, <2>5, <2>6, Constants DEF ThreadStepTypes, Shared, TypeOK
  <2>8. TypeOK' /\ CountInv'
    BY <2>7, ThreadStepTyped
  <2>9. ASSUME ~undefined' PROVE SafeInv'
    <3>1. \A u \in Thread : ~Locked(th[u])
      BY <2>2, Exclusion
    <3>2. subs[i].type = "ntf" => subs[i].srs # <<>>
      BY <2>3, <2>6, <2>9, <3>1, Listed DEF Locked
    <3>3. miskilled' \/ s = owner[id] \/ (subs[i].type = "ntf" /\ subs[i].srs # <<>>)
      BY <2>1, <2>3, <3>2, SubsShape DEF SafeInv, IdInv, Types
    <3>4. ThreadInv("rpc")'
      BY <2>1, <2>2, <2>3, <2>5, <2>6, <2>9, <3>3, SMT DEF ThreadInv, TermInv, CallbackInv, Right, Idle
    <3>5. RpcInv'
      BY <2>2, <2>5 DEF RpcInv, Establishing, Idle
    <3>6. ~Establishing /\ ~Establishing' /\ th["rpc"].sr = None /\ th["rpc"].pc # "term"
      BY <2>2, <2>5, SMT DEF Establishing, Idle
    <3>7. miskilled => miskilled'
      BY <2>1
    <3>8. QED
      BY <2>2, <2>5, <2>7, <3>1, <3>4, <3>5, <3>6, <3>7, ThreadStep, Constants
  <2>10. QED
    BY <2>8, <2>9
<1>2. ASSUME RpcDone PROVE TypeOK' /\ CountInv' /\ SafeInv'
  <2> USE <1>2
  <2>1. /\ th["rpc"].pc = "done" /\ lock' = None /\ Become("rpc", Idle)
        /\ UNCHANGED <<Shared, sidlock, sess, change, missed, undefined, miskilled>>
    BY DEF RpcDone, Shared, config, bound, hist
  <2>2. th' \in [Thread -> ThreadState] /\ th'["rpc"] = Idle /\ \A u \in Thread : u # "rpc" => th'[u] = th[u]
    BY <2>1, IdleType, BecomeEffect, Constants
  <2>3. ThreadStepTypes
    BY <2>1, <2>2 DEF ThreadStepTypes, TypeOK
  <2>4. TypeOK'
    BY <2>1, <2>3, ThreadStepTyped
  <2>5. ThreadInv("rpc")' /\ RpcInv' /\ ~Establishing /\ ~Establishing'
    BY <2>1, <2>2, <2>4, IdleThread, Constants, SMT DEF RpcInv, Establishing, Idle
  <2>6. th["rpc"].sr = None
    BY Constants DEF SafeInv, ThreadInv
  <2>7. \A u \in Thread : u # "rpc" => ~Locked(th[u])
    BY <2>1, OthersUnlocked, Constants DEF Locked
  <2>8. QED
    BY <2>1, <2>2, <2>3, <2>5, <2>6, <2>7, ThreadStep, Constants
<1>3. ASSUME NEW s \in Session, EndSession(s) PROVE TypeOK' /\ CountInv' /\ SafeInv'
  <2> USE <1>3
  <2> DEFINE r == [th[s] EXCEPT !.pc = "wait"]
  <2>1. /\ sess[s] = "running" /\ th["rpc"].by # s /\ sess' = [sess EXCEPT ![s] = "ending"] /\ Become(s, r)
        /\ UNCHANGED <<Shared, lock, sidlock, change, missed, undefined, miskilled>>
    BY DEF EndSession, Goto, Shared, config, bound, hist
  <2>2. th[s] = Idle /\ s \in Thread /\ s # "rpc"
    BY <2>1, Constants DEF SafeInv, SessInv
  <2>3. r \in ThreadState
    BY <2>2, IdleType DEF ThreadState
  <2>4. th' \in [Thread -> ThreadState] /\ th'[s] = r /\ \A u \in Thread : u # s => th'[u] = th[u]
    BY <2>1, <2>2, <2>3, BecomeEffect
  <2>5. th'[s].pc = "wait" /\ th'[s].id = 0 /\ th'[s].sr = None
    BY <2>2, <2>4, SMT DEF Idle
  <2> HIDE DEF r
  <2>6. /\ sess' \in [Session -> {"running", "ending", "gone"}] /\ sess'[s] = "ending"
        /\ \A u \in Session : u # s => sess'[u] = sess[u]
    BY <2>1 DEF TypeOK
  <2>7. ThreadStepTypes
    BY <2>1, <2>4, <2>6 DEF ThreadStepTypes, TypeOK
  <2>8. ThreadInv(s)'
    <3>1. nextId' > 0
      BY <2>1, NextIdPositive DEF Shared
    <3>2. QED
      BY <2>5, <3>1 DEF ThreadInv, TermInv, CallbackInv, Locked
  <2>9. RpcInv'
    <3>1. th'["rpc"] = th["rpc"] /\ (Establishing' = Establishing) /\ UNCHANGED <<subs, owner, sr>>
      BY <2>1, <2>2, <2>4, Constants DEF Establishing, Shared
    <3>2. th["rpc"].pc # "idle" => th["rpc"].by \in Session /\ sess'[th["rpc"].by] = "running"
      BY <2>1, <2>6 DEF SafeInv, RpcInv
    <3>3. QED
      BY <3>1, <3>2 DEF SafeInv, RpcInv
  <2>10. SessInv(s)'
    BY <2>5, <2>6 DEF SessInv
  <2>11. \A u \in Thread : u # s /\ Locked(th[u]) => lock' = u
    BY <2>1 DEF SafeInv, ThreadInv
  <2>12. th[s].pc = "idle" /\ th[s].sr = None
    BY <2>2, SMT DEF Idle
  <2>13. QED
    BY <2>1, <2>2, <2>4, <2>6, <2>7, <2>8, <2>9, <2>10, <2>11, <2>12, ThreadStep
<1>4. QED
  BY <1>1, <1>2, <1>3 DEF DeleteSub, KillSub

LEMMA CallbackState ==
    ASSUME NEW x \in SrId, NEW id \in 0 .. MaxSubs, NEW b \in BOOLEAN
    PROVE  [Idle EXCEPT !.pc = "cb", !.sr = x, !.id = id, !.nolock = b] \in ThreadState
BY IdleType DEF ThreadState

(* A callback about the sysrepo subscription x begins. *)
LEMMA CallbackBegins ==
    ASSUME TypeOK, CountInv, SafeInv, ~undefined, NEW t \in Session \cup {"notif"}, NEW x \in sr,
           th[t].pc \in {"idle", "unsubs"}, th[t].sr = None,
           t \in Session => sess[t] = "ending" /\ th[t].pc = "unsubs",
           Establishing => x[1] # th["rpc"].id,
           Become(t, [Idle EXCEPT !.pc = "cb", !.sr = x, !.id = x[1], !.nolock = (sidlock = x)]),
           UNCHANGED <<Shared, lock, sidlock, sess, change, missed, undefined, miskilled>>
    PROVE  TypeOK' /\ CountInv' /\ SafeInv'
<1> DEFINE r == [Idle EXCEPT !.pc = "cb", !.sr = x, !.id = x[1], !.nolock = (sidlock = x)]
<1>1. t \in Thread /\ t # "rpc"
  BY Constants
<1>2. x \in SrId /\ x[1] < nextId /\ x[1] \in 1 .. MaxSubs /\ x # None
  BY Constants DEF SafeInv, IdInv, TypeOK, SrId
<1>3. r \in ThreadState
  <2>1. x[1] \in 0 .. MaxSubs /\ (sidlock = x) \in BOOLEAN
    BY <1>2, Constants, SMT
  <2>2. QED
    BY <1>2, <2>1, CallbackState
<1>4. th' \in [Thread -> ThreadState] /\ th'[t] = r /\ \A u \in Thread : u # t => th'[u] = th[u]
  BY <1>1, <1>3, BecomeEffect
<1>5. th'[t].pc = "cb" /\ th'[t].id = x[1] /\ th'[t].sr = x
  BY <1>4 DEF Idle
<1> HIDE DEF r
<1>6. ThreadStepTypes
  BY <1>4 DEF ThreadStepTypes, TypeOK
<1>7. ThreadInv(t)'
  <2>1. Establishing' = Establishing /\ th'["rpc"] = th["rpc"] /\ nextId' = nextId
    BY <1>1, <1>4, Constants DEF Establishing, Shared
  <2>2. QED
    BY <1>2, <1>5, <2>1 DEF ThreadInv, TermInv, CallbackInv, Locked
<1>8. t \in Session => SessInv(t)'
  BY <1>5 DEF SafeInv, SessInv, Shared, Idle
<1>9. \A u \in Thread : u # t /\ Locked(th[u]) => lock' = u
  BY DEF SafeInv, ThreadInv
<1>10. QED
  BY <1>1, <1>4, <1>6, <1>7, <1>8, <1>9, ThreadStep

(* A callback or a timer begins, a notification has been sent. *)
LEMMA CallbackBeginsSafe ==
    ASSUME TypeOK, CountInv, SafeInv, ~undefined
    PROVE  (\/ \E x \in SrId : StopTime(x) \/ Notify(x)
            \/ \E id \in 1 .. MaxSubs : StopTimer(id)
            \/ NotifSent)
           => TypeOK' /\ CountInv' /\ (undefined' \/ SafeInv')
<1>1. ASSUME NEW x \in SrId, StopTime(x) PROVE TypeOK' /\ CountInv' /\ SafeInv'
  <2> USE <1>1
  <2>1. /\ th["notif"] = Idle /\ x \in NtfSubs /\ ~Suspended
        /\ Become("notif", [Idle EXCEPT !.pc = "cb", !.sr = x, !.id = x[1], !.nolock = (sidlock = x)])
        /\ UNCHANGED <<Shared, lock, sidlock, sess, change, missed, undefined, miskilled>>
    BY DEF StopTime, Shared, config, bound, hist
  <2>2. PICK i \in DOMAIN subs : x \in sr /\ subs[i].id = x[1] /\ subs[i].type = "ntf"
    BY <2>1 DEF NtfSubs
  <2>3. ASSUME Establishing PROVE x[1] # th["rpc"].id
    <3>1. CASE th["rpc"].pc = "establish"
      BY <2>2, <3>1 DEF SafeInv, RpcInv
    <3>2. CASE th["rpc"].pc = "subscribe"
      <4> SUFFICES ASSUME x[1] = th["rpc"].id PROVE FALSE
        OBVIOUS
      <4>1. Len(subs) \in DOMAIN subs /\ subs[Len(subs)].id = th["rpc"].id
            /\ subs[Len(subs)].type = th["rpc"].req[1]
        BY <2>2, <3>2, SubsShape, SMT DEF SafeInv, RpcInv
      <4>2. i = Len(subs)
        BY <2>2, <4>1 DEF SafeInv, IdInv
      <4>3. QED
        BY <2>1, <2>2, <3>2, <4>1, <4>2 DEF Suspended
    <3>3. QED
      BY <2>3, <3>1, <3>2 DEF Establishing
  <2>4. th["notif"].pc = "idle" /\ th["notif"].sr = None /\ "notif" \notin Session
    BY <2>1, Constants, SMT DEF Idle
  <2>5. QED
    BY <2>1, <2>2, <2>3, <2>4, CallbackBegins
<1>2. ASSUME NEW id \in 1 .. MaxSubs, StopTimer(id) PROVE TypeOK' /\ CountInv' /\ SafeInv'
  <2> USE <1>2
  <2> DEFINE r == [Idle EXCEPT !.pc = "cb", !.id = id]
  <2>1. /\ th["timer"] = Idle /\ Become("timer", r)
        /\ UNCHANGED <<Shared, lock, sidlock, sess, change, missed, undefined, miskilled>>
    BY DEF StopTimer, Shared, config, bound, hist
  <2>2. id < nextId
    BY SubsShape DEF StopTimer, Found
  <2>3. r \in ThreadState
    <3>1. id \in 0 .. MaxSubs
      BY Constants, SMT
    <3>2. QED
      BY <3>1, IdleType DEF ThreadState
  <2>4. th' \in [Thread -> ThreadState] /\ th'["timer"] = r /\ \A u \in Thread : u # "timer" => th'[u] = th[u]
    BY <2>1, <2>3, BecomeEffect, Constants
  <2>5. /\ th'["timer"].pc = "cb" /\ th'["timer"].id = id /\ th'["timer"].sr = None
        /\ th["timer"].sr = None /\ th["timer"].pc = "idle"
    BY <2>1, <2>4, SMT DEF Idle
  <2> HIDE DEF r
  <2>6. ThreadStepTypes
    BY <2>1, <2>4 DEF ThreadStepTypes, TypeOK
  <2>7. ThreadInv("timer")'
    BY <2>1, <2>2, <2>5 DEF ThreadInv, TermInv, CallbackInv, Locked, Shared
  <2>8. \A u \in Thread : u # "timer" /\ Locked(th[u]) => lock' = u
    BY <2>1 DEF SafeInv, ThreadInv
  <2>9. QED
    BY <2>1, <2>4, <2>5, <2>6, <2>7, <2>8, ThreadStep, Constants
<1>3. ASSUME NEW x \in SrId, Notify(x) PROVE TypeOK' /\ CountInv' /\ (undefined' \/ SafeInv')
  <2> USE <1>3
  <2>1. PICK i \in Found(x[1], None) :
          /\ undefined' = (sess[subs[i].nc] = "gone")
          /\ Become("notif", [Idle EXCEPT !.pc = "send", !.id = x[1], !.at = i])
    BY DEF Notify
  <2> DEFINE r == [Idle EXCEPT !.pc = "send", !.id = x[1], !.at = i]
  <2>2. th["notif"] = Idle /\ UNCHANGED <<Shared, lock, sidlock, sess, change, missed, miskilled>>
    BY DEF Notify, Shared, config, bound
  <2>3. i \in Nat /\ x[1] < nextId /\ x[1] \in 0 .. MaxSubs
    BY <2>1, SubsShape, Constants, SMT DEF Found
  <2>4. r \in ThreadState
    BY <2>3, IdleType DEF ThreadState
  <2>5. th' \in [Thread -> ThreadState] /\ th'["notif"] = r /\ \A u \in Thread : u # "notif" => th'[u] = th[u]
    BY <2>1, <2>4, BecomeEffect, Constants
  <2>6. /\ th'["notif"].pc = "send" /\ th'["notif"].id = x[1] /\ th'["notif"].sr = None
        /\ th["notif"].sr = None /\ th["notif"].pc = "idle"
    BY <2>2, <2>5, SMT DEF Idle
  <2> HIDE DEF r
  <2>7. ThreadStepTypes
    BY <2>1, <2>2, <2>5 DEF ThreadStepTypes, TypeOK
  <2>8. ThreadInv("notif")'
    BY <2>2, <2>3, <2>6 DEF ThreadInv, TermInv, CallbackInv, Locked, Shared
  <2>9. \A u \in Thread : u # "notif" /\ Locked(th[u]) => lock' = u
    BY <2>2 DEF SafeInv, ThreadInv
  <2>10. QED
    BY <2>2, <2>5, <2>6, <2>7, <2>8, <2>9, ThreadStep, Constants
<1>4. ASSUME NotifSent PROVE TypeOK' /\ CountInv' /\ (undefined' \/ SafeInv')
  <2> USE <1>4
  <2>1. /\ th["notif"].pc = "send" /\ Become("notif", Idle) /\ undefined' \in BOOLEAN
        /\ UNCHANGED <<Shared, lock, sidlock, sess, change, missed, miskilled>>
    BY DEF NotifSent, Shared, config, bound
  <2>2. th' \in [Thread -> ThreadState] /\ th'["notif"] = Idle /\ \A u \in Thread : u # "notif" => th'[u] = th[u]
    BY <2>1, IdleType, BecomeEffect, Constants
  <2>3. ThreadStepTypes
    BY <2>1, <2>2 DEF ThreadStepTypes, TypeOK
  <2>4. TypeOK'
    BY <2>1, <2>3, ThreadStepTyped
  <2>5. ThreadInv("notif")'
    BY <2>2, <2>4, IdleThread, Constants
  <2>6. \A u \in Thread : u # "notif" /\ Locked(th[u]) => lock' = u
    BY <2>1 DEF SafeInv, ThreadInv
  <2>7. th["notif"].sr = None
    BY <2>1, Constants DEF SafeInv, ThreadInv, CallbackInv
  <2>8. QED
    BY <2>1, <2>2, <2>3, <2>5, <2>6, <2>7, ThreadStep, Constants
<1>5. QED
  BY <1>1, <1>2, <1>3, <1>4

(* The end of a session: its subscriptions are gone through. *)
LEMMA SessionWorkSafe ==
    ASSUME TypeOK, CountInv, SafeInv, ~undefined, NEW s \in Session
    PROVE  (\/ SessionLock(s) \/ SessionScan(s) \/ SessionScanEnds(s) \/ SessionNext(s)
            \/ SessionUnsubscribe(s) \/ SessionFree(s))
           => TypeOK' /\ CountInv' /\ (undefined' \/ SafeInv')
<1>1. ASSUME SessionLock(s) PROVE TypeOK' /\ CountInv' /\ SafeInv'
  <2> USE <1>1
  <2> DEFINE r == [th[s] EXCEPT !.pc = "scan", !.at = 1]
  <2>1. /\ th[s].pc = "wait" /\ lock = None /\ lock' = s /\ Become(s, r)
        /\ UNCHANGED <<Shared, sidlock, sess, change, missed, undefined, miskilled>>
    BY DEF SessionLock, Shared, config, bound, hist
  <2>2. ThreadInv(s) /\ SessInv(s) /\ th[s] \in ThreadState /\ s \in Thread /\ s # "rpc"
    BY ThreadStates, Constants DEF SafeInv
  <2>3. r \in ThreadState
    BY <2>2 DEF ThreadState
  <2>4. th' \in [Thread -> ThreadState] /\ th'[s] = r /\ \A u \in Thread : u # s => th'[u] = th[u]
    BY <2>1, <2>2, <2>3, BecomeEffect
  <2>5. th'[s].pc = "scan" /\ th'[s].id = th[s].id /\ th'[s].sr = None /\ th[s].sr = None
    BY <2>1, <2>2, <2>4 DEF SessInv, ThreadState
  <2> HIDE DEF r
  <2>6. ThreadStepTypes
    BY <2>1, <2>2, <2>4 DEF ThreadStepTypes, TypeOK
  <2>7. ThreadInv(s)' /\ SessInv(s)'
    BY <2>1, <2>2, <2>5 DEF ThreadInv, TermInv, CallbackInv, SessInv, Shared, Idle
  <2>8. \A u \in Thread : u # s /\ Locked(th[u]) => lock' = u
    BY <2>1, <2>2, OthersUnlocked
  <2>9. QED
    BY <2>1, <2>2, <2>4, <2>5, <2>6, <2>7, <2>8, ThreadStep
<1>2. ASSUME SessionNext(s) PROVE TypeOK' /\ CountInv' /\ SafeInv'
  <2> USE <1>2
  <2> DEFINE r == [th[s] EXCEPT !.pc = "scan", !.at = th[s].at + 1]
  <2>1. /\ th[s].pc = "done" /\ th[s].sr = None /\ Become(s, r)
        /\ UNCHANGED <<Shared, lock, sidlock, sess, change, missed, undefined, miskilled>>
    BY DEF SessionNext, Shared, config, bound, hist
  <2>2. ThreadInv(s) /\ SessInv(s) /\ th[s] \in ThreadState /\ th[s].at \in Nat /\ s \in Thread /\ s # "rpc"
    BY ThreadStates, Constants DEF SafeInv
  <2>3. r \in ThreadState
    <3>1. th[s].at + 1 \in Nat
      BY <2>2, SMT
    <3>2. QED
      BY <2>2, <3>1 DEF ThreadState
  <2>4. th' \in [Thread -> ThreadState] /\ th'[s] = r /\ \A u \in Thread : u # s => th'[u] = th[u]
    BY <2>1, <2>2, <2>3, BecomeEffect
  <2>5. th'[s].pc = "scan" /\ th'[s].id = th[s].id /\ th'[s].sr = None
    BY <2>1, <2>2, <2>4 DEF ThreadState
  <2> HIDE DEF r
  <2>6. ThreadStepTypes
    BY <2>1, <2>2, <2>4 DEF ThreadStepTypes, TypeOK
  <2>7. ThreadInv(s)' /\ SessInv(s)'
    BY <2>1, <2>2, <2>5 DEF ThreadInv, TermInv, CallbackInv, SessInv, Shared, Idle, Locked
  <2>8. \A u \in Thread : u # s /\ Locked(th[u]) => lock' = u
    BY <2>1 DEF SafeInv, ThreadInv
  <2>9. QED
    BY <2>1, <2>2, <2>4, <2>5, <2>6, <2>7, <2>8, ThreadStep
<1>3. ASSUME SessionScan(s) PROVE TypeOK' /\ CountInv' /\ (undefined' \/ SafeInv')
  <2> USE <1>3
  <2>1. PICK i \in DOMAIN subs :
          /\ SessionLeft(s, i) /\ Grant(i)
          /\ Become(s, [th[s] EXCEPT !.pc = "term", !.at = i, !.id = subs[i].id, !.ncs = s])
    BY DEF SessionScan
  <2> DEFINE r == [th[s] EXCEPT !.pc = "term", !.at = i, !.id = subs[i].id, !.ncs = s]
  <2>2. th[s].pc = "scan" /\ UNCHANGED <<Shared, lock, sidlock, sess, change, missed, miskilled>>
    BY DEF SessionScan, Shared, config, bound
  <2>3. ThreadInv(s) /\ SessInv(s) /\ th[s] \in ThreadState /\ s \in Thread /\ s # "rpc"
    BY ThreadStates, Constants DEF SafeInv
  <2>4. /\ i \in Nat /\ subs[i].id \in 0 .. MaxSubs /\ subs[i].id < nextId /\ subs[i].term \in BOOLEAN
        /\ subs[i].nc = s /\ owner[subs[i].id] = s /\ undefined' = subs[i].term
    BY <2>1, SubsShape, Constants, SMT DEF SessionLeft, Grant, SafeInv, IdInv
  <2>5. r \in ThreadState
    BY <2>3, <2>4 DEF ThreadState
  <2>6. th' \in [Thread -> ThreadState] /\ th'[s] = r /\ \A u \in Thread : u # s => th'[u] = th[u]
    BY <2>1, <2>3, <2>5, BecomeEffect
  <2>7. /\ th'[s].pc = "term" /\ th'[s].at = i /\ th'[s].id = subs[i].id /\ th'[s].ncs = s
        /\ th'[s].sr = None /\ th[s].sr = None
    BY <2>2, <2>3, <2>6 DEF SessInv, ThreadState
  <2> HIDE DEF r
  <2>8. ThreadStepTypes
    BY <2>2, <2>4, <2>6 DEF ThreadStepTypes, TypeOK
  <2>9. TypeOK' /\ CountInv'
    BY <2>2, <2>8, ThreadStepTyped
  <2>10. ASSUME ~undefined' PROVE SafeInv'
    <3>1. ThreadInv(s)' /\ SessInv(s)'
      BY <2>2, <2>3, <2>4, <2>7, <2>10 DEF ThreadInv, TermInv, Right, CallbackInv, SessInv, Shared, Idle, Locked
    <3>2. \A u \in Thread : u # s /\ Locked(th[u]) => lock' = u
      BY <2>2 DEF SafeInv, ThreadInv
    <3>3. QED
      BY <2>2, <2>3, <2>6, <2>7, <2>8, <3>1, <3>2, ThreadStep
  <2>11. QED
    BY <2>9, <2>10
<1>4. ASSUME SessionScanEnds(s) PROVE TypeOK' /\ CountInv' /\ SafeInv'
  <2> USE <1>4
  <2> DEFINE r == [Idle EXCEPT !.pc = "unsubs"]
  <2>1. /\ th[s].pc = "scan" /\ lock' = None /\ Become(s, r)
        /\ missed' = missed \cup {subs[i].id : i \in {j \in DOMAIN subs : subs[j].nc = s}}
        /\ UNCHANGED <<Shared, sidlock, sess, change, undefined, miskilled>>
    BY DEF SessionScanEnds, Shared, config, bound
  <2>2. SessInv(s) /\ s \in Thread /\ s # "rpc"
    BY Constants DEF SafeInv
  <2>3. r \in ThreadState
    BY IdleType DEF ThreadState
  <2>4. th' \in [Thread -> ThreadState] /\ th'[s] = r /\ \A u \in Thread : u # s => th'[u] = th[u]
    BY <2>1, <2>2, <2>3, BecomeEffect
  <2>5. th'[s].pc = "unsubs" /\ th'[s].id = 0 /\ th'[s].sr = None /\ th[s].sr = None
    BY <2>1, <2>2, <2>4 DEF SessInv, Idle
  <2> HIDE DEF r
  <2>6. ThreadStepTypes
    BY <2>1, <2>2, <2>4 DEF ThreadStepTypes, TypeOK
  <2>7. ThreadInv(s)'
    <3>1. nextId' > 0
      BY <2>1, NextIdPositive DEF Shared
    <3>2. QED
      BY <2>5, <3>1 DEF ThreadInv, TermInv, CallbackInv, Locked
  <2>8. SessInv(s)'
    BY <2>1, <2>2, <2>5 DEF SessInv, Shared, Idle
  <2>9. \A u \in Thread : u # s /\ Locked(th[u]) => lock' = u
    BY <2>1, <2>2, OthersUnlocked DEF Locked
  <2>10. missed \subseteq missed'
    BY <2>1
  <2>11. QED
    BY <2>1, <2>2, <2>4, <2>5, <2>6, <2>7, <2>8, <2>9, <2>10, ThreadStep
<1>5. ASSUME SessionFree(s) PROVE TypeOK' /\ CountInv' /\ SafeInv'
  <2> USE <1>5
  <2>1. /\ th[s].pc = "unsubs" /\ sess' = [sess EXCEPT ![s] = "gone"] /\ Become(s, Idle)
        /\ UNCHANGED <<Shared, lock, sidlock, change, missed, undefined, miskilled>>
    BY DEF SessionFree, Shared, config, bound, hist
  <2>2. SessInv(s) /\ s \in Thread /\ s # "rpc" /\ sess[s] = "ending" /\ th[s].sr = None
    BY <2>1, Constants DEF SafeInv, SessInv
  <2>3. th' \in [Thread -> ThreadState] /\ th'[s] = Idle /\ \A u \in Thread : u # s => th'[u] = th[u]
    BY <2>1, <2>2, IdleType, BecomeEffect
  <2>4. /\ sess' \in [Session -> {"running", "ending", "gone"}] /\ sess'[s] = "gone"
        /\ \A u \in Session : u # s => sess'[u] = sess[u]
    BY <2>1 DEF TypeOK
  <2>5. ThreadStepTypes
    BY <2>1, <2>3, <2>4 DEF ThreadStepTypes, TypeOK
  <2>6. TypeOK'
    BY <2>1, <2>5, ThreadStepTyped
  <2>7. ThreadInv(s)' /\ SessInv(s)'
    <3>1. ThreadInv(s)'
      BY <2>2, <2>3, <2>6, IdleThread
    <3>2. th'[s].pc = "idle" /\ th'[s].sr = None
      BY <2>3, SMT DEF Idle
    <3>3. SessInv(s)'
      BY <2>3, <2>4, <3>2 DEF SessInv
    <3>4. QED
      BY <3>1, <3>3
  <2>8. RpcInv'
    <3>1. th'["rpc"] = th["rpc"] /\ (Establishing' = Establishing) /\ UNCHANGED <<subs, owner, sr>>
      BY <2>1, <2>2, <2>3, Constants DEF Establishing, Shared
    <3>2. th["rpc"].pc # "idle" => th["rpc"].by \in Session /\ sess'[th["rpc"].by] = "running"
      BY <2>2, <2>4 DEF SafeInv, RpcInv
    <3>3. QED
      BY <3>1, <3>2 DEF SafeInv, RpcInv
  <2>9. \A u \in Thread : u # s /\ Locked(th[u]) => lock' = u
    BY <2>1 DEF SafeInv, ThreadInv
  <2>10. QED
    BY <2>1, <2>2, <2>3, <2>4, <2>5, <2>7, <2>8, <2>9, ThreadStep
<1>6. ASSUME SessionUnsubscribe(s) PROVE TypeOK' /\ CountInv' /\ SafeInv'
  <2> USE <1>6
  <2>1. PICK x \in Left(s) :
           IF x \in NtfSubs
           THEN /\ Become(s, [Idle EXCEPT !.pc = "cb", !.sr = x, !.id = x[1], !.nolock = (sidlock = x)])
                /\ UNCHANGED sr
           ELSE sr' = sr \ {x} /\ UNCHANGED th
    BY DEF SessionUnsubscribe
  <2>2. /\ th[s].pc = "unsubs"
        /\ UNCHANGED <<subs, lock, sidlock, nextId, status, sess, owner, filters, change, changes,
                       undefined, leaked, missed, miskilled>>
    BY DEF SessionUnsubscribe, config, bound, hist
  <2>3. SessInv(s) /\ sess[s] = "ending" /\ th[s].sr = None
    BY <2>2 DEF SafeInv, SessInv
  <2>4. x \in sr /\ owner[x[1]] = s
    BY <2>1 DEF Left
  <2>5. Establishing => x[1] # th["rpc"].id
    BY <2>3, <2>4 DEF SafeInv, RpcInv, Establishing
  <2>6. CASE x \in NtfSubs
    BY <2>1, <2>2, <2>3, <2>4, <2>5, <2>6, CallbackBegins DEF Shared
  <2>7. CASE x \notin NtfSubs
    <3>1. sr' = sr \ {x} /\ th' = th
      BY <2>1, <2>7
    <3>2. TypeOK' /\ CountInv'
      BY <2>2, <3>1 DEF TypeOK, CountInv
    <3>3. Establishing' = Establishing
      BY <3>1 DEF Establishing
    <3>4. \A t \in Thread : ThreadInv(t)'
      <4> TAKE t \in Thread
      <4>1. ThreadInv(t)
        BY DEF SafeInv
      <4>2. TermInv(th[t])'
        BY <2>2, <3>1, <3>3, <4>1 DEF ThreadInv, TermInv, Right
      <4>3. CallbackInv(th[t])'
        BY <2>2, <3>1, <3>3, <4>1 DEF ThreadInv, CallbackInv
      <4>4. QED
        BY <2>2, <3>1, <4>1, <4>2, <4>3 DEF ThreadInv, Locked
    <3>5. RpcInv'
      <4>1. th["rpc"].pc = "subscribe" => \A y \in sr : y[1] = th["rpc"].id => y \in sr'
        BY <2>5, <3>1 DEF Establishing
      <4>2. QED
        BY <2>2, <3>1, <3>3, <4>1 DEF SafeInv, RpcInv
    <3>11. \A u \in Session : SessInv(u)'
      BY <2>2, <3>1 DEF SafeInv, SessInv
    <3>6. IdInv' /\ ListInv' /\ FilterInv'
      BY <2>2, <3>1, SMT DEF SafeInv, IdInv, ListInv, FilterInv
    <3>7. ASSUME NEW i \in DOMAIN subs, x \in Range(subs[i].srs) PROVE subs[i].id \in missed
      <4>1. x[1] = subs[i].id
        BY <3>7 DEF SafeInv, ListInv
      <4>2. subs[i].nc = s
        BY <2>4, <4>1 DEF SafeInv, IdInv
      <4>3. QED
        BY <2>2, <2>3, <4>2 DEF SessInv
    <3>8. SysrepoMatches'
      BY <2>2, <3>1, <3>7 DEF SafeInv, SysrepoMatches
    <3>9. StatusExact'
      BY <2>2, <3>1 DEF SafeInv, StatusExact, OwnSubs, BeingMade
    <3>10. QED
      BY <3>2, <3>4, <3>5, <3>6, <3>8, <3>9, <3>11 DEF SafeInv
  <2>8. QED
    BY <2>6, <2>7
<1>7. QED
  BY <1>1, <1>2, <1>3, <1>4, <1>5, <1>6

(***************************************************************************)
(* Steps about filters: nothing else of a subscription is changed.         *)
(***************************************************************************)
LEMMA FilterStep ==
    ASSUME SafeInv, ~undefined, FilterInv', missed \subseteq missed',
           UNCHANGED <<lock, nextId, sr, owner, status, sess, th, leaked, miskilled>>,
           Len(subs') = Len(subs), DOMAIN subs' = DOMAIN subs, (subs' = <<>>) = (subs = <<>>),
           \A i \in DOMAIN subs :
                /\ subs'[i].id = subs[i].id /\ subs'[i].nc = subs[i].nc /\ subs'[i].type = subs[i].type
                /\ subs'[i].srs = subs[i].srs /\ subs'[i].term = subs[i].term,
           subs # <<>> => Len(subs) \in DOMAIN subs
    PROVE  SafeInv'
<1>1. Establishing' = Establishing
  BY DEF Establishing
<1>2. ASSUME NEW t \in Thread PROVE ThreadInv(t)'
  <2>1. ThreadInv(t)
    BY DEF SafeInv
  <2>2. TermInv(th[t])'
    BY <1>1, <2>1 DEF ThreadInv, TermInv, Right
  <2>3. CallbackInv(th[t])'
    BY <1>1, <2>1 DEF ThreadInv, CallbackInv
  <2>4. QED
    BY <2>1, <2>2, <2>3 DEF ThreadInv, Locked
<1>3. RpcInv'
  BY <1>1 DEF SafeInv, RpcInv
<1>4. \A s \in Session : SessInv(s)'
  BY DEF SafeInv, SessInv
<1>5. IdInv'
  BY DEF SafeInv, IdInv
<1>6. ListInv'
  BY SMT DEF SafeInv, ListInv
<1>7. SysrepoMatches'
  BY DEF SafeInv, SysrepoMatches
<1>8. StatusExact'
  <2>1. \A s \in Session : OwnSubs(s)' = OwnSubs(s) /\ BeingMade(s)' = BeingMade(s)
    BY DEF OwnSubs, BeingMade
  <2>2. QED
    BY <2>1 DEF SafeInv, StatusExact
<1>9. QED
  BY <1>2, <1>3, <1>4, <1>5, <1>6, <1>7, <1>8 DEF SafeInv

LEMMA FilterWorkSafe ==
    ASSUME TypeOK, CountInv, SafeInv, ~undefined
    PROVE  (\/ FilterModified \/ FilterDeleted \/ FilterScan \/ FilterScanEnds \/ FilterNext
            \/ \E f \in Filter : ConfigChange(f)
            \/ \E s \in Session, id \in 1 .. MaxSubs, f \in Filter \cup {None} : ModifySub(s, id, f))
           => TypeOK' /\ CountInv' /\ (undefined' \/ SafeInv')
<1>1. ASSUME FilterDeleted PROVE TypeOK' /\ CountInv' /\ SafeInv'
  <2> USE <1>1
  <2>1. PICK nodes \in 1 .. 2 : Become("data", [Idle EXCEPT !.pc = "scan", !.at = 1, !.nodes = nodes])
    BY DEF FilterDeleted
  <2> DEFINE r == [Idle EXCEPT !.pc = "scan", !.at = 1, !.nodes = nodes]
  <2>2. /\ th["data"] = Idle /\ lock = None /\ lock' = "data"
        /\ UNCHANGED <<Shared, sidlock, sess, change, missed, undefined, miskilled>>
    BY DEF FilterDeleted, Shared, config, bound, hist
  <2>3. r \in ThreadState
    <3>1. nodes \in 0 .. 2
      BY SMT
    <3>2. QED
      BY <3>1, IdleType DEF ThreadState
  <2>4. th' \in [Thread -> ThreadState] /\ th'["data"] = r /\ \A u \in Thread : u # "data" => th'[u] = th[u]
    BY <2>1, <2>3, BecomeEffect, Constants
  <2>5. /\ th'["data"].pc = "scan" /\ th'["data"].id = 0 /\ th'["data"].sr = None
        /\ th["data"].sr = None /\ th["data"].pc = "idle"
    BY <2>2, <2>4, SMT DEF Idle
  <2> HIDE DEF r
  <2>6. ThreadStepTypes
    BY <2>2, <2>4, Constants DEF ThreadStepTypes, TypeOK
  <2>7. ThreadInv("data")'
    <3>1. nextId' > 0
      BY <2>2, NextIdPositive DEF Shared
    <3>2. QED
      BY <2>2, <2>5, <3>1 DEF ThreadInv, TermInv, CallbackInv
  <2>8. \A u \in Thread : u # "data" /\ Locked(th[u]) => lock' = u
    BY <2>2, OthersUnlocked, Constants
  <2>9. QED
    BY <2>2, <2>4, <2>5, <2>6, <2>7, <2>8, ThreadStep, Constants
<1>2. ASSUME FilterScan PROVE TypeOK' /\ CountInv' /\ (undefined' \/ SafeInv')
  <2> USE <1>2
  <2>1. PICK i \in DOMAIN subs :
          /\ Grant(i)
          /\ Become("data", [th["data"] EXCEPT !.pc = "term", !.at = i, !.id = subs[i].id,
                                               !.ncs = subs[i].nc])
    BY DEF FilterScan
  <2> DEFINE r == [th["data"] EXCEPT !.pc = "term", !.at = i, !.id = subs[i].id, !.ncs = subs[i].nc]
  <2>2. th["data"].pc = "scan" /\ UNCHANGED <<Shared, lock, sidlock, sess, change, missed, miskilled>>
    BY DEF FilterScan, Shared, config, bound
  <2>3. ThreadInv("data") /\ th["data"] \in ThreadState /\ th["data"].sr = None
    BY ThreadStates, Constants DEF SafeInv, ThreadInv
  <2>4. /\ i \in Nat /\ subs[i].id \in 0 .. MaxSubs /\ subs[i].id < nextId /\ subs[i].term \in BOOLEAN
        /\ subs[i].nc \in Session /\ owner[subs[i].id] = subs[i].nc /\ undefined' = subs[i].term
    BY <2>1, SubsShape, Constants, SMT DEF Grant, SafeInv, IdInv
  <2>5. r \in ThreadState
    BY <2>3, <2>4 DEF ThreadState
  <2>6. th' \in [Thread -> ThreadState] /\ th'["data"] = r /\ \A u \in Thread : u # "data" => th'[u] = th[u]
    BY <2>1, <2>5, BecomeEffect, Constants
  <2>7. /\ th'["data"].pc = "term" /\ th'["data"].at = i /\ th'["data"].id = subs[i].id
        /\ th'["data"].ncs = subs[i].nc /\ th'["data"].sr = None
    BY <2>3, <2>6 DEF ThreadState
  <2> HIDE DEF r
  <2>8. ThreadStepTypes
    BY <2>2, <2>4, <2>6 DEF ThreadStepTypes, TypeOK
  <2>9. TypeOK' /\ CountInv'
    BY <2>2, <2>8, ThreadStepTyped
  <2>10. ASSUME ~undefined' PROVE SafeInv'
    <3>1. ThreadInv("data")'
      BY <2>2, <2>3, <2>4, <2>7, <2>10 DEF ThreadInv, TermInv, Right, CallbackInv, Shared, Locked
    <3>2. \A u \in Thread : u # "data" /\ Locked(th[u]) => lock' = u
      BY <2>2 DEF SafeInv, ThreadInv
    <3>3. QED
      BY <2>2, <2>3, <2>6, <2>8, <3>1, <3>2, ThreadStep, Constants
  <2>11. QED
    BY <2>9, <2>10
<1>3. ASSUME FilterNext PROVE TypeOK' /\ CountInv' /\ SafeInv'
  <2> USE <1>3
  <2> DEFINE r == [th["data"] EXCEPT !.pc = "scan", !.at = th["data"].at + 1]
  <2>1. /\ th["data"].pc = "done" /\ Become("data", r)
        /\ UNCHANGED <<Shared, lock, sidlock, sess, change, missed, undefined, miskilled>>
    BY DEF FilterNext, Shared, config, bound, hist
  <2>2. /\ ThreadInv("data") /\ th["data"] \in ThreadState /\ th["data"].at + 1 \in Nat
        /\ th["data"].sr = None
    BY ThreadStates, Constants, SMT DEF SafeInv, ThreadInv
  <2>3. r \in ThreadState
    BY <2>2, StateMoves
  <2>4. th' \in [Thread -> ThreadState] /\ th'["data"] = r /\ \A u \in Thread : u # "data" => th'[u] = th[u]
    BY <2>1, <2>3, BecomeEffect, Constants
  <2>5. th'["data"].pc = "scan" /\ th'["data"].id = th["data"].id /\ th'["data"].sr = None
    BY <2>2, <2>4 DEF ThreadState
  <2> HIDE DEF r
  <2>6. ThreadStepTypes
    BY <2>1, <2>4 DEF ThreadStepTypes, TypeOK
  <2>7. ThreadInv("data")'
    BY <2>1, <2>2, <2>5 DEF ThreadInv, TermInv, CallbackInv, Shared, Locked
  <2>8. \A u \in Thread : u # "data" /\ Locked(th[u]) => lock' = u
    BY <2>1 DEF SafeInv, ThreadInv
  <2>9. QED
    BY <2>1, <2>2, <2>4, <2>6, <2>7, <2>8, ThreadStep, Constants
<1>4. ASSUME FilterScanEnds PROVE TypeOK' /\ CountInv' /\ SafeInv'
  <2> USE <1>4
  <2> DEFINE again == [th["data"] EXCEPT !.at = 1, !.nodes = th["data"].nodes - 1]
  <2>1. th["data"].pc = "scan" /\ UNCHANGED <<Shared, sess, undefined, miskilled>>
    BY DEF FilterScanEnds, Shared, bound
  <2>2. ThreadInv("data") /\ th["data"] \in ThreadState /\ th["data"].sr = None
    BY ThreadStates, Constants DEF SafeInv, ThreadInv
  <2>3. ASSUME th["data"].nodes > 1, Become("data", again), UNCHANGED <<lock, sidlock, change, missed>>
        PROVE  TypeOK' /\ CountInv' /\ SafeInv'
    <3>1. again \in ThreadState
      <4>1. th["data"].nodes \in 0 .. 2
        BY <2>2 DEF ThreadState
      <4>2. th["data"].nodes - 1 \in 0 .. 2
        BY <2>3, <4>1, SMT
      <4>3. QED
        BY <2>2, <4>2, StateMoves
    <3>2. th' \in [Thread -> ThreadState] /\ th'["data"] = again /\ \A u \in Thread : u # "data" => th'[u] = th[u]
      BY <2>3, <3>1, BecomeEffect, Constants
    <3>3. th'["data"].pc = "scan" /\ th'["data"].id = th["data"].id /\ th'["data"].sr = None
      BY <2>1, <2>2, <3>2 DEF ThreadState
    <3> HIDE DEF again
    <3>4. ThreadStepTypes
      BY <2>1, <2>3, <3>2 DEF ThreadStepTypes, TypeOK
    <3>5. ThreadInv("data")'
      BY <2>1, <2>2, <2>3, <3>3 DEF ThreadInv, TermInv, CallbackInv, Shared, Locked
    <3>6. \A u \in Thread : u # "data" /\ Locked(th[u]) => lock' = u
      BY <2>3 DEF SafeInv, ThreadInv
    <3>7. QED
      BY <2>1, <2>2, <2>3, <3>2, <3>4, <3>5, <3>6, ThreadStep, Constants
  <2>4. ASSUME Become("data", Idle), lock' = None, change' = None, sidlock' = None,
               missed' = missed \cup {subs[i].id : i \in {j \in DOMAIN subs : Uses(j, change)}}
        PROVE  TypeOK' /\ CountInv' /\ SafeInv'
    <3>1. th' \in [Thread -> ThreadState] /\ th'["data"] = Idle /\ \A u \in Thread : u # "data" => th'[u] = th[u]
      BY <2>4, IdleType, BecomeEffect, Constants
    <3>2. ThreadStepTypes
      BY <2>1, <2>4, <3>1 DEF ThreadStepTypes, TypeOK
    <3>3. TypeOK'
      BY <2>1, <3>2, ThreadStepTyped
    <3>4. ThreadInv("data")'
      BY <3>1, <3>3, IdleThread, Constants
    <3>5. missed \subseteq missed' /\ \A i \in DOMAIN subs : Uses(i, change) => subs[i].id \in missed'
      BY <2>4
    <3>6. FilterInv'
      BY <2>1, <3>5 DEF SafeInv, FilterInv, Uses, Shared
    <3>7. \A u \in Thread : u # "data" => ~Locked(th[u])
      BY <2>1, OthersUnlocked, Constants DEF Locked
    <3>8. QED
      BY <2>1, <2>2, <3>1, <3>2, <3>4, <3>5, <3>6, <3>7, ThreadStep, Constants
  <2>5. QED
    BY <2>3, <2>4 DEF FilterScanEnds
<1>5. ASSUME FilterModified PROVE TypeOK' /\ CountInv' /\ SafeInv'
  <2> USE <1>5
  <2> DEFINE new(i) == [subs[i] EXCEPT !.xp = filters[change]]
  <2>1. /\ change # None /\ filters[change] # 0
        /\ subs' = [i \in DOMAIN subs |-> IF Uses(i, change) /\ ~Unmodifiable(i) THEN new(i) ELSE subs[i]]
        /\ missed' = missed \cup {subs[i].id : i \in {j \in DOMAIN subs : Uses(j, change) /\ Unmodifiable(j)}}
        /\ change' = None /\ sidlock' = None
        /\ UNCHANGED <<lock, nextId, sr, status, sess, owner, th, filters, changes, undefined, leaked, miskilled>>
    BY DEF FilterModified, bound
  <2>2. \A i \in DOMAIN subs :
          /\ new(i) \in Subscriptions /\ new(i).id = subs[i].id /\ new(i).nc = subs[i].nc
          /\ new(i).type = subs[i].type /\ new(i).srs = subs[i].srs /\ new(i).term = subs[i].term
          /\ new(i).flt = subs[i].flt /\ new(i).xp = filters[change]
    <3> TAKE i \in DOMAIN subs
    <3>1. subs[i] \in Subscriptions
      BY SubsShape
    <3>2. filters[change] \in 0 .. MaxChanges + 1
      BY <2>1 DEF TypeOK
    <3>3. QED
      BY <3>1, <3>2 DEF Subscriptions
  <2> HIDE DEF new
  <2>3. /\ DOMAIN subs' = DOMAIN subs
        /\ \A i \in DOMAIN subs :
              /\ subs'[i] \in Subscriptions /\ subs'[i].id = subs[i].id /\ subs'[i].nc = subs[i].nc
              /\ subs'[i].type = subs[i].type /\ subs'[i].srs = subs[i].srs /\ subs'[i].term = subs[i].term
              /\ subs'[i].flt = subs[i].flt
              /\ subs'[i].xp = IF Uses(i, change) /\ ~Unmodifiable(i) THEN filters[change] ELSE subs[i].xp
    BY <2>1, <2>2, SubsShape
  <2>4. subs' \in Seq(Subscriptions) /\ Len(subs') = Len(subs)
    <3>1. subs' \in [1 .. Len(subs) -> Subscriptions] /\ Len(subs) \in Nat
      BY <2>1, <2>2, <2>3, SubsShape
    <3>2. QED
      BY <3>1, SMT
  <2>5. TypeOK' /\ CountInv'
    BY <2>1, <2>3, <2>4, Constants DEF TypeOK, CountInv
  <2>6. missed \subseteq missed' /\ \A i \in DOMAIN subs : Uses(i, change) /\ Unmodifiable(i) => subs[i].id \in missed'
    BY <2>1
  <2>7. FilterInv'
    BY <2>1, <2>3, <2>6, SMT DEF SafeInv, FilterInv, Uses
  <2>8. (subs' = <<>>) = (subs = <<>>) /\ (subs # <<>> => Len(subs) \in DOMAIN subs)
    BY <2>4, SMT DEF TypeOK
  <2>9. QED
    BY <2>1, <2>3, <2>4, <2>5, <2>6, <2>7, <2>8, FilterStep
<1>6. ASSUME NEW f \in Filter, ConfigChange(f) PROVE TypeOK' /\ CountInv' /\ SafeInv'
  <2> USE <1>6
  <2>1. /\ change = None /\ changes < MaxChanges /\ changes' = changes + 1
        /\ UNCHANGED <<subs, lock, sidlock, nextId, sr, status, sess, owner, th, undefined, leaked, missed, miskilled>>
    BY DEF ConfigChange, hist
  <2>2. PICK v : /\ v \in {0, changes + 2} /\ filters' = [filters EXCEPT ![f] = v]
                 /\ change' = IF filters[f] = 0 THEN None ELSE f
    BY DEF ConfigChange
  <2>3. /\ changes \in Nat /\ changes + 1 \in 0 .. MaxChanges /\ v \in 0 .. MaxChanges + 1 /\ v <= changes' + 1
        /\ \A g \in Filter : filters[g] \in Int /\ filters[g] <= changes' + 1
    BY <2>1, <2>2, Constants, SMT DEF TypeOK, CountInv
  <2>4. /\ filters' \in [Filter -> 0 .. MaxChanges + 1] /\ filters'[f] = v
        /\ \A g \in Filter : g # f => filters'[g] = filters[g]
    BY <2>2, <2>3 DEF TypeOK
  <2>5. TypeOK' /\ CountInv'
    <3>1. TypeOK'
      BY <2>1, <2>2, <2>3, <2>4 DEF TypeOK
    <3>2. CountInv'
      BY <2>1, <2>3, <2>4 DEF CountInv
    <3>3. QED
      BY <3>1, <3>2
  <2>6. \A i \in DOMAIN subs : subs[i].flt \in Filter \cup {None}
    BY SubsShape DEF Subscriptions
  <2>7. FilterInv'
    BY <2>1, <2>2, <2>4, <2>6, Constants, SMT DEF SafeInv, FilterInv
  <2>8. subs # <<>> => Len(subs) \in DOMAIN subs
    BY SMT DEF TypeOK
  <2>9. QED
    BY <2>1, <2>5, <2>7, <2>8, FilterStep
<1>7. ASSUME NEW s \in Session, NEW id \in 1 .. MaxSubs, NEW f \in Filter \cup {None}, ModifySub(s, id, f)
      PROVE  TypeOK' /\ CountInv' /\ (undefined' \/ SafeInv')
  <2> USE <1>7
  <2> DEFINE new(i) == [subs[i] EXCEPT !.flt = f, !.xp = IF f = None THEN subs[i].xp ELSE filters[f]]
  <2>1. PICK i \in Found(id, s) :
          /\ f # None => filters[f] # 0
          /\ undefined' = (subs[i].type = "ntf" /\ (subs[i].term \/ (f = None /\ subs[i].xp # 0)))
          /\ sidlock' \in {None, sidlock}
          /\ subs' = subs \/ Put(i, new(i))
    BY DEF ModifySub
  <2>2. UNCHANGED <<lock, nextId, sr, status, sess, owner, th, filters, change, changes, leaked, missed, miskilled>>
    BY DEF ModifySub, Rpc, config
  <2>3. i \in DOMAIN subs /\ undefined' \in BOOLEAN /\ sidlock' \in SrId \cup {None}
    BY <2>1 DEF Found, TypeOK
  <2>4. CASE subs' = subs
    <3>1. TypeOK' /\ CountInv'
      BY <2>2, <2>3, <2>4 DEF TypeOK, CountInv
    <3>2. FilterInv'
      BY <2>2, <2>4 DEF SafeInv, FilterInv
    <3>3. subs # <<>> => Len(subs) \in DOMAIN subs
      BY SMT DEF TypeOK
    <3>4. SafeInv'
      BY <2>2, <2>4, <3>2, <3>3, FilterStep
    <3>5. QED
      BY <3>1, <3>4
  <2>5. CASE Put(i, new(i))
    <3>1. /\ new(i) \in Subscriptions /\ new(i).id = subs[i].id /\ new(i).nc = subs[i].nc
          /\ new(i).type = subs[i].type /\ new(i).srs = subs[i].srs /\ new(i).term = subs[i].term
          /\ new(i).flt = f /\ (f # None => new(i).xp = filters[f])
      <4>1. subs[i] \in Subscriptions
        BY <2>3, SubsShape
      <4>2. (IF f = None THEN subs[i].xp ELSE filters[f]) \in 0 .. MaxChanges + 1
        BY <4>1 DEF Subscriptions, TypeOK
      <4>3. QED
        BY <4>1, <4>2 DEF Subscriptions
    <3> HIDE DEF new
    <3>2. /\ subs' \in Seq(Subscriptions) /\ Len(subs') = Len(subs) /\ DOMAIN subs' = DOMAIN subs
          /\ subs'[i] = new(i) /\ \A j \in DOMAIN subs : j # i => subs'[j] = subs[j]
          /\ \A j \in DOMAIN subs : subs'[j].id = subs[j].id
      BY <2>3, <2>5, <3>1, PutEffect
    <3>3. TypeOK' /\ CountInv'
      BY <2>2, <2>3, <3>2 DEF TypeOK, CountInv
    <3>4. FilterInv'
      BY <2>1, <2>2, <3>1, <3>2, SMT DEF SafeInv, FilterInv
    <3>5. subs # <<>> /\ subs' # <<>> /\ Len(subs) \in DOMAIN subs
      BY <2>3, <3>2, SubsShape, SMT
    <3>6. SafeInv'
      BY <2>2, <3>1, <3>2, <3>4, <3>5, FilterStep
    <3>7. QED
      BY <3>3, <3>6
  <2>6. QED
    BY <2>1, <2>4, <2>5
<1>8. QED
  BY <1>1, <1>2, <1>3, <1>4, <1>5, <1>6, <1>7

============================================================================
