--------------------------- MODULE Sessions_proofs ---------------------------
(***************************************************************************)
(* Proofs about Sessions, for any number of sessions, worker threads, RPCs,*)
(* failing calls and timeouts.                                             *)
(***************************************************************************)
EXTENDS Sessions, TLAPS

\* A leaf that names no prover is left to Zenon.
USE ZenonT(30)

(* A worker has a session exactly when it is busy, and so has the callback *)
(* thread; a session found in ps, or to be killed, is a session.           *)
Busy ==
    /\ \A w \in Worker : work[w].pc = "idle" <=> work[w].s = None
    /\ rpc.pc = "idle" <=> rpc.s = None
    /\ rpc.pc = "match" => rpc.found \in Session
    /\ rpc.pc = "kill" => rpc.target \in Session
    /\ rpc.i > 0

TypeInv == TypeOK /\ Busy

(* Worker w is ending its session: some nc_ps_poll has told it that the    *)
(* session is over.                                                        *)
Ending(w) ==
    \/ work[w].pc = "count" /\ work[w].term
    \/ work[w].pc \in {"delps", "unsub", "release", "unmon", "free"}

(* Nothing refers to a session that was not accepted yet. *)
Unopened ==
    \A s \in Session : nc[s] = "none" =>
        /\ s \notin Range(ps) /\ s \notin reported /\ rpc.s # s
        /\ \A w \in Worker : work[w].s # s

(* A session being set up is known to the worker that accepted it only. *)
Opening ==
    \A w \in Worker : work[w].pc \in {"new", "add"} =>
        /\ work[w].s \notin Range(ps) /\ work[w].s \notin reported /\ rpc.s # work[w].s
        /\ \A v \in Worker \ {w} : work[v].s # work[w].s
        /\ nc[work[w].s] = "alive"

(* Only callbacks leak references, and there is none before the session is *)
(* polled.                                                                 *)
Unleaked ==
    /\ \A s \in Session : nc[s] = "none" => leaked[s] = 0
    /\ \A w \in Worker : work[w].pc \in {"new", "add"} => leaked[work[w].s] = 0

(* What is polled has not been freed. *)
Polled == \A s \in Range(ps) : nc[s] = "alive" /\ us[s].st = "alive"

(* nc_ps_poll locks the session whose RPC is processed: one worker at a    *)
(* time waits for a session, which stays in ps and is not over for anyone. *)
Waiting ==
    \A w \in Worker : work[w].pc = "wait" =>
        /\ work[w].s \in Range(ps) \ reported
        /\ \A v \in Worker \ {w} : work[v].s = work[w].s => work[v].pc # "wait"

(* The end of a session is reported to one worker, which removes it from   *)
(* ps before it releases anything.                                         *)
EndsOnce ==
    \A w \in Worker : Ending(w) =>
        /\ work[w].s \in reported
        /\ \A v \in Worker \ {w} : Ending(v) => work[v].s # work[w].s
        /\ work[w].s \in Range(ps) <=> work[w].pc \in {"count", "delps"}

(* The worker the callback answers to waits for it. *)
Answers ==
    rpc.by # None => /\ rpc.pc # "idle"
                     /\ work[rpc.by].pc = "wait" /\ work[rpc.by].s = rpc.s

SafeInv ==
    /\ Unopened /\ Opening /\ Unleaked /\ Polled /\ Waiting /\ EndsOnce /\ Answers
    /\ RefsExact

-----------------------------------------------------------------------------
(* The list of polled sessions *)

LEMMA InPs ==
  ASSUME NEW q \in Seq(Session)
  PROVE  Range(q) \subseteq Session
BY SMT DEF Range

LEMMA Appended ==
  ASSUME NEW q \in Seq(Session), IsInjective(q), NEW s \in Session \ Range(q)
  PROVE  /\ Append(q, s) \in Seq(Session) /\ IsInjective(Append(q, s))
         /\ Range(Append(q, s)) = Range(q) \cup {s}
<1> DEFINE r == Append(q, s)
<1>1. /\ r \in Seq(Session) /\ Len(r) = Len(q) + 1 /\ DOMAIN r = 1 .. Len(q) + 1
      /\ DOMAIN q = 1 .. Len(q) /\ Len(q) \in Nat
      /\ \A i \in 1 .. Len(q) : r[i] = q[i]
      /\ r[Len(q) + 1] = s
  BY SMT
<1> HIDE DEF r
<1>2. IsInjective(r)
  BY <1>1, SMT DEF IsInjective, Range
<1>3. Range(r) = Range(q) \cup {s}
  BY <1>1, SMT DEF Range
<1> QED BY <1>1, <1>2, <1>3 DEF r

(* nc_ps_del_session removes one session and no other. *)
LEMMA Removed ==
  ASSUME NEW q \in Seq(Session), IsInjective(q), NEW s \in Range(q)
  PROVE  LET r == [i \in 1 .. Len(q) - 1 |-> IF q[i] = s THEN q[Len(q)] ELSE q[i]]
         IN  r \in Seq(Session) /\ IsInjective(r) /\ Range(r) = Range(q) \ {s}
<1> DEFINE r == [i \in 1 .. Len(q) - 1 |-> IF q[i] = s THEN q[Len(q)] ELSE q[i]]
<1>1. PICK n \in Nat : n = Len(q) /\ DOMAIN q = 1 .. n /\ \A i \in 1 .. n : q[i] \in Session
  BY SMT
<1>2. PICK k \in 1 .. n : q[k] = s
  BY <1>1 DEF Range
<1>3. n - 1 \in Nat /\ n \in 1 .. n /\ 1 .. n - 1 \subseteq 1 .. n
  BY <1>2, SMT
<1>4. r \in [1 .. n - 1 -> Session]
  BY <1>1, <1>3
<1>5. r \in Seq(Session) /\ DOMAIN r = 1 .. n - 1
  BY <1>3, <1>4, SMT
<1>6. \A i \in 1 .. n - 1 : r[i] = IF i = k THEN q[n] ELSE q[i]
  <2> SUFFICES ASSUME NEW i \in 1 .. n - 1 PROVE r[i] = IF i = k THEN q[n] ELSE q[i]
    OBVIOUS
  <2>1. i \in 1 .. n /\ (q[i] = s <=> i = k)
    BY <1>1, <1>2, <1>3 DEF IsInjective
  <2> QED BY <1>1, <2>1
<1> HIDE DEF r
<1>7. IsInjective(r)
  BY <1>1, <1>2, <1>5, <1>6, SMT DEF IsInjective
<1>8. Range(r) = Range(q) \ {s}
  <2>1. ASSUME NEW x \in Range(r) PROVE x \in Range(q) \ {s}
    BY <1>1, <1>2, <1>5, <1>6, <2>1, SMT DEF Range, IsInjective
  <2>2. ASSUME NEW x \in Range(q) \ {s} PROVE x \in Range(r)
    <3>1. PICK i \in 1 .. n : q[i] = x
      BY <1>1 DEF Range
    <3>2. CASE i = n
      <4>1. k \in 1 .. n - 1 /\ r[k] = x
        BY <1>1, <1>2, <1>6, <3>1, <3>2, SMT
      <4> QED BY <4>1, <1>5 DEF Range
    <3>3. CASE i # n
      <4>1. i \in 1 .. n - 1 /\ r[i] = x
        BY <1>1, <1>2, <1>6, <3>1, <3>3, SMT
      <4> QED BY <4>1, <1>5 DEF Range
    <3> QED BY <3>2, <3>3
  <2> QED BY <2>1, <2>2
<1> QED BY <1>5, <1>7, <1>8 DEF r

-----------------------------------------------------------------------------
(* Type correctness *)

LEMMA InitType == Init => TypeInv
<1> SUFFICES ASSUME Init PROVE TypeInv
  OBVIOUS
<1>1. Idle \in WorkState /\ NoRpc \in RpcState
  BY DEF Idle, NoRpc, WorkState, RpcState
<1>2. ps \in Seq(Session) /\ IsInjective(ps)
  BY SMT DEF Init, IsInjective
<1>3. rpcs \in 0..MaxRpcs /\ faults \in 0..MaxFaults /\ timeouts \in 0..MaxTimeouts
  BY SessionsAssumption, SMT DEF Init
<1>4. leaked \in [Session -> Nat] /\ us \in [Session -> [st : {"none", "alive", "freed"}, ref : Nat]]
  BY DEF Init
<1>5. TypeOK
  BY <1>1, <1>2, <1>3, <1>4 DEF Init, TypeOK
<1>6. Busy
  BY SMT DEF Init, Busy, Idle, NoRpc
<1> QED BY <1>5, <1>6 DEF TypeInv

(* nc_ps_poll returns to a worker: what becomes of it and of reported. *)
LEMMA Returned ==
  ASSUME TypeInv, NEW w \in Worker, NEW s \in Session, PollReturns(w, s)
  PROVE  /\ work' \in [Worker -> WorkState] /\ reported' \subseteq Session
         /\ work'[w].pc = "count" /\ work'[w].s = work[w].s
         /\ work'[w].term = (s \in dead)
         /\ \A v \in Worker \ {w} : work'[v] = work[v]
         /\ reported' = IF s \in dead THEN reported \cup {s} ELSE reported
<1> DEFINE b == s \in dead
           r == [[work[w] EXCEPT !.pc = "count"] EXCEPT !.term = b]
<1>1. b \in BOOLEAN
  BY SMT
<1>2. work' = [work EXCEPT ![w].pc = "count", ![w].term = b]
  BY DEF PollReturns
<1> HIDE DEF b
<1>3. r \in WorkState /\ r.pc = "count" /\ r.s = work[w].s /\ r.term = b
  <2>1. work[w] \in WorkState
    BY DEF TypeInv, TypeOK
  <2> QED BY <1>1, <2>1 DEF WorkState
<1> HIDE DEF r
<1>4. work' = [work EXCEPT ![w] = r]
  BY <1>2 DEF TypeInv, TypeOK, r
<1> QED BY <1>3, <1>4 DEF TypeInv, TypeOK, PollReturns, b

(* What RpcReply does to the worker and the callback thread. *)
LEMMA ReplyType ==
  ASSUME TypeInv, Answers, RpcReply
  PROVE  /\ rpc' \in RpcState /\ work' \in [Worker -> WorkState] /\ reported' \subseteq Session
         /\ Busy'
<1> USE SessionsAssumption DEF TypeInv, TypeOK
<1>1. rpc' = NoRpc /\ NoRpc \in RpcState
  BY DEF RpcReply, NoRpc, RpcState
<1>2. CASE rpc.by = None
  <2>1. work' = work /\ reported' = reported
    BY <1>2 DEF RpcReply
  <2>2. Busy'
    BY <1>1, <2>1, SMT DEF Busy, NoRpc
  <2> QED BY <1>1, <2>1, <2>2
<1>3. CASE rpc.by # None
  <2>1. rpc.by \in Worker /\ rpc.s \in Session /\ work[rpc.by].s = rpc.s
    BY <1>3 DEF RpcState, Answers, Busy
  <2>2. PollReturns(rpc.by, rpc.s)
    BY <1>3 DEF RpcReply
  <2>3. /\ work' \in [Worker -> WorkState] /\ reported' \subseteq Session
        /\ work'[rpc.by].pc = "count" /\ work'[rpc.by].s = rpc.s
        /\ \A v \in Worker \ {rpc.by} : work'[v] = work[v]
    BY <2>1, <2>2, Returned
  <2>4. \A v \in Worker : work'[v].pc = "idle" <=> work'[v].s = None
    BY <2>1, <2>3 DEF Busy
  <2>5. Busy'
    BY <1>1, <2>4, SMT DEF Busy, NoRpc
  <2> QED BY <1>1, <2>3, <2>5
<1> QED BY <1>2, <1>3

LEMMA Went ==
  ASSUME TypeInv, NEW w \in Worker,
         NEW p \in {"add", "start", "delps", "unsub", "release", "unmon", "free"}, WGoto(w, p)
  PROVE  /\ work' \in [Worker -> WorkState]
         /\ work'[w].pc = p /\ work'[w].s = work[w].s /\ work'[w].term = work[w].term
         /\ \A v \in Worker \ {w} : work'[v] = work[v]
<1> DEFINE r == [work[w] EXCEPT !.pc = p]
<1>1. work[w] \in WorkState
  BY DEF TypeInv, TypeOK
<1>2. r \in WorkState /\ r.pc = p /\ r.s = work[w].s /\ r.term = work[w].term
  BY <1>1 DEF WorkState
<1>3. work' = [work EXCEPT ![w] = r]
  BY DEF TypeInv, TypeOK, WGoto
<1> HIDE DEF r
<1> QED BY <1>2, <1>3 DEF TypeInv, TypeOK

LEMMA Rested ==
  ASSUME TypeInv, NEW w \in Worker, WIdle(w)
  PROVE  /\ work' \in [Worker -> WorkState]
         /\ work'[w].pc = "idle" /\ work'[w].s = None
         /\ \A v \in Worker \ {w} : work'[v] = work[v]
BY DEF TypeInv, TypeOK, WIdle, Idle, WorkState

LEMMA Taken ==
  ASSUME TypeInv, NEW w \in Worker, Take(w)
  PROVE  /\ work' \in [Worker -> WorkState]
         /\ \A v \in Worker : /\ work'[v].pc = work[v].pc /\ work'[v].s = work[v].s
                             /\ work'[v].term = work[v].term
<1> DEFINE r == [work[w] EXCEPT !.taken = TRUE]
<1>1. work[w] \in WorkState
  BY DEF TypeInv, TypeOK
<1>2. r \in WorkState /\ r.pc = work[w].pc /\ r.s = work[w].s /\ r.term = work[w].term
  BY <1>1 DEF WorkState
<1>3. work' = [work EXCEPT ![w] = r]
  BY DEF Take
<1> HIDE DEF r
<1> QED BY <1>2, <1>3 DEF TypeInv, TypeOK

LEMMA Unreferenced ==
  ASSUME TypeInv, NEW s \in Session, us[s].ref > 0, us[s].st = "alive", Unref(s)
  PROVE  /\ us' \in [Session -> [st : {"none", "alive", "freed"}, ref : Nat]]
         /\ us'[s].ref = us[s].ref - 1
         /\ us'[s].st = IF us[s].ref = 1 THEN "freed" ELSE "alive"
         /\ \A x \in Session \ {s} : us'[x] = us[x]
<1> DEFINE r == IF us[s].ref = 1 THEN [st |-> "freed", ref |-> 0]
                ELSE [st |-> us[s].st, ref |-> us[s].ref - 1]
<1>1. us[s] \in [st : {"none", "alive", "freed"}, ref : Nat]
  BY DEF TypeInv, TypeOK
<1>2. /\ r \in [st : {"none", "alive", "freed"}, ref : Nat]
      /\ r.ref = us[s].ref - 1
      /\ r.st = IF us[s].ref = 1 THEN "freed" ELSE "alive"
  BY <1>1, SMT
<1>3. us' = [us EXCEPT ![s] = r]
  BY DEF Unref
<1> HIDE DEF r
<1> QED BY <1>2, <1>3 DEF TypeInv, TypeOK

(* Whoever holds a reference can count on the user session. *)
LEMMA Referenced ==
  ASSUME TypeInv, RefsExact, ~undefined, NEW s \in Session, Owned(s) \/ Borrowed(s)
  PROVE  us[s].ref > 0 /\ us[s].st = "alive"
<1>1. leaked[s] \in Nat /\ us[s].ref \in Nat
  BY DEF TypeInv, TypeOK
<1>2. Flag(Owned(s)) + Flag(Borrowed(s)) > 0
  BY SMT DEF Flag
<1>3. Flag(Owned(s)) \in {0, 1} /\ Flag(Borrowed(s)) \in {0, 1}
  BY DEF Flag
<1> HIDE DEF Flag
<1> QED BY <1>1, <1>2, <1>3, SMT DEF RefsExact

LEMMA StepType == TypeInv /\ SafeInv /\ [Next]_vars => TypeInv'
<1> SUFFICES ASSUME TypeInv, SafeInv, [Next]_vars PROVE TypeInv'
  OBVIOUS
<1> USE SessionsAssumption DEF TypeInv, life, poll, subs, bound
<1>1. ASSUME NEW w \in Worker, NEW s \in Session, Accept(w, s) PROVE TypeInv'
  <2>1. /\ work' \in [Worker -> WorkState] /\ work'[w].pc = "new" /\ work'[w].s = s
        /\ \A v \in Worker \ {w} : work'[v] = work[v]
    BY <1>1 DEF Accept, Idle, TypeOK, WorkState
  <2>2. TypeOK'
    BY <1>1, <2>1 DEF Accept, TypeOK
  <2>3. Busy'
    BY <1>1, <2>1 DEF Accept, Busy
  <2> QED BY <2>2, <2>3
<1>2. ASSUME NEW w \in Worker, NewUserSess(w) PROVE TypeInv'
  <2>1. work[w].s \in Session
    BY <1>2 DEF NewUserSess, TypeOK, Busy, WorkState
  <2>2. /\ us' \in [Session -> [st : {"none", "alive", "freed"}, ref : Nat]]
        /\ nc' \in [Session -> {"none", "alive", "freed"}] /\ stats' \subseteq Session
        /\ rpcs' \in 0..MaxRpcs /\ faults' \in 0..MaxFaults /\ timeouts' \in 0..MaxTimeouts
    <3>1. us' \in [Session -> [st : {"none", "alive", "freed"}, ref : Nat]]
      <4>1. ASSUME NEW r \in [st : {"none", "alive", "freed"}, ref : Nat],
                   us' = [us EXCEPT ![work[w].s] = r]
            PROVE us' \in [Session -> [st : {"none", "alive", "freed"}, ref : Nat]]
        BY <4>1 DEF TypeOK
      <4>2. /\ [st |-> "alive", ref |-> 1] \in [st : {"none", "alive", "freed"}, ref : Nat]
            /\ [st |-> "freed", ref |-> 0] \in [st : {"none", "alive", "freed"}, ref : Nat]
        OBVIOUS
      <4> QED BY <1>2, <4>1, <4>2 DEF NewUserSess, TypeOK
    <3>2. nc' \in [Session -> {"none", "alive", "freed"}] /\ stats' \subseteq Session
      BY <1>2, <2>1 DEF NewUserSess, TypeOK, Abandon
    <3>3. rpcs' \in 0..MaxRpcs /\ faults' \in 0..MaxFaults /\ timeouts' \in 0..MaxTimeouts
      BY <1>2, SMT DEF NewUserSess, TypeOK, Fault
    <3> QED BY <3>1, <3>2, <3>3
  <2>3. WGoto(w, "add") \/ WIdle(w)
    BY <1>2 DEF NewUserSess, Abandon
  <2>4. TypeOK'
    BY <1>2, <2>2, <2>3, Went, Rested DEF NewUserSess, TypeOK
  <2>5. Busy'
    BY <1>2, <2>1, <2>3, Went, Rested, SMT DEF NewUserSess, Busy
  <2> QED BY <2>4, <2>5
<1>3. ASSUME NEW w \in Worker, AddSession(w) PROVE TypeInv'
  <2>1. work[w].s \in Session
    BY <1>3 DEF AddSession, TypeOK, Busy, WorkState
  <2>2. /\ us' \in [Session -> [st : {"none", "alive", "freed"}, ref : Nat]]
        /\ nc' \in [Session -> {"none", "alive", "freed"}] /\ stats' \subseteq Session
        /\ rpcs' \in 0..MaxRpcs /\ faults' \in 0..MaxFaults /\ timeouts' \in 0..MaxTimeouts
    <3>1. us' \in [Session -> [st : {"none", "alive", "freed"}, ref : Nat]]
      <4>1. ASSUME NEW r \in [st : {"none", "alive", "freed"}, ref : Nat],
                   us' = [us EXCEPT ![work[w].s] = r]
            PROVE us' \in [Session -> [st : {"none", "alive", "freed"}, ref : Nat]]
        BY <4>1 DEF TypeOK
      <4>2. /\ [st |-> "alive", ref |-> 1] \in [st : {"none", "alive", "freed"}, ref : Nat]
            /\ [st |-> "freed", ref |-> 0] \in [st : {"none", "alive", "freed"}, ref : Nat]
        OBVIOUS
      <4> QED BY <1>3, <4>1, <4>2 DEF AddSession, TypeOK
    <3>2. nc' \in [Session -> {"none", "alive", "freed"}] /\ stats' \subseteq Session
      BY <1>3, <2>1 DEF AddSession, TypeOK, Abandon
    <3>3. rpcs' \in 0..MaxRpcs /\ faults' \in 0..MaxFaults /\ timeouts' \in 0..MaxTimeouts
      BY <1>3, SMT DEF AddSession, TypeOK, Fault
    <3> QED BY <3>1, <3>2, <3>3
  <2>3. WGoto(w, "start") \/ WIdle(w)
    BY <1>3 DEF AddSession, Abandon
  <2>4. ps' \in Seq(Session) /\ IsInjective(ps')
    <3>1. work[w].s \notin Range(ps)
      BY <1>3 DEF AddSession, SafeInv, Opening
    <3>2. CASE ps' = Append(ps, work[w].s)
      BY <2>1, <3>1, <3>2, Appended DEF TypeOK
    <3> QED BY <1>3, <3>2 DEF AddSession, TypeOK
  <2>5. TypeOK'
    BY <1>3, <2>2, <2>3, <2>4, Went, Rested DEF AddSession, TypeOK
  <2>6. Busy'
    BY <1>3, <2>1, <2>3, Went, Rested, SMT DEF AddSession, Busy
  <2> QED BY <2>5, <2>6
<1>4. ASSUME NEW w \in Worker, NotifyStart(w) PROVE TypeInv'
  <2>1. TypeOK'
    BY <1>4, Rested DEF NotifyStart, TypeOK
  <2>2. Busy'
    BY <1>4, Rested DEF NotifyStart, Busy
  <2> QED BY <2>1, <2>2
<1>5. ASSUME NEW w \in Worker, NEW s \in Session, NEW k \in Kinds, NEW t \in Session \cup {None},
             PollRpc(w, s, k, t)
      PROVE TypeInv'
  <2>1. /\ work' \in [Worker -> WorkState] /\ work'[w].pc = "wait" /\ work'[w].s = s
        /\ \A v \in Worker \ {w} : work'[v] = work[v]
    BY <1>5 DEF PollRpc, TypeOK, WorkState
  <2>2. rpcs' \in 0..MaxRpcs
    BY <1>5, SMT DEF PollRpc, TypeOK
  <2>3. TypeOK'
    BY <1>5, <2>1, <2>2 DEF PollRpc, TypeOK
  <2>4. Busy'
    BY <1>5, <2>1 DEF PollRpc, Busy
  <2> QED BY <2>3, <2>4
<1>6. ASSUME NEW w \in Worker, NEW s \in Session, PollBadRpc(w, s) PROVE TypeInv'
  <2>1. /\ work' \in [Worker -> WorkState] /\ work'[w].pc = "count" /\ work'[w].s = s
        /\ \A v \in Worker \ {w} : work'[v] = work[v]
    BY <1>6 DEF PollBadRpc, Idle, TypeOK, WorkState
  <2>2. rpcs' \in 0..MaxRpcs
    BY <1>6, SMT DEF PollBadRpc, TypeOK
  <2>3. TypeOK'
    BY <1>6, <2>1, <2>2 DEF PollBadRpc, TypeOK
  <2>4. Busy'
    BY <1>6, <2>1 DEF PollBadRpc, Busy
  <2> QED BY <2>3, <2>4
<1>7. ASSUME NEW w \in Worker, NEW s \in Session, PollClose(w, s) \/ PollTerm(w, s) PROVE TypeInv'
  <2>1. /\ work' \in [Worker -> WorkState] /\ work'[w].pc # "idle" /\ work'[w].s = s
        /\ \A v \in Worker \ {w} : work'[v] = work[v]
    <3>1. CASE PollClose(w, s)
      BY <3>1 DEF PollClose, Idle, TypeOK, WorkState
    <3>2. CASE PollTerm(w, s)
      BY <3>2 DEF PollTerm, Idle, TypeOK, WorkState
    <3> QED BY <1>7, <3>1, <3>2
  <2>2. TypeOK'
    BY <1>7, <2>1 DEF PollClose, PollTerm, TypeOK
  <2>3. Busy'
    BY <1>7, <2>1 DEF PollClose, PollTerm, Busy
  <2> QED BY <2>2, <2>3
<1>8. ASSUME NEW w \in Worker, RpcTimeout(w) PROVE TypeInv'
  <2>1. work[w].s \in Session
    BY <1>8 DEF RpcTimeout, TypeOK, Busy, WorkState
  <2>2. /\ work' \in [Worker -> WorkState] /\ reported' \subseteq Session
        /\ work'[w].pc = "count" /\ work'[w].s = work[w].s
        /\ \A v \in Worker \ {w} : work'[v] = work[v]
    BY <1>8, <2>1, Returned DEF RpcTimeout
  <2>3. /\ rpc' \in RpcState /\ rpc'.pc = rpc.pc /\ rpc'.s = rpc.s /\ rpc'.found = rpc.found
        /\ rpc'.target = rpc.target /\ rpc'.i = rpc.i
    BY <1>8 DEF RpcTimeout, TypeOK, RpcState
  <2>4. timeouts' \in 0..MaxTimeouts
    BY <1>8, SMT DEF RpcTimeout, TypeOK
  <2>5. TypeOK'
    BY <1>8, <2>2, <2>3, <2>4 DEF RpcTimeout, TypeOK
  <2>6. Busy'
    BY <2>1, <2>2, <2>3, SMT DEF Busy
  <2> QED BY <2>5, <2>6
<1>9. ASSUME NEW w \in Worker, Count(w) PROVE TypeInv'
  <2>1. WGoto(w, "delps") \/ WIdle(w)
    BY <1>9 DEF Count
  <2>2. TypeOK'
    BY <1>9, <2>1, Went, Rested DEF Count, TypeOK
  <2>3. Busy'
    BY <1>9, <2>1, Went, Rested, SMT DEF Count, Busy
  <2> QED BY <2>2, <2>3
<1>10. ASSUME NEW w \in Worker, DelPs(w) PROVE TypeInv'
  <2>1. work[w].s \in Range(ps)
    BY <1>10 DEF DelPs, SafeInv, EndsOnce, Ending
  <2>2. ps' \in Seq(Session) /\ IsInjective(ps')
    BY <1>10, <2>1, Removed DEF DelPs, TypeOK
  <2>3. TypeOK'
    BY <1>10, <2>2, Went DEF DelPs, TypeOK
  <2>4. Busy'
    BY <1>10, Went, SMT DEF DelPs, Busy
  <2> QED BY <2>3, <2>4
<1>11. ASSUME NEW w \in Worker, Unsubscribe(w) PROVE TypeInv'
  <2>1. TypeOK'
    BY <1>11, Went DEF Unsubscribe, TypeOK
  <2>2. Busy'
    BY <1>11, Went, SMT DEF Unsubscribe, Busy
  <2> QED BY <2>1, <2>2
<1>12. ASSUME NEW w \in Worker, ~undefined, DelRelease(w) PROVE TypeInv'
  <2>1. work[w].s \in Session /\ Owned(work[w].s)
    BY <1>12 DEF DelRelease, TypeOK, Busy, WorkState, Owned
  <2>2. us' \in [Session -> [st : {"none", "alive", "freed"}, ref : Nat]]
    BY <1>12, <2>1, Unreferenced, Referenced DEF DelRelease, SafeInv
  <2>3. TypeOK'
    BY <1>12, <2>2, Went DEF DelRelease, TypeOK
  <2>4. Busy'
    BY <1>12, Went, SMT DEF DelRelease, Busy
  <2> QED BY <2>3, <2>4
<1>13. ASSUME NEW w \in Worker, Unmonitor(w) PROVE TypeInv'
  <2>1. TypeOK'
    BY <1>13, Went DEF Unmonitor, TypeOK
  <2>2. Busy'
    BY <1>13, Went, SMT DEF Unmonitor, Busy
  <2> QED BY <2>1, <2>2
<1>14. ASSUME NEW w \in Worker, FreeSession(w) PROVE TypeInv'
  <2>1. TypeOK'
    BY <1>14, Rested DEF FreeSession, TypeOK
  <2>2. Busy'
    BY <1>14, Rested DEF FreeSession, Busy
  <2> QED BY <2>1, <2>2
<1>15. ASSUME NEW w \in Worker, Take(w) PROVE TypeInv'
  <2>1. work[w].s \in Session
    BY <1>15 DEF Take, TypeOK, Busy, WorkState
  <2>2. /\ work' \in [Worker -> WorkState]
        /\ \A v \in Worker : work'[v].pc = work[v].pc /\ work'[v].s = work[v].s
    BY <1>15, Taken DEF Take
  <2>3. rpc' \in RpcState /\ rpc'.pc = "lookup" /\ rpc'.s = work[w].s /\ rpc'.i = 1
    BY <1>15, <2>1 DEF Take, NoRpc, TypeOK, RpcState, WorkState
  <2>4. TypeOK'
    BY <1>15, <2>2, <2>3 DEF Take, TypeOK
  <2>5. Busy'
    BY <2>1, <2>2, <2>3, SMT DEF Busy
  <2> QED BY <2>4, <2>5
<1>16. CASE Lookup
  <2>1. CASE RpcReply
    BY <1>16, <2>1, ReplyType DEF Lookup, TypeOK, SafeInv
  <2>2. CASE ~RpcReply
    <3>1. /\ rpc' = [rpc EXCEPT !.pc = "match", !.found = ps[rpc.i]] /\ rpc.i <= Len(ps)
          /\ UNCHANGED <<work, reported>>
      BY <1>16, <2>2 DEF Lookup
    <3>2. ps[rpc.i] \in Session
      <4>1. rpc.i > 0 /\ rpc.i \in Nat /\ ps \in Seq(Session)
        BY <1>16 DEF Lookup, Busy, TypeOK, RpcState
      <4>2. QED
        BY ONLY <3>1, <4>1, SMT
    <3>3. /\ rpc' \in RpcState /\ rpc'.pc = "match" /\ rpc'.s = rpc.s
          /\ rpc'.found \in Session /\ rpc'.i = rpc.i
      BY <3>1, <3>2 DEF TypeOK, RpcState
    <3>4. TypeOK'
      BY <1>16, <3>1, <3>3 DEF Lookup, TypeOK
    <3>5. Busy'
      BY <1>16, <3>1, <3>3 DEF Lookup, Busy
    <3> QED BY <3>4, <3>5
  <2> QED BY <2>1, <2>2
<1>17. CASE Match
  <2>1. rpc.found \in Session
    BY <1>17 DEF Match, Busy
  <2>2. rpc' \in RpcState /\ rpc'.pc # "idle" /\ rpc'.s = rpc.s /\ rpc'.i > 0
    <3>1. CASE rpc.found # Wanted
      <4>1. rpc.i + 1 \in Nat /\ rpc.i + 1 > 0
        BY SMT DEF TypeOK, RpcState
      <4>2. rpc' = [rpc EXCEPT !.pc = "lookup", !.found = None, !.i = rpc.i + 1]
        BY <1>17, <3>1 DEF Match
      <4>3. rpc.pc = "match" /\ rpc \in RpcState
        BY <1>17 DEF Match, TypeOK
      <4> QED BY <4>1, <4>2, <4>3 DEF RpcState
    <3>2. CASE rpc.found = Wanted
      BY <1>17, <3>2 DEF Match, TypeOK, RpcState, Busy
    <3> QED BY <3>1, <3>2
  <2>3. rpc'.pc # "match" /\ (rpc'.pc = "kill" => rpc'.target \in Session)
    BY <1>17, <2>1 DEF Match, Wanted, TypeOK, RpcState
  <2>4. TypeOK'
    BY <1>17, <2>2 DEF Match, TypeOK
  <2>5. Busy'
    BY <1>17, <2>2, <2>3 DEF Match, Busy
  <2> QED BY <2>4, <2>5
<1>18. CASE TakeRef
  <2>1. rpc' \in RpcState /\ rpc'.pc = "use" /\ rpc'.s = rpc.s /\ rpc'.i = rpc.i
    BY <1>18 DEF TakeRef, TypeOK, RpcState
  <2>2. us' \in [Session -> [st : {"none", "alive", "freed"}, ref : Nat]]
    <3>1. CASE us' = us
      BY <3>1 DEF TypeOK
    <3>2. CASE us' = [us EXCEPT ![rpc.s].ref = us[rpc.s].ref + 1] /\ rpc.s \in Session
      <4> DEFINE r == [us[rpc.s] EXCEPT !.ref = us[rpc.s].ref + 1]
      <4>1. r \in [st : {"none", "alive", "freed"}, ref : Nat]
        <5>1. us[rpc.s] \in [st : {"none", "alive", "freed"}, ref : Nat]
          BY <3>2 DEF TypeOK
        <5>2. us[rpc.s].ref + 1 \in Nat
          BY <5>1, SMT
        <5> QED BY <5>1, <5>2
      <4>2. us' = [us EXCEPT ![rpc.s] = r]
        BY <3>2
      <4> QED BY <4>1, <4>2 DEF TypeOK
    <3>3. rpc.s \in Session
      BY <1>18 DEF TakeRef, TypeOK, RpcState, Busy
    <3> QED BY <1>18, <3>1, <3>2, <3>3 DEF TakeRef
  <2>3. TypeOK'
    BY <1>18, <2>1, <2>2 DEF TakeRef, TypeOK
  <2>4. Busy'
    BY <1>18, <2>1 DEF TakeRef, Busy
  <2> QED BY <2>3, <2>4
<1>19. CASE Use
  <2>1. rpc.s \in Session
    BY <1>19 DEF Use, TypeOK, RpcState, Busy
  <2>2. leaked' \in [Session -> Nat] /\ subscribed' \subseteq Session /\ active' \subseteq Session
    <3>1. leaked' \in [Session -> Nat]
      <4>1. CASE leaked' = leaked
        BY <4>1 DEF TypeOK
      <4>2. CASE leaked' = [leaked EXCEPT ![rpc.s] = leaked[rpc.s] + 1]
        BY <2>1, <4>2, SMT DEF TypeOK
      <4> QED BY <1>19, <4>1, <4>2 DEF Use
    <3>2. subscribed' \subseteq Session /\ active' \subseteq Session
      BY <1>19, <2>1 DEF Use, TypeOK
    <3> QED BY <3>1, <3>2
  <2>3. undefined' \in BOOLEAN
    BY <1>19 DEF Use
  <2>4. CASE RpcReply
    BY <1>19, <2>2, <2>3, <2>4, ReplyType DEF Use, TypeOK, SafeInv
  <2>5. CASE ~RpcReply
    <3>1. rpc' = [rpc EXCEPT !.pc = "release"] /\ UNCHANGED <<work, reported>>
      BY <1>19, <2>5 DEF Use
    <3>2. rpc' \in RpcState /\ rpc'.pc = "release" /\ rpc'.s = rpc.s /\ rpc'.i = rpc.i
      BY <3>1 DEF TypeOK, RpcState
    <3>3. TypeOK'
      BY <1>19, <2>2, <2>3, <3>1, <3>2 DEF Use, TypeOK
    <3>4. Busy'
      BY <1>19, <3>1, <3>2 DEF Use, Busy
    <3> QED BY <3>3, <3>4
  <2> QED BY <2>4, <2>5
<1>20. CASE ~undefined /\ ReleaseRef
  <2>1. rpc.s \in Session /\ Borrowed(rpc.s)
    BY <1>20 DEF ReleaseRef, TypeOK, RpcState, Busy, Borrowed
  <2>2. us' \in [Session -> [st : {"none", "alive", "freed"}, ref : Nat]]
    BY <1>20, <2>1, Unreferenced, Referenced DEF ReleaseRef, SafeInv
  <2> QED BY <1>20, <2>2, ReplyType DEF ReleaseRef, TypeOK, SafeInv
<1>21. CASE Kill
  <2>1. dead' \subseteq Session
    BY <1>21 DEF Kill, TypeOK, Busy
  <2> QED BY <1>21, <2>1, ReplyType DEF Kill, TypeOK, SafeInv
<1>22. ASSUME NEW s \in Session, StopTime(s) PROVE TypeInv'
  <2>1. TypeOK'
    BY <1>22 DEF StopTime, TypeOK
  <2>2. Busy'
    BY <1>22 DEF StopTime, Busy
  <2> QED BY <2>1, <2>2
<1>23. CASE UNCHANGED vars
  BY <1>23 DEF vars, TypeOK, Busy
<1> QED
  BY <1>1, <1>2, <1>3, <1>4, <1>5, <1>6, <1>7, <1>8, <1>9, <1>10, <1>11, <1>12, <1>13, <1>14,
     <1>15, <1>16, <1>17, <1>18, <1>19, <1>20, <1>21, <1>22, <1>23
     DEF Next, WorkerStep, RpcStep

-----------------------------------------------------------------------------
(* Safety *)

LEMMA InitSafe == Init => SafeInv
<1> SUFFICES ASSUME Init PROVE SafeInv
  OBVIOUS
<1>1. Range(ps) = {}
  BY SMT DEF Init, Range
<1>2. \A w \in Worker : work[w].pc = "idle" /\ work[w].s = None /\ ~Ending(w)
  BY DEF Init, Idle, Ending
<1>3. rpc.pc = "idle" /\ rpc.s = None /\ rpc.by = None
  BY DEF Init, NoRpc
<1>4. /\ \A s \in Session : us[s].st = "none" /\ us[s].ref = 0 /\ leaked[s] = 0
      /\ reported = {}
  BY DEF Init
<1>5. \A s \in Session : ~Owned(s) /\ ~Borrowed(s)
  BY <1>1, <1>2, <1>3 DEF Owned, Borrowed
<1>6. RefsExact
  BY <1>4, <1>5, SMT DEF RefsExact, Flag
<1>7. Unopened /\ Opening /\ Unleaked
  BY <1>1, <1>2, <1>3, <1>4, SessionsAssumption DEF Unopened, Opening, Unleaked
<1>8. Polled /\ Waiting /\ EndsOnce /\ Answers
  BY <1>1, <1>2, <1>3, <1>4 DEF Polled, Waiting, EndsOnce, Answers
<1> QED BY <1>6, <1>7, <1>8 DEF SafeInv

(* One session's part of RefsExact, and when it does not change. *)
Exact(s) ==
    /\ us[s].ref = Flag(Owned(s)) + Flag(Borrowed(s)) + leaked[s]
    /\ us[s].ref > 0 <=> us[s].st = "alive"

LEMMA ExactKept ==
  ASSUME NEW s \in Session, Exact(s), us'[s] = us[s], leaked'[s] = leaked[s],
         Owned(s)' <=> Owned(s), Borrowed(s)' <=> Borrowed(s)
  PROVE  Exact(s)'
BY DEF Exact, Flag

(* A worker that waited goes on: nobody else is disturbed. *)
LEMMA ReturnSafe ==
  ASSUME TypeInv, SafeInv, NEW w \in Worker, work[w].pc = "wait", PollReturns(w, work[w].s),
         ps' = ps, nc' = nc, rpc'.s \in {rpc.s, None}
  PROVE  /\ Unopened' /\ Opening' /\ Waiting' /\ EndsOnce'
         /\ \A s \in Session : Owned(s)' <=> Owned(s)
<1> USE SessionsAssumption
<1>1. work[w].s \in Session /\ work[w].s \in Range(ps) \ reported /\ Range(ps)' = Range(ps)
  BY DEF TypeInv, TypeOK, Busy, WorkState, SafeInv, Waiting
<1>2. /\ work'[w].pc = "count" /\ work'[w].s = work[w].s
      /\ work'[w].term = (work[w].s \in dead)
      /\ \A v \in Worker \ {w} : work'[v] = work[v]
      /\ reported' = IF work[w].s \in dead THEN reported \cup {work[w].s} ELSE reported
  BY <1>1, Returned
<1>3. nc[work[w].s] = "alive"
  BY <1>1 DEF SafeInv, Polled
<1>4. Unopened'
  BY <1>1, <1>2, <1>3 DEF SafeInv, Unopened
<1>5. Opening'
  BY <1>1, <1>2, SMT DEF SafeInv, Opening, TypeInv, Busy
<1>6. Waiting'
  BY <1>1, <1>2, SMT DEF SafeInv, Waiting
<1>7. EndsOnce'
  <2>1. \A v \in Worker \ {w} : Ending(v)' <=> Ending(v)
    BY <1>2 DEF Ending
  <2>2. \A v \in Worker : Ending(v) => work[v].s # work[w].s
    BY <1>1 DEF SafeInv, EndsOnce
  <2>3. Ending(w)' <=> work[w].s \in dead
    BY <1>2 DEF Ending
  <2> QED BY <1>1, <1>2, <2>1, <2>2, <2>3, SMT DEF SafeInv, EndsOnce
<1>8. \A s \in Session : Owned(s)' <=> Owned(s)
  BY <1>1, <1>2 DEF Owned
<1> QED BY <1>4, <1>5, <1>6, <1>7, <1>8

LEMMA ReplySafe ==
  ASSUME TypeInv, SafeInv, RpcReply, ps' = ps, nc' = nc
  PROVE  /\ Unopened' /\ Opening' /\ Waiting' /\ EndsOnce' /\ Answers'
         /\ \A w \in Worker : work'[w].s = work[w].s /\ (work'[w].pc \in {"new", "add"} => work'[w].pc = work[w].pc)
         /\ \A s \in Session : (Owned(s)' <=> Owned(s)) /\ ~Borrowed(s)'
<1> USE SessionsAssumption
<1>1. rpc'.pc = "idle" /\ rpc'.s = None /\ rpc'.by = None
  BY DEF RpcReply, NoRpc
<1>2. Answers' /\ \A s \in Session : ~Borrowed(s)'
  BY <1>1 DEF Answers, Borrowed
<1>3. CASE rpc.by = None
  <2>1. work' = work /\ reported' = reported /\ Range(ps)' = Range(ps)
    BY <1>3 DEF RpcReply
  <2>2. Unopened' /\ Opening'
    BY <1>1, <2>1, SMT DEF SafeInv, Unopened, Opening, TypeInv, TypeOK, WorkState, Busy
  <2>3. Waiting' /\ EndsOnce'
    BY <2>1 DEF SafeInv, Waiting, EndsOnce, Ending
  <2>4. \A s \in Session : Owned(s)' <=> Owned(s)
    BY <2>1 DEF Owned
  <2> QED BY <1>2, <2>1, <2>2, <2>3, <2>4
<1>4. CASE rpc.by # None
  <2>1. /\ rpc.by \in Worker /\ work[rpc.by].pc = "wait" /\ work[rpc.by].s = rpc.s
        /\ rpc.s \in Session
    BY <1>4 DEF TypeInv, TypeOK, RpcState, SafeInv, Answers, Busy
  <2>2. PollReturns(rpc.by, work[rpc.by].s)
    BY <1>4, <2>1 DEF RpcReply
  <2>3. /\ work'[rpc.by].pc = "count" /\ work'[rpc.by].s = work[rpc.by].s
        /\ \A v \in Worker \ {rpc.by} : work'[v] = work[v]
    BY <2>1, <2>2, Returned
  <2> QED BY <1>1, <1>2, <2>1, <2>2, <2>3, ReturnSafe
<1> QED BY <1>3, <1>4

(* A worker moves on with its session, or is done with it. *)
LEMMA WorkerMoves ==
  ASSUME TypeInv, SafeInv, NEW w \in Worker,
         work[w].pc # "wait", work'[w].pc \notin {"new", "add", "wait"},
         work'[w].s \in {work[w].s, None},
         Ending(w)' => /\ Ending(w) /\ work'[w].s = work[w].s
                       /\ work'[w].pc \in {"count", "delps"} <=> work[w].pc \in {"count", "delps"},
         \A v \in Worker \ {w} : work'[v] = work[v],
         UNCHANGED <<ps, reported, rpc, nc>>
  PROVE  Unopened' /\ Opening' /\ Waiting' /\ EndsOnce' /\ Answers'
<1> USE SessionsAssumption
<1>1. Range(ps)' = Range(ps) /\ rpc.by \in Worker \cup {None}
  BY DEF TypeInv, TypeOK, RpcState
<1>2. Unopened'
  BY <1>1 DEF SafeInv, Unopened
<1>3. Opening'
  BY <1>1, SMT DEF SafeInv, Opening, TypeInv, Busy
<1>4. Waiting'
  BY <1>1 DEF SafeInv, Waiting
<1>5. EndsOnce'
  <2>1. \A v \in Worker \ {w} : Ending(v)' <=> Ending(v)
    BY DEF Ending
  <2> QED BY <1>1, <2>1, SMT DEF SafeInv, EndsOnce
<1>6. Answers'
  BY <1>1 DEF SafeInv, Answers
<1> QED BY <1>2, <1>3, <1>4, <1>5, <1>6

(* nc_ps_poll gives a worker a session that no other worker processes, and *)
(* reports its end to nobody else.                                         *)
LEMMA PollSafe ==
  ASSUME TypeInv, SafeInv, NEW w \in Worker, NEW s \in Session,
         work[w].pc = "idle", Pollable(s), work'[w].s = s,
         work'[w].pc \in {"wait", "count", "delps"},
         \A v \in Worker \ {w} : work'[v] = work[v],
         Ending(w)' => reported' = reported \cup {s},
         ~Ending(w)' => reported' = reported,
         UNCHANGED <<ps, rpc, nc>>
  PROVE  /\ Unopened' /\ Opening' /\ Waiting' /\ EndsOnce' /\ Answers'
         /\ \A x \in Session : Owned(x)' <=> Owned(x)
<1> USE SessionsAssumption
<1>1. /\ Range(ps)' = Range(ps) /\ rpc.by \in Worker \cup {None}
      /\ s \in Range(ps) \ reported /\ nc[s] = "alive"
      /\ reported \subseteq reported' /\ reported' \subseteq reported \cup {s}
  BY DEF TypeInv, TypeOK, RpcState, Pollable, SafeInv, Polled
<1>2. Unopened'
  BY <1>1, SMT DEF SafeInv, Unopened
<1>3. Opening'
  BY <1>1, SMT DEF SafeInv, Opening, TypeInv, Busy
<1>4. Waiting'
  <2>1. work'[w].pc = "wait" => ~Ending(w)'
    BY DEF Ending
  <2>2. \A v \in Worker : work[v].s = s => work[v].pc # "wait"
    BY DEF Pollable
  <2> QED BY <1>1, <2>1, <2>2, SMT DEF SafeInv, Waiting
<1>5. EndsOnce'
  <2>1. \A v \in Worker \ {w} : Ending(v)' <=> Ending(v)
    BY DEF Ending
  <2>2. \A v \in Worker : Ending(v) => work[v].s # s
    BY <1>1 DEF SafeInv, EndsOnce
  <2>3. Ending(w)' => work'[w].pc \in {"count", "delps"}
    BY DEF Ending
  <2> QED BY <1>1, <2>1, <2>2, <2>3, SMT DEF SafeInv, EndsOnce
<1>6. Answers'
  BY <1>1 DEF SafeInv, Answers
<1>7. \A x \in Session : Owned(x)' <=> Owned(x)
  BY <1>1 DEF Owned
<1> QED BY <1>2, <1>3, <1>4, <1>5, <1>6, <1>7

(* The callback thread goes on for the same session and worker. *)
LEMMA RpcMoves ==
  ASSUME TypeInv, SafeInv, rpc'.s = rpc.s, rpc'.by = rpc.by, rpc'.pc # "idle",
         UNCHANGED <<ps, reported, nc, work>>
  PROVE  /\ Unopened' /\ Opening' /\ Waiting' /\ EndsOnce' /\ Answers'
         /\ \A x \in Session : Owned(x)' <=> Owned(x)
<1>1. Range(ps)' = Range(ps)
  OBVIOUS
<1>2. Unopened' /\ Opening'
  BY <1>1 DEF SafeInv, Unopened, Opening
<1>3. Waiting' /\ EndsOnce' /\ Answers'
  BY <1>1 DEF SafeInv, Waiting, EndsOnce, Ending, Answers
<1>4. \A x \in Session : Owned(x)' <=> Owned(x)
  BY <1>1 DEF Owned
<1> QED BY <1>2, <1>3, <1>4

LEMMA StepSafe == TypeInv /\ TypeInv' /\ SafeInv /\ [Next]_vars => SafeInv'
<1> SUFFICES ASSUME TypeInv, TypeInv', SafeInv, [Next]_vars PROVE SafeInv'
  OBVIOUS
<1> USE SessionsAssumption DEF life, poll, subs, bound
<1>0. Range(ps) \subseteq Session /\ (~undefined => \A s \in Session : Exact(s))
  BY InPs DEF TypeInv, TypeOK, SafeInv, RefsExact, Exact
<1>a. /\ \A v \in Worker : work[v].pc # "idle" => work[v].s \in Session
      /\ rpc.by \in Worker \cup {None}
  BY DEF TypeInv, TypeOK, Busy, WorkState, RpcState
<1>1. ASSUME NEW w \in Worker, NEW s \in Session, ~undefined, Accept(w, s) PROVE SafeInv'
  <2>1. /\ work'[w].pc = "new" /\ work'[w].s = s /\ work[w].pc = "idle" /\ work[w].s = None
        /\ \A v \in Worker \ {w} : work'[v] = work[v]
        /\ ps' = ps /\ reported' = reported /\ rpc' = rpc /\ us' = us /\ leaked' = leaked
        /\ nc[s] = "none" /\ nc'[s] = "alive" /\ \A x \in Session \ {s} : nc'[x] = nc[x]
    BY <1>1, SMT DEF Accept, Idle, TypeInv, TypeOK, Busy
  <2>2. Range(ps)' = Range(ps) /\ s \notin Range(ps) /\ s \notin reported /\ rpc.s # s
        /\ leaked[s] = 0 /\ \A v \in Worker : work[v].s # s
    BY <2>1 DEF SafeInv, Unopened, Unleaked
  <2>3. Unopened' /\ Unleaked'
    BY <2>1, <2>2, SMT DEF SafeInv, Unopened, Unleaked
  <2>4. Opening'
    BY <1>a, <2>1, <2>2, SMT DEF SafeInv, Opening
  <2>5. Polled' /\ Waiting' /\ Answers'
    <3>1. Polled'
      BY <1>0, <2>1, <2>2 DEF SafeInv, Polled
    <3>2. Waiting'
      BY <2>1, <2>2, SMT DEF SafeInv, Waiting
    <3>3. Answers'
      BY <1>a, <2>1 DEF SafeInv, Answers
    <3> QED BY <3>1, <3>2, <3>3
  <2>6. EndsOnce'
    BY <2>1, <2>2, SMT DEF SafeInv, EndsOnce, Ending
  <2>7. RefsExact'
    <3>1. \A x \in Session : (Owned(x)' <=> Owned(x)) /\ (Borrowed(x)' <=> Borrowed(x))
      BY <2>1, <2>2 DEF Owned, Borrowed
    <3>2. \A x \in Session : Exact(x)'
      BY <1>0, <1>1, <2>1, <3>1, ExactKept
    <3> QED BY <3>2 DEF RefsExact, Exact
  <2> QED BY <2>3, <2>4, <2>5, <2>6, <2>7 DEF SafeInv
<1>2. ASSUME NEW w \in Worker, ~undefined, NewUserSess(w) PROVE SafeInv'
  <2>1. PICK s \in Session :
        /\ s = work[w].s /\ work[w].pc = "new" /\ nc[s] = "alive" /\ s \notin Range(ps)
        /\ leaked[s] = 0 /\ rpc.s # s /\ \A v \in Worker \ {w} : work[v].s # s
        /\ ps' = ps /\ reported' = reported /\ rpc' = rpc /\ leaked' = leaked
        /\ Range(ps)' = Range(ps)
    BY <1>2, <1>a DEF NewUserSess, SafeInv, Opening, Unleaked
  <2>2. CASE us' = [us EXCEPT ![s] = [st |-> "alive", ref |-> 1]] /\ WGoto(w, "add") /\ nc' = nc
    <3>1. /\ work'[w].pc = "add" /\ work'[w].s = s /\ \A v \in Worker \ {w} : work'[v] = work[v]
      BY <2>1, <2>2, Went
    <3>2. /\ us'[s].st = "alive" /\ us'[s].ref = 1 /\ \A x \in Session \ {s} : us'[x] = us[x]
      BY <2>1, <2>2 DEF TypeInv, TypeOK
    <3>3. Unopened' /\ Unleaked'
      BY <2>1, <2>2, <3>1 DEF SafeInv, Unopened, Unleaked
    <3>4. Opening'
      BY <1>a, <2>1, <2>2, <3>1, SMT DEF SafeInv, Opening
    <3>5. Polled' /\ Waiting' /\ Answers'
      <4>1. Polled'
        BY <1>0, <2>1, <2>2, <3>2 DEF SafeInv, Polled
      <4>2. Waiting'
        BY <2>1, <3>1 DEF SafeInv, Waiting
      <4>3. Answers'
        BY <1>a, <2>1, <3>1 DEF SafeInv, Answers
      <4> QED BY <4>1, <4>2, <4>3
    <3>6. EndsOnce'
      BY <2>1, <3>1, SMT DEF SafeInv, EndsOnce, Ending
    <3>7. RefsExact'
      <4>1. Owned(s)' /\ ~Borrowed(s)'
        BY <2>1, <3>1 DEF Owned, Borrowed
      <4>2. \A x \in Session \ {s} : (Owned(x)' <=> Owned(x)) /\ (Borrowed(x)' <=> Borrowed(x))
        BY <2>1, <3>1 DEF Owned, Borrowed
      <4>3. \A x \in Session \ {s} : Exact(x)'
        BY <1>0, <1>2, <2>1, <3>2, <4>2, ExactKept
      <4>4. Exact(s)'
        BY <2>1, <3>2, <4>1, SMT DEF Exact, Flag
      <4> QED BY <4>3, <4>4 DEF RefsExact, Exact
    <3> QED BY <3>3, <3>4, <3>5, <3>6, <3>7 DEF SafeInv
  <2>3. CASE WIdle(w) /\ us' = us /\ nc' = [nc EXCEPT ![s] = "freed"]
    <3>1. /\ work'[w].pc = "idle" /\ work'[w].s = None /\ \A v \in Worker \ {w} : work'[v] = work[v]
      BY <2>3, Rested
    <3>2. nc'[s] = "freed" /\ \A x \in Session \ {s} : nc'[x] = nc[x]
      BY <2>1, <2>3 DEF TypeInv, TypeOK
    <3>3. Unopened' /\ Unleaked'
      BY <2>1, <3>1, <3>2, SMT DEF SafeInv, Unopened, Unleaked
    <3>4. Opening'
      BY <1>a, <2>1, <3>1, <3>2, SMT DEF SafeInv, Opening
    <3>5. Polled' /\ Waiting' /\ Answers'
      <4>1. Polled'
        BY <1>0, <2>1, <2>3, <3>2 DEF SafeInv, Polled
      <4>2. Waiting'
        BY <2>1, <3>1 DEF SafeInv, Waiting
      <4>3. Answers'
        BY <1>a, <2>1, <3>1 DEF SafeInv, Answers
      <4> QED BY <4>1, <4>2, <4>3
    <3>6. EndsOnce'
      BY <2>1, <3>1, SMT DEF SafeInv, EndsOnce, Ending
    <3>7. RefsExact'
      <4>1. \A x \in Session : (Owned(x)' <=> Owned(x)) /\ (Borrowed(x)' <=> Borrowed(x))
        BY <2>1, <3>1 DEF Owned, Borrowed
      <4>2. \A x \in Session : Exact(x)'
        BY <1>0, <1>2, <2>1, <2>3, <4>1, ExactKept
      <4> QED BY <4>2 DEF RefsExact, Exact
    <3> QED BY <3>3, <3>4, <3>5, <3>6, <3>7 DEF SafeInv
  <2> QED BY <1>2, <2>1, <2>2, <2>3 DEF NewUserSess, Abandon
<1>3. ASSUME NEW w \in Worker, ~undefined, AddSession(w) PROVE SafeInv'
  <2>1. PICK s \in Session :
        /\ s = work[w].s /\ work[w].pc = "add" /\ nc[s] = "alive" /\ s \notin Range(ps)
        /\ s \notin reported /\ leaked[s] = 0 /\ rpc.s # s
        /\ \A v \in Worker \ {w} : work[v].s # s
        /\ reported' = reported /\ rpc' = rpc /\ leaked' = leaked
    BY <1>3, <1>a DEF AddSession, SafeInv, Opening, Unleaked
  <2>2. Owned(s) /\ ~Borrowed(s)
    BY <2>1 DEF Owned, Borrowed
  <2>3. CASE ps' = Append(ps, s) /\ WGoto(w, "start") /\ UNCHANGED <<nc, us>>
    <3>1. /\ work'[w].pc = "start" /\ work'[w].s = s /\ \A v \in Worker \ {w} : work'[v] = work[v]
      BY <2>1, <2>3, Went
    <3>2. Range(ps)' = Range(ps) \cup {s}
      BY <2>1, <2>3, Appended DEF TypeInv, TypeOK
    <3>3. Unopened' /\ Unleaked'
      BY <2>1, <2>3, <3>1, <3>2, SMT DEF SafeInv, Unopened, Unleaked
    <3>4. Opening'
      BY <1>a, <2>1, <2>3, <3>1, <3>2, SMT DEF SafeInv, Opening
    <3>5. Polled'
      BY <1>0, <1>3, <2>1, <2>2, <2>3, <3>2, Referenced DEF SafeInv, Polled
    <3>6. Waiting'
      BY <2>1, <3>1, <3>2 DEF SafeInv, Waiting
    <3>7. EndsOnce'
      BY <2>1, <3>1, <3>2, SMT DEF SafeInv, EndsOnce, Ending
    <3>8. Answers'
      BY <1>a, <2>1, <3>1 DEF SafeInv, Answers
    <3>9. RefsExact'
      <4>1. \A x \in Session : (Owned(x)' <=> Owned(x)) /\ (Borrowed(x)' <=> Borrowed(x))
        BY <2>1, <3>1, <3>2 DEF Owned, Borrowed
      <4>2. \A x \in Session : Exact(x)'
        BY <1>0, <1>3, <2>1, <2>3, <4>1, ExactKept
      <4> QED BY <4>2 DEF RefsExact, Exact
    <3> QED BY <3>3, <3>4, <3>5, <3>6, <3>7, <3>8, <3>9 DEF SafeInv
  <2>4. CASE /\ WIdle(w) /\ nc' = [nc EXCEPT ![s] = "freed"] /\ ps' = ps
             /\ us' = [us EXCEPT ![s] = [st |-> "freed", ref |-> 0]]
    <3>1. /\ work'[w].pc = "idle" /\ work'[w].s = None /\ \A v \in Worker \ {w} : work'[v] = work[v]
          /\ Range(ps)' = Range(ps)
      BY <2>4, Rested
    <3>2. /\ nc'[s] = "freed" /\ \A x \in Session \ {s} : nc'[x] = nc[x] /\ us'[x] = us[x]
          /\ us'[s].st = "freed" /\ us'[s].ref = 0
      BY <2>4 DEF TypeInv, TypeOK
    <3>3. Unopened' /\ Unleaked'
      BY <2>1, <3>1, <3>2, SMT DEF SafeInv, Unopened, Unleaked
    <3>4. Opening'
      BY <1>a, <2>1, <3>1, <3>2, SMT DEF SafeInv, Opening
    <3>5. Polled'
      BY <1>0, <2>1, <3>1, <3>2, SMT DEF SafeInv, Polled
    <3>6. Waiting'
      BY <2>1, <3>1, SMT DEF SafeInv, Waiting
    <3>7. EndsOnce'
      BY <2>1, <3>1, SMT DEF SafeInv, EndsOnce, Ending
    <3>8. Answers'
      BY <1>a, <2>1, <3>1 DEF SafeInv, Answers
    <3>9. RefsExact'
      <4>1. \A x \in Session \ {s} : (Owned(x)' <=> Owned(x)) /\ (Borrowed(x)' <=> Borrowed(x))
        BY <2>1, <3>1 DEF Owned, Borrowed
      <4>2. \A x \in Session \ {s} : Exact(x)'
        BY <1>0, <1>3, <2>1, <3>2, <4>1, ExactKept
      <4>3. ~Owned(s)' /\ ~Borrowed(s)'
        BY <2>1, <3>1 DEF Owned, Borrowed
      <4>4. Exact(s)'
        BY <2>1, <3>2, <4>3, SMT DEF Exact, Flag
      <4> QED BY <4>2, <4>4 DEF RefsExact, Exact
    <3> QED BY <3>3, <3>4, <3>5, <3>6, <3>7, <3>8, <3>9 DEF SafeInv
  <2> QED BY <1>3, <2>1, <2>3, <2>4 DEF AddSession, Abandon
<1>4. ASSUME NEW w \in Worker, ~undefined, NotifyStart(w) PROVE SafeInv'
  <2>1. /\ work[w].pc = "start" /\ work'[w].pc = "idle" /\ work'[w].s = None
        /\ \A v \in Worker \ {w} : work'[v] = work[v]
        /\ UNCHANGED <<ps, reported, rpc, nc, us, leaked>> /\ Range(ps)' = Range(ps)
    BY <1>4, Rested DEF NotifyStart
  <2>2. Unopened' /\ Opening' /\ Waiting' /\ EndsOnce' /\ Answers'
    BY <2>1, WorkerMoves DEF Ending
  <2>3. Unleaked' /\ Polled'
    BY <2>1 DEF SafeInv, Unleaked, Polled
  <2>4. \A x \in Session : (Owned(x)' <=> Owned(x)) /\ (Borrowed(x)' <=> Borrowed(x))
    BY <2>1 DEF Owned, Borrowed
  <2>5. RefsExact'
    <3>1. \A x \in Session : Exact(x)'
      BY <1>0, <1>4, <2>1, <2>4, ExactKept
    <3> QED BY <3>1 DEF RefsExact, Exact
  <2> QED BY <2>2, <2>3, <2>5 DEF SafeInv
<1>5. ASSUME NEW w \in Worker, NEW s \in Session, NEW k \in Kinds, NEW t \in Session \cup {None},
             ~undefined, PollRpc(w, s, k, t)
      PROVE SafeInv'
  <2>1. /\ work[w].pc = "idle" /\ Pollable(s) /\ work'[w].s = s /\ work'[w].pc = "wait"
        /\ \A v \in Worker \ {w} : work'[v] = work[v]
        /\ UNCHANGED <<ps, rpc, nc, us, leaked>> /\ Range(ps)' = Range(ps)
    BY <1>5 DEF PollRpc, TypeInv, TypeOK
  <2>2. ~Ending(w)' /\ reported' = reported
    BY <1>5, <2>1 DEF PollRpc, TypeInv, TypeOK, Ending
  <2>3. /\ Unopened' /\ Opening' /\ Waiting' /\ EndsOnce' /\ Answers'
        /\ \A x \in Session : Owned(x)' <=> Owned(x)
    BY <2>1, <2>2, PollSafe
  <2>4. Unleaked' /\ Polled'
    BY <2>1 DEF SafeInv, Unleaked, Polled
  <2>5. RefsExact'
    <3>1. \A x \in Session : Borrowed(x)' <=> Borrowed(x)
      BY <2>1 DEF Borrowed
    <3>2. \A x \in Session : Exact(x)'
      BY <1>0, <1>5, <2>1, <2>3, <3>1, ExactKept
    <3> QED BY <3>2 DEF RefsExact, Exact
  <2> QED BY <2>3, <2>4, <2>5 DEF SafeInv
<1>6. ASSUME NEW w \in Worker, NEW s \in Session, ~undefined, PollBadRpc(w, s) PROVE SafeInv'
  <2>1. /\ work[w].pc = "idle" /\ Pollable(s) /\ work'[w].s = s /\ work'[w].pc = "count"
        /\ \A v \in Worker \ {w} : work'[v] = work[v]
        /\ UNCHANGED <<ps, rpc, nc, us, leaked>> /\ Range(ps)' = Range(ps)
    BY <1>6 DEF PollBadRpc, Idle, TypeInv, TypeOK
  <2>2. ~Ending(w)' /\ reported' = reported
    BY <1>6, <2>1 DEF PollBadRpc, Idle, TypeInv, TypeOK, Ending
  <2>3. /\ Unopened' /\ Opening' /\ Waiting' /\ EndsOnce' /\ Answers'
        /\ \A x \in Session : Owned(x)' <=> Owned(x)
    BY <2>1, <2>2, PollSafe
  <2>4. Unleaked' /\ Polled'
    BY <2>1 DEF SafeInv, Unleaked, Polled
  <2>5. RefsExact'
    <3>1. \A x \in Session : Borrowed(x)' <=> Borrowed(x)
      BY <2>1 DEF Borrowed
    <3>2. \A x \in Session : Exact(x)'
      BY <1>0, <1>6, <2>1, <2>3, <3>1, ExactKept
    <3> QED BY <3>2 DEF RefsExact, Exact
  <2> QED BY <2>3, <2>4, <2>5 DEF SafeInv
<1>7. ASSUME NEW w \in Worker, NEW s \in Session, ~undefined, PollClose(w, s) PROVE SafeInv'
  <2>1. /\ work[w].pc = "idle" /\ Pollable(s) /\ work'[w].s = s /\ work'[w].pc = "count"
        /\ \A v \in Worker \ {w} : work'[v] = work[v]
        /\ UNCHANGED <<ps, rpc, nc, us, leaked>> /\ Range(ps)' = Range(ps)
    BY <1>7 DEF PollClose, Idle, TypeInv, TypeOK
  <2>2. Ending(w)' /\ reported' = reported \cup {s}
    BY <1>7, <2>1 DEF PollClose, Idle, TypeInv, TypeOK, Ending
  <2>3. /\ Unopened' /\ Opening' /\ Waiting' /\ EndsOnce' /\ Answers'
        /\ \A x \in Session : Owned(x)' <=> Owned(x)
    BY <2>1, <2>2, PollSafe
  <2>4. Unleaked' /\ Polled'
    BY <2>1 DEF SafeInv, Unleaked, Polled
  <2>5. RefsExact'
    <3>1. \A x \in Session : Borrowed(x)' <=> Borrowed(x)
      BY <2>1 DEF Borrowed
    <3>2. \A x \in Session : Exact(x)'
      BY <1>0, <1>7, <2>1, <2>3, <3>1, ExactKept
    <3> QED BY <3>2 DEF RefsExact, Exact
  <2> QED BY <2>3, <2>4, <2>5 DEF SafeInv
<1>8. ASSUME NEW w \in Worker, NEW s \in Session, ~undefined, PollTerm(w, s) PROVE SafeInv'
  <2>1. /\ work[w].pc = "idle" /\ Pollable(s) /\ work'[w].s = s /\ work'[w].pc = "delps"
        /\ \A v \in Worker \ {w} : work'[v] = work[v]
        /\ UNCHANGED <<ps, rpc, nc, us, leaked>> /\ Range(ps)' = Range(ps)
    BY <1>8 DEF PollTerm, Idle, TypeInv, TypeOK
  <2>2. Ending(w)' /\ reported' = reported \cup {s}
    BY <1>8, <2>1 DEF PollTerm, Idle, TypeInv, TypeOK, Ending
  <2>3. /\ Unopened' /\ Opening' /\ Waiting' /\ EndsOnce' /\ Answers'
        /\ \A x \in Session : Owned(x)' <=> Owned(x)
    BY <2>1, <2>2, PollSafe
  <2>4. Unleaked' /\ Polled'
    BY <2>1 DEF SafeInv, Unleaked, Polled
  <2>5. RefsExact'
    <3>1. \A x \in Session : Borrowed(x)' <=> Borrowed(x)
      BY <2>1 DEF Borrowed
    <3>2. \A x \in Session : Exact(x)'
      BY <1>0, <1>8, <2>1, <2>3, <3>1, ExactKept
    <3> QED BY <3>2 DEF RefsExact, Exact
  <2> QED BY <2>3, <2>4, <2>5 DEF SafeInv
<1>9. ASSUME NEW w \in Worker, ~undefined, RpcTimeout(w) PROVE SafeInv'
  <2>1. /\ work[w].pc = "wait" /\ work[w].s \in Session /\ PollReturns(w, work[w].s)
        /\ rpc'.s = rpc.s /\ rpc'.pc = rpc.pc /\ UNCHANGED <<ps, nc, us, leaked>>
        /\ rpc'.by = IF rpc.by = w THEN None ELSE rpc.by
        /\ Range(ps)' = Range(ps)
    BY <1>9, <1>a DEF RpcTimeout, TypeInv, TypeOK, RpcState
  <2>2. /\ Unopened' /\ Opening' /\ Waiting' /\ EndsOnce'
        /\ \A x \in Session : Owned(x)' <=> Owned(x)
    BY <2>1, ReturnSafe
  <2>3. work'[w].pc = "count" /\ \A v \in Worker \ {w} : work'[v] = work[v]
    BY <2>1, Returned
  <2>4. Answers'
    BY <1>a, <2>1, <2>3 DEF SafeInv, Answers
  <2>5. Unleaked' /\ Polled'
    BY <2>1, <2>3 DEF SafeInv, Unleaked, Polled
  <2>6. RefsExact'
    <3>1. \A x \in Session : Borrowed(x)' <=> Borrowed(x)
      BY <2>1 DEF Borrowed
    <3>2. \A x \in Session : Exact(x)'
      BY <1>0, <1>9, <2>1, <2>2, <3>1, ExactKept
    <3> QED BY <3>2 DEF RefsExact, Exact
  <2> QED BY <2>2, <2>4, <2>5, <2>6 DEF SafeInv
<1>10. ASSUME NEW w \in Worker, ~undefined, Count(w) PROVE SafeInv'
  <2>1. /\ work[w].pc = "count" /\ work'[w].pc \in {"idle", "delps"}
        /\ work'[w].pc = "delps" => work[w].term /\ work'[w].s = work[w].s
        /\ work'[w].s \in {work[w].s, None}
        /\ \A v \in Worker \ {w} : work'[v] = work[v]
        /\ UNCHANGED <<ps, reported, rpc, nc, us, leaked>> /\ Range(ps)' = Range(ps)
    BY <1>10, Went, Rested DEF Count
  <2>2. Ending(w)' => Ending(w) /\ work'[w].pc = "delps"
    BY <2>1 DEF Ending
  <2>3. Unopened' /\ Opening' /\ Waiting' /\ EndsOnce' /\ Answers'
    BY <2>1, <2>2, WorkerMoves
  <2>4. Unleaked' /\ Polled'
    BY <2>1 DEF SafeInv, Unleaked, Polled
  <2>5. \A x \in Session : (Owned(x)' <=> Owned(x)) /\ (Borrowed(x)' <=> Borrowed(x))
    <3>1. work'[w].pc = "delps" => work[w].s \in Range(ps)
      BY <2>1 DEF Ending, SafeInv, EndsOnce
    <3> QED BY <2>1, <3>1 DEF Owned, Borrowed
  <2>6. RefsExact'
    <3>1. \A x \in Session : Exact(x)'
      BY <1>0, <1>10, <2>1, <2>5, ExactKept
    <3> QED BY <3>1 DEF RefsExact, Exact
  <2> QED BY <2>3, <2>4, <2>6 DEF SafeInv
<1>11. ASSUME NEW w \in Worker, ~undefined, DelPs(w) PROVE SafeInv'
  <2>1. PICK s \in Session :
        /\ s = work[w].s /\ work[w].pc = "delps" /\ s \in Range(ps) /\ s \in reported
        /\ \A v \in Worker \ {w} : Ending(v) => work[v].s # s
        /\ UNCHANGED <<reported, rpc, nc, us, leaked>>
    BY <1>11, <1>a DEF DelPs, SafeInv, EndsOnce, Ending
  <2>2. /\ work'[w].pc = "unsub" /\ work'[w].s = s
        /\ \A v \in Worker \ {w} : work'[v] = work[v]
    BY <1>11, <2>1, Went DEF DelPs
  <2>3. Range(ps)' = Range(ps) \ {s}
    BY <1>11, <2>1, Removed DEF DelPs, TypeInv, TypeOK
  <2>4. Unopened' /\ Unleaked'
    BY <2>1, <2>2, <2>3, SMT DEF SafeInv, Unopened, Unleaked
  <2>5. Opening'
    BY <2>1, <2>2, <2>3, SMT DEF SafeInv, Opening
  <2>6. Polled'
    BY <2>1, <2>3 DEF SafeInv, Polled
  <2>7. Waiting'
    BY <2>1, <2>2, <2>3 DEF SafeInv, Waiting
  <2>8. EndsOnce'
    <3>1. \A v \in Worker \ {w} : Ending(v)' <=> Ending(v)
      BY <2>2 DEF Ending
    <3> QED BY <2>1, <2>2, <2>3, <3>1, SMT DEF SafeInv, EndsOnce
  <2>9. Answers'
    BY <1>a, <2>1, <2>2 DEF SafeInv, Answers
  <2>10. RefsExact'
    <3>1. \A x \in Session : (Owned(x)' <=> Owned(x)) /\ (Borrowed(x)' <=> Borrowed(x))
      BY <2>1, <2>2, <2>3 DEF Owned, Borrowed
    <3>2. \A x \in Session : Exact(x)'
      BY <1>0, <1>11, <2>1, <3>1, ExactKept
    <3> QED BY <3>2 DEF RefsExact, Exact
  <2> QED BY <2>4, <2>5, <2>6, <2>7, <2>8, <2>9, <2>10 DEF SafeInv
<1>12. ASSUME NEW w \in Worker, ~undefined, Unsubscribe(w) \/ Unmonitor(w) PROVE SafeInv'
  <2>1. /\ work[w].pc \in {"unsub", "unmon"} /\ work'[w].s = work[w].s
        /\ work'[w].pc = IF work[w].pc = "unsub" THEN "release" ELSE "free"
        /\ \A v \in Worker \ {w} : work'[v] = work[v]
        /\ UNCHANGED <<ps, reported, rpc, nc, us, leaked>> /\ Range(ps)' = Range(ps)
    BY <1>12, Went DEF Unsubscribe, Unmonitor
  <2>2. Unopened' /\ Opening' /\ Waiting' /\ EndsOnce' /\ Answers'
    BY <2>1, WorkerMoves DEF Ending
  <2>3. Unleaked' /\ Polled'
    BY <2>1, SMT DEF SafeInv, Unleaked, Polled
  <2>4. RefsExact'
    <3>1. \A x \in Session : (Owned(x)' <=> Owned(x)) /\ (Borrowed(x)' <=> Borrowed(x))
      BY <2>1 DEF Owned, Borrowed
    <3>2. \A x \in Session : Exact(x)'
      BY <1>0, <1>12, <2>1, <3>1, ExactKept
    <3> QED BY <3>2 DEF RefsExact, Exact
  <2> QED BY <2>2, <2>3, <2>4 DEF SafeInv
<1>13. ASSUME NEW w \in Worker, ~undefined, DelRelease(w) PROVE SafeInv'
  <2>1. PICK s \in Session :
        /\ s = work[w].s /\ work[w].pc = "release" /\ s \notin Range(ps)
        /\ \A v \in Worker \ {w} : Ending(v) => work[v].s # s
        /\ UNCHANGED <<ps, reported, rpc, nc, leaked>> /\ Range(ps)' = Range(ps) /\ Unref(s)
    BY <1>13, <1>a DEF DelRelease, SafeInv, EndsOnce, Ending
  <2>2. /\ work'[w].pc = "unmon" /\ work'[w].s = s
        /\ \A v \in Worker \ {w} : work'[v] = work[v]
    BY <1>13, <2>1, Went DEF DelRelease
  <2>3. Unopened' /\ Opening' /\ Waiting' /\ EndsOnce' /\ Answers'
    BY <2>1, <2>2, WorkerMoves DEF Ending
  <2>4. Owned(s) /\ us[s].ref > 0 /\ us[s].st = "alive"
    BY <1>13, <2>1, Referenced DEF Owned, SafeInv
  <2>5. /\ us'[s].ref = us[s].ref - 1
        /\ us'[s].st = IF us[s].ref = 1 THEN "freed" ELSE "alive"
        /\ \A x \in Session \ {s} : us'[x] = us[x]
    BY <2>1, <2>4, Unreferenced
  <2>6. Unleaked' /\ Polled'
    BY <1>0, <2>1, <2>2, <2>5, SMT DEF SafeInv, Unleaked, Polled
  <2>7. RefsExact'
    <3>1. \A x \in Session \ {s} : (Owned(x)' <=> Owned(x)) /\ (Borrowed(x)' <=> Borrowed(x))
      BY <2>1, <2>2 DEF Owned, Borrowed
    <3>2. \A x \in Session \ {s} : Exact(x)'
      BY <1>0, <1>13, <2>1, <2>5, <3>1, ExactKept
    <3>3. ~Owned(s)' /\ (Borrowed(s)' <=> Borrowed(s))
      <4>1. \A v \in Worker \ {w} : work[v].s = s => ~Ending(v) /\ work[v].pc # "add"
        BY <2>1 DEF SafeInv, Opening
      <4> QED BY <2>1, <2>2, <4>1 DEF Owned, Borrowed, Ending
    <3>4. Exact(s)'
      <4>1. us[s].ref \in Nat /\ leaked[s] \in Nat
        BY DEF TypeInv, TypeOK
      <4>2. us[s].ref = 1 + Flag(Borrowed(s)) + leaked[s]
        BY <1>0, <1>13, <2>4 DEF Exact, Flag
      <4> QED BY <2>1, <2>5, <3>3, <4>1, <4>2, SMT DEF Exact, Flag
    <3> QED BY <3>2, <3>4 DEF RefsExact, Exact
  <2> QED BY <2>3, <2>6, <2>7 DEF SafeInv
<1>14. ASSUME NEW w \in Worker, ~undefined, FreeSession(w) PROVE SafeInv'
  <2>1. PICK s \in Session :
        /\ s = work[w].s /\ work[w].pc = "free" /\ s \notin Range(ps)
        /\ nc' = [nc EXCEPT ![s] = "freed"]
        /\ UNCHANGED <<ps, reported, rpc, us, leaked>> /\ Range(ps)' = Range(ps)
    BY <1>14, <1>a DEF FreeSession, SafeInv, EndsOnce, Ending
  <2>2. /\ work'[w].pc = "idle" /\ work'[w].s = None
        /\ \A v \in Worker \ {w} : work'[v] = work[v]
    BY <1>14, Rested DEF FreeSession
  <2>3. nc'[s] = "freed" /\ \A x \in Session \ {s} : nc'[x] = nc[x]
    BY <2>1 DEF TypeInv, TypeOK
  <2>4. Unopened' /\ Unleaked'
    BY <1>a, <2>1, <2>2, <2>3, SMT DEF SafeInv, Unopened, Unleaked
  <2>5. Opening'
    BY <1>a, <2>1, <2>2, <2>3, SMT DEF SafeInv, Opening
  <2>6. Polled'
    BY <1>0, <2>1, <2>3 DEF SafeInv, Polled
  <2>7. Waiting'
    BY <2>1, <2>2 DEF SafeInv, Waiting
  <2>8. EndsOnce'
    BY <2>1, <2>2, SMT DEF SafeInv, EndsOnce, Ending
  <2>9. Answers'
    BY <1>a, <2>1, <2>2 DEF SafeInv, Answers
  <2>10. RefsExact'
    <3>1. \A x \in Session : (Owned(x)' <=> Owned(x)) /\ (Borrowed(x)' <=> Borrowed(x))
      BY <2>1, <2>2 DEF Owned, Borrowed
    <3>2. \A x \in Session : Exact(x)'
      BY <1>0, <1>14, <2>1, <3>1, ExactKept
    <3> QED BY <3>2 DEF RefsExact, Exact
  <2> QED BY <2>4, <2>5, <2>6, <2>7, <2>8, <2>9, <2>10 DEF SafeInv
<1>15. ASSUME NEW w \in Worker, ~undefined, Take(w) PROVE SafeInv'
  <2>1. /\ work[w].pc = "wait" /\ work[w].s \in Session /\ work[w].s \in Range(ps)
        /\ nc[work[w].s] = "alive" /\ rpc.pc = "idle"
        /\ UNCHANGED <<ps, reported, nc, us, leaked>> /\ Range(ps)' = Range(ps)
    BY <1>15, <1>a DEF Take, SafeInv, Waiting, Polled
  <2>2. rpc'.pc = "lookup" /\ rpc'.s = work[w].s /\ rpc'.by = w
    BY <1>15 DEF Take, NoRpc
  <2>3. \A v \in Worker : /\ work'[v].pc = work[v].pc /\ work'[v].s = work[v].s
                          /\ Ending(v)' <=> Ending(v)
    BY <1>15, Taken DEF Ending
  <2>4. Unopened' /\ Unleaked'
    BY <2>1, <2>2, <2>3, SMT DEF SafeInv, Unopened, Unleaked
  <2>5. Opening'
    BY <2>1, <2>2, <2>3, SMT DEF SafeInv, Opening
  <2>6. Polled' /\ Waiting'
    BY <2>1, <2>3, SMT DEF SafeInv, Polled, Waiting
  <2>7. EndsOnce'
    BY <2>1, <2>3, SMT DEF SafeInv, EndsOnce
  <2>8. Answers'
    BY <2>1, <2>2, <2>3 DEF Answers
  <2>9. RefsExact'
    <3>1. \A x \in Session : (Owned(x)' <=> Owned(x)) /\ (Borrowed(x)' <=> Borrowed(x))
      BY <2>1, <2>2, <2>3 DEF Owned, Borrowed
    <3>2. \A x \in Session : Exact(x)'
      BY <1>0, <1>15, <2>1, <3>1, ExactKept
    <3> QED BY <3>2 DEF RefsExact, Exact
  <2> QED BY <2>4, <2>5, <2>6, <2>7, <2>8, <2>9 DEF SafeInv
<1>16. CASE ~undefined /\ (Lookup \/ Match)
  <2>1. /\ rpc.pc \in {"lookup", "match"} /\ UNCHANGED <<ps, nc, us, leaked>>
        /\ Range(ps)' = Range(ps)
    BY <1>16 DEF Lookup, Match
  <2>2. CASE RpcReply
    <3>1. /\ Unopened' /\ Opening' /\ Waiting' /\ EndsOnce' /\ Answers'
          /\ \A w \in Worker : work'[w].s = work[w].s
                               /\ (work'[w].pc \in {"new", "add"} => work'[w].pc = work[w].pc)
          /\ \A s \in Session : (Owned(s)' <=> Owned(s)) /\ ~Borrowed(s)'
      BY <2>1, <2>2, ReplySafe
    <3>2. Unleaked' /\ Polled'
      BY <2>1, <3>1 DEF SafeInv, Unleaked, Polled
    <3>3. RefsExact'
      <4>1. \A x \in Session : ~Borrowed(x)
        BY <2>1 DEF Borrowed
      <4>2. \A x \in Session : Exact(x)'
        BY <1>0, <1>16, <2>1, <3>1, <4>1, ExactKept
      <4> QED BY <4>2 DEF RefsExact, Exact
    <3> QED BY <3>1, <3>2, <3>3 DEF SafeInv
  <2>3. CASE ~RpcReply
    <3>1. /\ rpc'.s = rpc.s /\ rpc'.by = rpc.by /\ rpc'.pc \in {"match", "lookup", "kill", "ref"}
          /\ UNCHANGED <<work, reported>>
      <4>1. CASE Lookup
        BY <2>3, <4>1 DEF Lookup, TypeInv, TypeOK, RpcState
      <4>2. CASE Match
        BY <4>2 DEF Match, TypeInv, TypeOK, RpcState
      <4> QED BY <1>16, <4>1, <4>2
    <3>2. /\ Unopened' /\ Opening' /\ Waiting' /\ EndsOnce' /\ Answers'
          /\ \A x \in Session : Owned(x)' <=> Owned(x)
      BY <2>1, <3>1, RpcMoves
    <3>3. Unleaked' /\ Polled'
      BY <2>1, <3>1 DEF SafeInv, Unleaked, Polled
    <3>4. RefsExact'
      <4>1. \A x \in Session : Borrowed(x)' <=> Borrowed(x)
        BY <2>1, <3>1 DEF Borrowed
      <4>2. \A x \in Session : Exact(x)'
        BY <1>0, <1>16, <2>1, <3>2, <4>1, ExactKept
      <4> QED BY <4>2 DEF RefsExact, Exact
    <3> QED BY <3>2, <3>3, <3>4 DEF SafeInv
  <2> QED BY <2>2, <2>3
<1>17. CASE ~undefined /\ TakeRef
  <2>1. PICK s \in Session :
        /\ s = rpc.s /\ rpc.pc = "ref" /\ UNCHANGED <<ps, reported, nc, leaked, work>>
        /\ Range(ps)' = Range(ps)
    BY <1>17 DEF TakeRef, TypeInv, TypeOK, RpcState, Busy
  <2>2. rpc'.s = s /\ rpc'.by = rpc.by /\ rpc'.pc = "use"
    BY <1>17, <2>1 DEF TakeRef, TypeInv, TypeOK, RpcState
  <2>3. /\ Unopened' /\ Opening' /\ Waiting' /\ EndsOnce' /\ Answers'
        /\ \A x \in Session : Owned(x)' <=> Owned(x)
    BY <2>1, <2>2, RpcMoves
  <2>4. CASE undefined'
    <3>1. us' = us
      BY <1>17, <2>4 DEF TakeRef
    <3> QED BY <2>1, <2>3, <2>4, <3>1 DEF SafeInv, Unleaked, Polled, RefsExact
  <2>5. CASE ~undefined'
    <3>1. us' = [us EXCEPT ![s].ref = us[s].ref + 1] /\ us[s].st = "alive"
      BY <1>17, <2>1, <2>5 DEF TakeRef
    <3>2. /\ us'[s].ref = us[s].ref + 1 /\ us'[s].st = "alive"
          /\ \A x \in Session \ {s} : us'[x] = us[x]
      BY <3>1, SMT DEF TypeInv, TypeOK
    <3>3. Unleaked' /\ Polled'
      BY <1>0, <2>1, <3>2 DEF SafeInv, Unleaked, Polled
    <3>4. RefsExact'
      <4>1. \A x \in Session \ {s} : Borrowed(x)' <=> Borrowed(x)
        BY <2>1, <2>2 DEF Borrowed
      <4>2. \A x \in Session \ {s} : Exact(x)'
        BY <1>0, <1>17, <2>1, <2>3, <3>2, <4>1, ExactKept
      <4>3. ~Borrowed(s) /\ Borrowed(s)'
        BY <2>1, <2>2 DEF Borrowed
      <4>4. Exact(s)'
        <5>1. us[s].ref \in Nat /\ leaked[s] \in Nat
          BY DEF TypeInv, TypeOK
        <5>2. us[s].ref = Flag(Owned(s)) + leaked[s]
          BY <1>0, <1>17, <4>3, <5>1, SMT DEF Exact, Flag
        <5> QED BY <2>1, <2>3, <3>2, <4>3, <5>1, <5>2, SMT DEF Exact, Flag
      <4> QED BY <4>2, <4>4 DEF RefsExact, Exact
    <3> QED BY <2>3, <3>3, <3>4 DEF SafeInv
  <2> QED BY <2>4, <2>5
<1>18. CASE ~undefined /\ Use
  <2>1. PICK s \in Session :
        /\ s = rpc.s /\ rpc.pc = "use" /\ UNCHANGED <<ps, nc, us>> /\ Range(ps)' = Range(ps)
    BY <1>18 DEF Use, TypeInv, TypeOK, RpcState, Busy
  <2>2. CASE RpcReply /\ leaked' = [leaked EXCEPT ![s] = leaked[s] + 1]
    <3>1. /\ Unopened' /\ Opening' /\ Waiting' /\ EndsOnce' /\ Answers'
          /\ \A w \in Worker : work'[w].s = work[w].s
                               /\ (work'[w].pc \in {"new", "add"} => work'[w].pc = work[w].pc)
          /\ \A x \in Session : (Owned(x)' <=> Owned(x)) /\ ~Borrowed(x)'
      BY <2>1, <2>2, ReplySafe
    <3>2. leaked'[s] = leaked[s] + 1 /\ \A x \in Session \ {s} : leaked'[x] = leaked[x]
      BY <2>2 DEF TypeInv, TypeOK
    <3>3. Unleaked'
      <4>1. nc[s] # "none" /\ \A w \in Worker : work[w].pc \in {"new", "add"} => work[w].s # s
        BY <2>1 DEF SafeInv, Unopened, Opening
      <4> QED BY <1>a, <2>1, <3>1, <3>2, <4>1, SMT DEF SafeInv, Unleaked
    <3>4. Polled'
      BY <2>1 DEF SafeInv, Polled
    <3>5. RefsExact'
      <4>1. \A x \in Session \ {s} : ~Borrowed(x)
        BY <2>1 DEF Borrowed
      <4>2. \A x \in Session \ {s} : Exact(x)'
        BY <1>0, <1>18, <2>1, <3>1, <3>2, <4>1, ExactKept
      <4>3. Exact(s)'
        <5>1. us[s].ref \in Nat /\ leaked[s] \in Nat
          BY DEF TypeInv, TypeOK
        <5>2. us[s].ref = Flag(Owned(s)) + 1 + leaked[s]
          BY <1>0, <1>18, <2>1 DEF Exact, Flag, Borrowed
        <5> QED BY <1>0, <1>18, <2>1, <3>1, <3>2, <5>1, <5>2, SMT DEF Exact, Flag
      <4> QED BY <4>2, <4>3 DEF RefsExact, Exact
    <3> QED BY <3>1, <3>3, <3>4, <3>5 DEF SafeInv
  <2>3. CASE rpc' = [rpc EXCEPT !.pc = "release"] /\ UNCHANGED <<work, reported, leaked>>
    <3>1. rpc'.s = rpc.s /\ rpc'.by = rpc.by /\ rpc'.pc = "release"
      BY <2>3 DEF TypeInv, TypeOK, RpcState
    <3>2. /\ Unopened' /\ Opening' /\ Waiting' /\ EndsOnce' /\ Answers'
          /\ \A x \in Session : Owned(x)' <=> Owned(x)
      BY <2>1, <2>3, <3>1, RpcMoves
    <3>3. Unleaked' /\ Polled'
      BY <2>1, <2>3 DEF SafeInv, Unleaked, Polled
    <3>4. RefsExact'
      <4>1. \A x \in Session : Borrowed(x)' <=> Borrowed(x)
        BY <2>1, <3>1 DEF Borrowed
      <4>2. \A x \in Session : Exact(x)'
        BY <1>0, <1>18, <2>1, <2>3, <3>2, <4>1, ExactKept
      <4> QED BY <4>2 DEF RefsExact, Exact
    <3> QED BY <3>2, <3>3, <3>4 DEF SafeInv
  <2> QED BY <1>18, <2>1, <2>2, <2>3 DEF Use
<1>19. CASE ~undefined /\ ReleaseRef
  <2>1. PICK s \in Session :
        /\ s = rpc.s /\ rpc.pc = "release" /\ UNCHANGED <<ps, nc, leaked>>
        /\ Range(ps)' = Range(ps) /\ Unref(s) /\ RpcReply
    BY <1>19 DEF ReleaseRef, TypeInv, TypeOK, RpcState, Busy
  <2>2. /\ Unopened' /\ Opening' /\ Waiting' /\ EndsOnce' /\ Answers'
        /\ \A w \in Worker : work'[w].s = work[w].s
                             /\ (work'[w].pc \in {"new", "add"} => work'[w].pc = work[w].pc)
        /\ \A x \in Session : (Owned(x)' <=> Owned(x)) /\ ~Borrowed(x)'
    BY <2>1, ReplySafe
  <2>3. Borrowed(s) /\ us[s].ref > 0 /\ us[s].st = "alive"
    BY <1>19, <2>1, Referenced DEF Borrowed, SafeInv
  <2>4. /\ us'[s].ref = us[s].ref - 1
        /\ us'[s].st = IF us[s].ref = 1 THEN "freed" ELSE "alive"
        /\ \A x \in Session \ {s} : us'[x] = us[x]
    BY <2>1, <2>3, Unreferenced
  <2>5. /\ us[s].ref \in Nat /\ leaked[s] \in Nat
        /\ us[s].ref = Flag(Owned(s)) + 1 + leaked[s]
    BY <1>0, <1>19, <2>3 DEF Exact, Flag, TypeInv, TypeOK
  <2>6. Unleaked'
    BY <2>1, <2>2 DEF SafeInv, Unleaked
  <2>7. Polled'
    <3>1. s \in Range(ps) => us[s].ref > 1
      BY <2>5, SMT DEF Owned, Flag
    <3> QED BY <1>0, <2>1, <2>4, <3>1, SMT DEF SafeInv, Polled
  <2>8. RefsExact'
    <3>1. \A x \in Session \ {s} : ~Borrowed(x)
      BY <2>1 DEF Borrowed
    <3>2. \A x \in Session \ {s} : Exact(x)'
      BY <1>0, <1>19, <2>1, <2>2, <2>4, <3>1, ExactKept
    <3>3. Exact(s)'
      <4>1. Flag(Owned(s))' = Flag(Owned(s)) /\ Flag(Borrowed(s))' = 0 /\ leaked'[s] = leaked[s]
        BY <2>1, <2>2 DEF Flag
      <4>2. Flag(Owned(s)) \in Nat
        BY SMT DEF Flag
      <4>3. /\ us'[s].ref = Flag(Owned(s)) + 0 + leaked[s]
            /\ us'[s].ref > 0 <=> us[s].ref # 1
        BY ONLY <2>4, <2>5, <4>2, SMT
      <4> QED BY <2>4, <4>1, <4>3 DEF Exact
    <3> QED BY <3>2, <3>3 DEF RefsExact, Exact
  <2> QED BY <2>2, <2>6, <2>7, <2>8 DEF SafeInv
<1>20. CASE ~undefined /\ Kill
  <2>1. /\ rpc.pc = "kill" /\ UNCHANGED <<ps, nc, us, leaked>> /\ RpcReply
        /\ Range(ps)' = Range(ps)
    BY <1>20 DEF Kill
  <2>2. /\ Unopened' /\ Opening' /\ Waiting' /\ EndsOnce' /\ Answers'
        /\ \A w \in Worker : work'[w].s = work[w].s
                             /\ (work'[w].pc \in {"new", "add"} => work'[w].pc = work[w].pc)
        /\ \A x \in Session : (Owned(x)' <=> Owned(x)) /\ ~Borrowed(x)'
    BY <2>1, ReplySafe
  <2>3. Unleaked' /\ Polled'
    BY <2>1, <2>2 DEF SafeInv, Unleaked, Polled
  <2>4. RefsExact'
    <3>1. \A x \in Session : ~Borrowed(x)
      BY <2>1 DEF Borrowed
    <3>2. \A x \in Session : Exact(x)'
      BY <1>0, <1>20, <2>1, <2>2, <3>1, ExactKept
    <3> QED BY <3>2 DEF RefsExact, Exact
  <2> QED BY <2>2, <2>3, <2>4 DEF SafeInv
<1>21. CASE (~undefined /\ \E s \in Session : StopTime(s)) \/ UNCHANGED vars
  <2>1. UNCHANGED <<ps, nc, us, leaked, reported, work, rpc>> /\ (undefined' \/ ~undefined)
        /\ Range(ps)' = Range(ps)
    BY <1>21, SMT DEF StopTime, vars
  <2>2. Unopened' /\ Opening' /\ Unleaked' /\ Polled'
    BY <2>1 DEF SafeInv, Unopened, Opening, Unleaked, Polled
  <2>3. Waiting' /\ EndsOnce' /\ Answers'
    BY <2>1 DEF SafeInv, Waiting, EndsOnce, Ending, Answers
  <2>4. RefsExact'
    BY <2>1 DEF SafeInv, RefsExact, Owned, Borrowed
  <2> QED BY <2>2, <2>3, <2>4 DEF SafeInv
<1> QED
  BY <1>1, <1>2, <1>3, <1>4, <1>5, <1>6, <1>7, <1>8, <1>9, <1>10, <1>11, <1>12, <1>13, <1>14,
     <1>15, <1>16, <1>17, <1>18, <1>19, <1>20, <1>21
     DEF Next, WorkerStep, RpcStep

LEMMA Safety == Spec => [](TypeInv /\ SafeInv)
<1>1. Init => TypeInv /\ SafeInv
  BY InitType, InitSafe
<1>2. TypeInv /\ SafeInv /\ [Next]_vars => TypeInv' /\ SafeInv'
  BY StepType, StepSafe
<1> QED BY <1>1, <1>2, PTL DEF Spec

(* The variables of the session threads keep their types, and no session   *)
(* is polled twice (nc_ps_add_session, nc_ps_del_session), whatever the    *)
(* workers, the callback thread and the failing calls do.                  *)
THEOREM TypeCorrect == Spec => []TypeOK
<1>1. TypeInv /\ SafeInv => TypeOK
  BY DEF TypeInv
<1> QED BY <1>1, Safety, PTL

(* ref_count of a user session counts exactly those who will release it    *)
(* and those who forgot to, and the session is freed when the last one     *)
(* lets go (np_get_user_sess, np_release_user_sess), for any number of     *)
(* sessions and workers: the owner and the callback never free it under    *)
(* one another.                                                            *)
THEOREM ReferencesAreExact == Spec => []RefsExact
<1>1. TypeInv /\ SafeInv => RefsExact
  BY DEF SafeInv
<1> QED BY <1>1, Safety, PTL

(* A worker that waits in np2srv_rpc_cb for the reply uses the user and    *)
(* the NETCONF session without a reference, and rightly: its session stays *)
(* in the poll list, and what is there is not freed.                       *)
THEOREM WaitingNeedsNoReference == Spec => []WaitingIsSafe
<1>1. TypeInv /\ SafeInv => WaitingIsSafe
  <2> SUFFICES ASSUME TypeInv, SafeInv PROVE WaitingIsSafe
    OBVIOUS
  <2>1. \A w \in Worker : work[w].pc = "wait" =>
            us[work[w].s].st = "alive" /\ nc[work[w].s] = "alive"
    BY DEF SafeInv, Waiting, Polled
  <2>2. rpc.by # None => rpc.by \in Worker /\ work[rpc.by].pc = "wait" /\ work[rpc.by].s = rpc.s
    BY DEF SafeInv, Answers, TypeInv, TypeOK, RpcState
  <2> QED BY <2>1, <2>2 DEF WaitingIsSafe
<1> QED BY <1>1, Safety, PTL
==============================================================================
