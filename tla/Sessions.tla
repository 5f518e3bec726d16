------------------------------ MODULE Sessions ------------------------------
(***************************************************************************)
(* NETCONF sessions and the sysrepo session each of them owns: the worker  *)
(* threads that accept, poll and delete sessions (main.c), the RPC         *)
(* callback thread that borrows the user session by reference count        *)
(* (common.c), and the list of monitored sessions (netconf_monitoring.c).  *)
(*                                                                         *)
(* A worker that got an RPC waits for the callback until a timeout; the    *)
(* callback goes on after it.  Memory that was freed and is used again is  *)
(* undefined behaviour: the flag undefined is set and nothing follows.     *)
(***************************************************************************)
EXTENDS Naturals, Sequences, Functions

CONSTANTS
    Session,    \* NETCONF sessions ever opened
    Worker,     \* worker threads (NP2SRV_THREAD_COUNT)
    None,       \* no session, no worker
    MaxRpcs,    \* bound on the number of RPCs received
    MaxFaults,  \* bound on failing calls
    MaxTimeouts \* bound on RPCs that time out

ASSUME SessionsAssumption ==
    /\ None \notin Session /\ None \notin Worker
    /\ MaxRpcs \in Nat /\ MaxFaults \in Nat /\ MaxTimeouts \in Nat

VARIABLES
    ps,         \* np2srv.nc_ps, the sessions polled
    nc,         \* the struct nc_session of each session
    us,         \* its struct np2_user_sess: state and ref_count
    stats,      \* the sessions of netconf_monitoring.c
    dead,       \* sessions killed, closed or dropped
    reported,   \* sessions some nc_ps_poll has returned as terminated
    subscribed, \* sessions whose notif_status is not zero
    active,     \* sessions with sysrepo subscriptions of create-subscription
    work,       \* the worker threads
    rpc,        \* the RPC callback thread
    rpcs, faults, timeouts,
    undefined,  \* freed memory was used
    leaked      \* references to the user session nobody will release

vars == <<ps, nc, us, stats, dead, reported, subscribed, active, work, rpc, rpcs, faults,
          timeouts, undefined, leaked>>

life  == <<nc, us, leaked>>
poll  == <<ps, dead, reported>>
subs  == <<subscribed, active>>
bound == <<rpcs, faults, timeouts>>

-----------------------------------------------------------------------------
Idle == [pc |-> "idle", s |-> None, kind |-> "none", target |-> None, taken |-> FALSE,
         term |-> FALSE]

NoRpc == [pc |-> "idle", s |-> None, kind |-> "none", target |-> None, i |-> 1,
          found |-> None, by |-> None]

Kinds == {"data", "subscribe", "kill"}

WorkState == [pc : {"idle", "new", "add", "start", "wait", "count", "delps", "unsub",
                    "release", "unmon", "free"},
              s : Session \cup {None}, kind : Kinds \cup {"none"},
              target : Session \cup {None}, taken : BOOLEAN, term : BOOLEAN]

RpcState == [pc : {"idle", "lookup", "match", "ref", "use", "release", "kill"},
             s : Session \cup {None}, kind : Kinds \cup {"none"},
             target : Session \cup {None}, i : Nat,
             found : Session \cup {None}, by : Worker \cup {None}]

(* Type invariant. *)
TypeOK ==
    /\ ps \in Seq(Session) /\ IsInjective(ps)
    /\ nc \in [Session -> {"none", "alive", "freed"}]
    /\ us \in [Session -> [st : {"none", "alive", "freed"}, ref : Nat]]
    /\ stats \subseteq Session /\ dead \subseteq Session
    /\ reported \subseteq Session /\ subscribed \subseteq Session /\ active \subseteq Session
    /\ work \in [Worker -> WorkState]
    /\ rpc \in RpcState
    /\ rpcs \in 0..MaxRpcs /\ faults \in 0..MaxFaults /\ timeouts \in 0..MaxTimeouts
    /\ undefined \in BOOLEAN
    /\ leaked \in [Session -> Nat]

Init ==
    /\ ps = <<>>
    /\ nc = [s \in Session |-> "none"]
    /\ us = [s \in Session |-> [st |-> "none", ref |-> 0]]
    /\ stats = {} /\ dead = {} /\ reported = {} /\ subscribed = {} /\ active = {}
    /\ work = [w \in Worker |-> Idle]
    /\ rpc = NoRpc
    /\ rpcs = 0 /\ faults = 0 /\ timeouts = 0
    /\ undefined = FALSE
    /\ leaked = [s \in Session |-> 0]

Fault == faults < MaxFaults /\ faults' = faults + 1 /\ UNCHANGED <<rpcs, timeouts>>

WGoto(w, p) == work' = [work EXCEPT ![w].pc = p]
WIdle(w)    == work' = [work EXCEPT ![w] = Idle]

(* nc_ps_poll returns to worker w after the RPC of s: a session that was   *)
(* killed meanwhile is reported as terminated with it.                     *)
PollReturns(w, s) ==
    /\ work' = [work EXCEPT ![w].pc = "count", ![w].term = s \in dead]
    /\ reported' = IF s \in dead THEN reported \cup {s} ELSE reported

(* A session in ps that no worker has locked to process its RPC. *)
Pollable(s) ==
    /\ s \in Range(ps) \ reported
    /\ \A w \in Worker : work[w].s = s => work[w].pc # "wait"

(* np_release_user_sess: the last reference frees the user session.        *)
Unref(s) ==
    us' = [us EXCEPT ![s] = IF us[s].ref = 1 THEN [st |-> "freed", ref |-> 0]
                            ELSE [st |-> us[s].st, ref |-> us[s].ref - 1]]

-----------------------------------------------------------------------------
(* Worker threads *)

(* nc_accept, and the start of np2srv_new_session_cb: ncm_session_add.     *)
Accept(w, s) ==
    /\ work[w].pc = "idle" /\ nc[s] = "none"
    /\ nc' = [nc EXCEPT ![s] = "alive"]
    /\ stats' = stats \cup {s}
    /\ work' = [work EXCEPT ![w] = [Idle EXCEPT !.pc = "new", !.s = s]]
    /\ UNCHANGED <<us, leaked, poll, subs, rpc, bound, undefined>>

(* The error path of np2srv_new_session_cb and its caller. *)
Abandon(w, s) ==
    /\ stats' = stats \ {s}
    /\ nc' = [nc EXCEPT ![s] = "freed"]
    /\ WIdle(w)

(* Start a sysrepo session and allocate the user session. *)
NewUserSess(w) ==
    LET s == work[w].s IN
    /\ work[w].pc = "new"
    /\ \/ /\ us' = [us EXCEPT ![s] = [st |-> "alive", ref |-> 1]]
          /\ WGoto(w, "add") /\ UNCHANGED <<nc, stats, bound>>
       \/ Fault /\ Abandon(w, s) /\ UNCHANGED us
    /\ UNCHANGED <<leaked, poll, subs, rpc, undefined>>

(* Mutant: a session is added again by the next attempt. *)
AddSessionTwice(w) ==
    /\ work[w].pc = "add"
    /\ ps' = ps \o <<work[w].s, work[w].s>>
    /\ WGoto(w, "start")
    /\ UNCHANGED <<life, dead, reported, stats, subs, rpc, bound, undefined>>

(* nc_ps_add_session, given up after three attempts. *)
AddSession(w) ==
    LET s == work[w].s IN
    /\ work[w].pc = "add"
    /\ \/ /\ ps' = Append(ps, s)
          /\ WGoto(w, "start") /\ UNCHANGED <<nc, us, stats, bound>>
       \/ /\ Fault /\ Abandon(w, s)
          /\ us' = [us EXCEPT ![s] = [st |-> "freed", ref |-> 0]]
          /\ UNCHANGED ps
    /\ UNCHANGED <<leaked, dead, reported, subs, rpc, undefined>>

(* The netconf-session-start notification is filled in from a session that *)
(* other workers poll already.                                             *)
NotifyStart(w) ==
    /\ work[w].pc = "start"
    /\ undefined' = (nc[work[w].s] = "freed")
    /\ WIdle(w)
    /\ UNCHANGED <<life, poll, stats, subs, rpc, bound>>

(* nc_ps_poll reads an RPC and np2srv_rpc_cb sends it to sysrepo, which    *)
(* uses the user session of s until the reply or the timeout.              *)
PollRpc(w, s, kind, target) ==
    /\ work[w].pc = "idle" /\ Pollable(s) /\ s \notin dead
    /\ rpcs < MaxRpcs /\ rpcs' = rpcs + 1
    /\ kind = "kill" <=> target # None
    /\ work' = [work EXCEPT ![w] = [pc |-> "wait", s |-> s, kind |-> kind,
                                    target |-> target, taken |-> FALSE, term |-> FALSE]]
    /\ UNCHANGED <<life, poll, stats, subs, rpc, faults, timeouts, undefined>>

(* An RPC that is malformed, or that NACM denies: the callback never runs. *)
PollBadRpc(w, s) ==
    /\ work[w].pc = "idle" /\ Pollable(s) /\ s \notin dead
    /\ rpcs < MaxRpcs /\ rpcs' = rpcs + 1
    /\ work' = [work EXCEPT ![w] = [Idle EXCEPT !.pc = "count", !.s = s]]
    /\ UNCHANGED <<life, poll, stats, subs, rpc, faults, timeouts, undefined>>

(* close-session, which libnetconf2 handles by itself. *)
PollClose(w, s) ==
    /\ work[w].pc = "idle" /\ Pollable(s) /\ s \notin dead
    /\ dead' = dead \cup {s} /\ reported' = reported \cup {s}
    /\ work' = [work EXCEPT ![w] = [Idle EXCEPT !.pc = "count", !.s = s, !.term = TRUE]]
    /\ UNCHANGED <<life, ps, stats, subs, rpc, bound, undefined>>

(* sr_rpc_send_tree times out.  A request not yet taken is withdrawn, the  *)
(* callback of one that was goes on without a receiver.                    *)
RpcTimeout(w) ==
    /\ work[w].pc = "wait" /\ timeouts < MaxTimeouts /\ timeouts' = timeouts + 1
    /\ PollReturns(w, work[w].s)
    /\ rpc' = IF rpc.by = w THEN [rpc EXCEPT !.by = None] ELSE rpc
    /\ UNCHANGED <<life, ps, dead, stats, subs, rpcs, faults, undefined>>

(* ncm_session_rpc and the like, after nc_ps_poll has let s go again.      *)
(* find_session_idx answers 0 for a session it does not find.              *)
Count(w) ==
    LET s == work[w].s IN
    /\ work[w].pc = "count"
    /\ undefined' = (nc[s] = "freed")
    /\ IF work[w].term THEN WGoto(w, "delps") ELSE WIdle(w)
    /\ UNCHANGED <<life, poll, stats, subs, rpc, bound>>

(* nc_ps_poll finds s closed, dropped, timed out or killed, and reports it *)
(* to this worker only.                                                    *)
PollTerm(w, s) ==
    /\ work[w].pc = "idle" /\ Pollable(s)
    /\ dead' = dead \cup {s} /\ reported' = reported \cup {s}
    /\ work' = [work EXCEPT ![w] = [Idle EXCEPT !.pc = "delps", !.s = s]]
    /\ UNCHANGED <<life, ps, stats, subs, rpc, bound, undefined>>

(* np2srv_del_session_cb: nc_ps_del_session puts the last session in the   *)
(* place of the one removed, ...                                           *)
DelPs(w) ==
    LET s == work[w].s IN
    /\ work[w].pc = "delps"
    /\ ps' = [i \in 1 .. Len(ps) - 1 |-> IF ps[i] = s THEN ps[Len(ps)] ELSE ps[i]]
    /\ WGoto(w, "unsub")
    /\ UNCHANGED <<life, dead, reported, stats, subs, rpc, bound, undefined>>

(* ... then its subscriptions are stopped, through the user session (this  *)
(* leaves notif_status alone), ...                                         *)
Unsubscribe(w) ==
    /\ work[w].pc = "unsub"
    /\ undefined' = (us[work[w].s].st # "alive")
    /\ active' = active \ {work[w].s}
    /\ WGoto(w, "release")
    /\ UNCHANGED <<life, poll, stats, subscribed, rpc, bound>>

(* ... the user session is released, ...                                   *)
DelRelease(w) ==
    /\ work[w].pc = "release"
    /\ Unref(work[w].s)
    /\ WGoto(w, "unmon")
    /\ UNCHANGED <<nc, leaked, poll, stats, subs, rpc, bound, undefined>>

(* ... ncm_session_del, and nc_session_free.                               *)
Unmonitor(w) ==
    /\ work[w].pc = "unmon"
    /\ stats' = stats \ {work[w].s}
    /\ WGoto(w, "free")
    /\ UNCHANGED <<life, poll, subs, rpc, bound, undefined>>

FreeSession(w) ==
    /\ work[w].pc = "free"
    /\ nc' = [nc EXCEPT ![work[w].s] = "freed"]
    /\ WIdle(w)
    /\ UNCHANGED <<us, leaked, poll, stats, subs, rpc, bound, undefined>>

WorkerStep(w) ==
    \/ NewUserSess(w) \/ AddSession(w) \/ NotifyStart(w) \/ Count(w) \/ DelPs(w)
    \/ Unsubscribe(w) \/ DelRelease(w) \/ Unmonitor(w) \/ FreeSession(w)

-----------------------------------------------------------------------------
(* The RPC callback thread *)

(* The callback ends: a worker that still waits gets the reply. *)
RpcReply ==
    /\ rpc' = NoRpc
    /\ IF rpc.by = None THEN UNCHANGED <<work, reported>> ELSE PollReturns(rpc.by, rpc.s)

Take(w) ==
    /\ rpc.pc = "idle" /\ work[w].pc = "wait" /\ ~work[w].taken
    /\ work' = [work EXCEPT ![w].taken = TRUE]
    /\ rpc' = [NoRpc EXCEPT !.pc = "lookup", !.s = work[w].s, !.kind = work[w].kind,
                            !.target = work[w].target, !.by = w]
    /\ UNCHANGED <<life, poll, stats, subs, bound, undefined>>

(* The session looked for: the originator, or the one to kill. *)
Wanted == IF rpc.kind = "kill" THEN rpc.target ELSE rpc.s

KillsItself == rpc.kind = "kill" /\ rpc.target = rpc.s

(* np_get_nc_sess_by_id and the loop of np2srv_rpc_kill_cb: take one       *)
(* session of ps after the other, which nc_ps_get_session returns without  *)
(* a lock, ...                                                             *)
Lookup ==
    /\ rpc.pc = "lookup"
    /\ \/ (KillsItself \/ rpc.i > Len(ps)) /\ RpcReply
       \/ /\ ~KillsItself /\ rpc.i <= Len(ps)
          /\ rpc' = [rpc EXCEPT !.pc = "match", !.found = ps[rpc.i]]
          /\ UNCHANGED <<work, reported>>
    /\ UNCHANGED <<life, ps, dead, stats, subs, bound, undefined>>

(* ... and read its ID.                                                    *)
Match ==
    /\ rpc.pc = "match"
    /\ undefined' = (nc[rpc.found] = "freed")
    /\ rpc' = IF rpc.found # Wanted
              THEN [rpc EXCEPT !.pc = "lookup", !.found = None, !.i = @ + 1]
              ELSE [rpc EXCEPT !.pc = IF rpc.kind = "kill" THEN "kill" ELSE "ref"]
    /\ UNCHANGED <<life, poll, stats, subs, work, bound>>

(* Mutant: the user session is borrowed without counting the reference. *)
TakeRefUncounted ==
    /\ rpc.pc = "ref"
    /\ rpc' = [rpc EXCEPT !.pc = "use"]
    /\ UNCHANGED <<life, poll, stats, subs, work, bound, undefined>>

(* np_get_user_sess takes the reference, of a session that may be gone.    *)
TakeRef ==
    LET s == rpc.s IN
    /\ rpc.pc = "ref"
    /\ IF nc[s] = "alive" /\ us[s].st = "alive"
       THEN us' = [us EXCEPT ![s].ref = @ + 1] /\ UNCHANGED undefined
       ELSE undefined' = TRUE /\ UNCHANGED us
    /\ rpc' = [rpc EXCEPT !.pc = "use"]
    /\ UNCHANGED <<nc, leaked, poll, stats, subs, work, bound>>

(* Mutant: an error path of the callback releases the reference, which the *)
(* cleanup then releases again.                                            *)
UseReleases ==
    /\ rpc.pc = "use"
    /\ Unref(rpc.s)
    /\ rpc' = [rpc EXCEPT !.pc = "release"]
    /\ UNCHANGED <<nc, leaked, poll, stats, subs, work, bound, undefined>>

(* The body of the callback.  create-subscription also uses the NETCONF    *)
(* session, which has no reference count.  For a session that is           *)
(* subscribed already it returns without np_release_user_sess.             *)
Use ==
    LET s == rpc.s IN
    /\ rpc.pc = "use"
    /\ undefined' = (us[s].st # "alive" \/ (rpc.kind = "subscribe" /\ nc[s] = "freed"))
    /\ \/ /\ rpc.kind = "subscribe" /\ s \in subscribed
          /\ leaked' = [leaked EXCEPT ![s] = @ + 1]
          /\ RpcReply /\ UNCHANGED subs
       \/ /\ rpc.kind = "subscribe" /\ s \notin subscribed
          /\ subscribed' = subscribed \cup {s} /\ active' = active \cup {s}
          /\ rpc' = [rpc EXCEPT !.pc = "release"]
          /\ UNCHANGED <<work, reported, leaked>>
       \/ /\ rpc.kind = "subscribe" => s \notin subscribed    \* and it fails
          /\ rpc' = [rpc EXCEPT !.pc = "release"]
          /\ UNCHANGED <<work, reported, leaked, subs>>
    /\ UNCHANGED <<nc, us, ps, dead, stats, bound>>

(* Mutant: the callback returns without releasing its reference. *)
ReleaseRefForgotten ==
    /\ rpc.pc = "release"
    /\ RpcReply
    /\ UNCHANGED <<life, ps, dead, stats, subs, bound, undefined>>

(* np_release_user_sess at the end of the callback. *)
ReleaseRef ==
    /\ rpc.pc = "release"
    /\ Unref(rpc.s)
    /\ RpcReply
    /\ UNCHANGED <<nc, leaked, ps, dead, stats, subs, bound, undefined>>

(* np2srv_rpc_kill_cb marks the session found. *)
Kill ==
    /\ rpc.pc = "kill"
    /\ undefined' = (nc[rpc.target] = "freed")
    /\ dead' = dead \cup {rpc.target}
    /\ RpcReply
    /\ UNCHANGED <<life, ps, stats, subs, bound>>

(* np2srv_rpc_subscribe_ntf_cb at the stop time, while the sysrepo session *)
(* exists: notif_status is decremented only if NACM allows                 *)
(* notificationComplete and it is sent.                                    *)
StopTime(s) ==
    /\ s \in active /\ us[s].st = "alive"
    /\ undefined' = (nc[s] = "freed")
    /\ active' = active \ {s}
    /\ subscribed' = subscribed \ {s} \/ UNCHANGED subscribed
    /\ UNCHANGED <<life, poll, stats, work, rpc, bound>>

RpcStep == Lookup \/ Match \/ TakeRef \/ Use \/ ReleaseRef \/ Kill \/ \E w \in Worker : Take(w)

-----------------------------------------------------------------------------
Next ==
    /\ ~undefined
    /\ \/ \E w \in Worker : WorkerStep(w) \/ RpcTimeout(w)
       \/ \E w \in Worker, s \in Session :
            Accept(w, s) \/ PollBadRpc(w, s) \/ PollClose(w, s) \/ PollTerm(w, s)
       \/ \E w \in Worker, s \in Session, k \in Kinds, t \in Session \cup {None} :
            PollRpc(w, s, k, t)
       \/ \E s \in Session : StopTime(s)
       \/ RpcStep

Spec == Init /\ [][Next]_vars

(* Threads that can run do run, and some worker polls a session that died. *)
Fairness ==
    /\ WF_vars(~undefined /\ RpcStep)
    /\ \A w \in Worker : WF_vars(~undefined /\ WorkerStep(w))
    /\ \A s \in Session : WF_vars(~undefined /\ s \in dead /\ \E w \in Worker : PollTerm(w, s))

FairSpec == Spec /\ Fairness

-----------------------------------------------------------------------------
(* Properties that hold *)

Flag(b) == IF b THEN 1 ELSE 0

(* The session's own reference, held until np2srv_del_session_cb has       *)
(* released it.                                                            *)
Owned(s) == \/ s \in Range(ps)
            \/ \E w \in Worker : work[w].s = s /\ work[w].pc \in {"add", "delps", "unsub", "release"}

(* The callback thread holds a reference. *)
Borrowed(s) == rpc.s = s /\ rpc.pc \in {"use", "release"}

(* ref_count counts exactly the owner, the callback and what was leaked,   *)
(* whatever the order in which the session ends, the RPC times out and the *)
(* callback returns; and it is freed exactly when the count drops to zero. *)
RefsExact ==
    ~undefined => \A s \in Session :
        us[s].ref = Flag(Owned(s)) + Flag(Borrowed(s)) + leaked[s]
        /\ (us[s].ref > 0 <=> us[s].st = "alive")

(* np2srv_rpc_cb uses the user session with "no need to use ref-count":    *)
(* it and the NETCONF session outlive the wait for the reply, and so does  *)
(* what the callback looks up for a worker that still waits.               *)
WaitingIsSafe ==
    /\ \A w \in Worker : work[w].pc = "wait" =>
            us[work[w].s].st = "alive" /\ nc[work[w].s] = "alive"
    /\ rpc.pc = "ref" /\ rpc.by # None => us[rpc.s].st = "alive" /\ nc[rpc.s] = "alive"

(* A session that ended is removed and freed, with every reference to it   *)
(* that was not leaked, also when its RPC timed out.                       *)
EndedIsFreed ==
    \A s \in Session :
        s \in dead ~> undefined \/ (nc[s] = "freed" /\ (us[s].st = "freed" \/ leaked[s] > 0))
=============================================================================
