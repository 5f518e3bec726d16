------------------------------- MODULE SubNtf -------------------------------
(***************************************************************************)
(* The registry of dynamic subscriptions (struct np2srv_sub_ntf_info), the *)
(* RPCs establish-, modify-, delete- and kill-subscription, the end of a   *)
(* session, changes of configured filters and sysrepo's notification       *)
(* thread, all of them working on one array under one read-write lock.     *)
(*                                                                         *)
(* A thread holds a subscription by its address, here its index in the     *)
(* array (0 once a realloc has moved the array).  sub_ntf_terminate_sub    *)
(* gives the lock up in the middle, which is where the threads meet.  Once *)
(* a thread has used a subscription that is gone, freed a subscription     *)
(* twice, or unlocked a lock it does not hold, "undefined" is set and      *)
(* nothing more is claimed.                                                *)
(*                                                                         *)
(* Left out: texts of notifications, their counters, replay, times.        *)
(***************************************************************************)
EXTENDS Integers, Sequences, FiniteSets, Functions

CONSTANTS
    Session,      \* NETCONF sessions; a session also names the worker ending it
    Module,       \* modules with notifications
    Streams,      \* sets of modules that a subscription is about: all of them for the
                  \* stream NETCONF, one for another stream, none for periodic yang-push
    Filter,       \* names of configured filters
    PushFilter,   \* those that are selection filters of yang-push
    None,
    MaxSubs, MaxChanges, MaxEnds, MaxFaults,
    MaxInputs     \* RPCs and changes of configured filters together

Types == {"ntf", "push"}
Thread == {"rpc", "data", "notif", "timer"} \cup Session
SrId == (1 .. MaxSubs) \X Module

ASSUME SubNtfAssumption ==
    /\ IsFiniteSet(Module) /\ Streams \subseteq SUBSET Module /\ PushFilter \subseteq Filter
    /\ None \notin Thread \cup Filter \cup SrId
    /\ Session \cap {"rpc", "data", "notif", "timer"} = {}
    /\ {MaxSubs, MaxChanges, MaxEnds, MaxFaults, MaxInputs} \subseteq Nat

VARIABLES
    subs,      \* info.subs[0 .. info.count - 1]
    lock,      \* writer of info.lock
    sidlock,   \* info.sub_id_lock
    nextId,    \* new_nc_sub_id
    sr,        \* sysrepo subscriptions, named by subscription and module
    owner,     \* session of each subscription ID, whose sysrepo session has subscribed
    status,    \* notif_status of libnetconf2's sessions
    sess,      \* "running", "ending" (removed from nc_ps), "gone" (freed)
    th,        \* what each thread is doing
    filters,   \* version of each configured filter, 0 if there is none
    change,    \* change of a filter that the data thread has to handle
    rpcs, faults, changes,
    undefined,
    leaked,    \* history: sysrepo subscriptions of yang-push that could not be removed
    missed,    \* history: subscriptions a loop over the array passed by or sysrepo could not change
    miskilled  \* history: a yang-push subscription was killed by another session

vars == <<subs, lock, sidlock, nextId, sr, owner, status, sess, th, filters, change, rpcs, faults,
          changes, undefined, leaked, missed, miskilled>>
bound == <<rpcs, faults, changes>>
hist == <<undefined, leaked, missed, miskilled>>
config == <<filters, change>>

Idle == [pc |-> "idle", id |-> 0, at |-> 0, by |-> None, ncs |-> None, req |-> <<>>, sr |-> None, cb |-> None, todo |-> {},
         left |-> 0, nodes |-> 0, inner |-> FALSE, nolock |-> FALSE]

Init ==
    /\ subs = <<>> /\ lock = None /\ sidlock = None /\ nextId = 1 /\ sr = {}
    /\ owner = [id \in 1 .. MaxSubs |-> None]
    /\ status = [s \in Session |-> 0] /\ sess = [s \in Session |-> "running"]
    /\ th = [t \in Thread |-> Idle]
    /\ filters = [f \in Filter |-> 1] /\ change = None
    /\ rpcs = 0 /\ faults = 0 /\ changes = 0
    /\ undefined = FALSE /\ leaked = {} /\ missed = {} /\ miskilled = FALSE

Rpc == rpcs + changes < MaxInputs /\ rpcs' = rpcs + 1 /\ UNCHANGED <<faults, changes>>
Fault == faults < MaxFaults /\ faults' = faults + 1 /\ UNCHANGED <<rpcs, changes>>

(* Thread t goes on in state r, or at p; a subscription is changed. *)
Become(t, r) == th' = [th EXCEPT ![t] = r]
Goto(t, p) == Become(t, [th[t] EXCEPT !.pc = p])
Put(i, e) == subs' = [subs EXCEPT ![i] = e]

(* An array without its element i, the ones behind it moved up; an array   *)
(* of the elements of S.                                                   *)
RemoveAt(s, i) == SubSeq(s, 1, i - 1) \o SubSeq(s, i + 1, Len(s))
SetToSeq(S) == CHOOSE s \in [1 .. Cardinality(S) -> S] : IsInjective(s)

(* sub_ntf_find: the indexes of subscription id, of session s unless None. *)
Found(id, s) == {i \in DOMAIN subs : subs[i].id = id /\ s \in {subs[i].nc, None}}

(* The lookup hands out a subscription that is being terminated: its       *)
(* sub_ids are NULL, and it is going to be freed by the other thread.      *)
Grant(i) == undefined' = subs[i].term

(***************************************************************************)
(* establish-subscription.                                                 *)
(***************************************************************************)

(* Mutant: the number is not counted up. *)
EstablishStartSameId(s, type, f) ==
    /\ th["rpc"] = Idle /\ sess[s] = "running" /\ nextId <= MaxSubs
    /\ f # None => (f \in PushFilter <=> type = "push")
    /\ Rpc
    /\ status' = [status EXCEPT ![s] = @ + 1]
    /\ owner' = [owner EXCEPT ![nextId] = s]
    /\ Become("rpc", [Idle EXCEPT !.pc = "establish", !.id = nextId, !.by = s, !.ncs = s,
                                  !.req = <<type, f>>])
    /\ UNCHANGED <<subs, lock, sidlock, nextId, sr, sess, config, hist>>

EstablishStart(s, type, f) ==
    /\ th["rpc"] = Idle /\ sess[s] = "running" /\ nextId <= MaxSubs
    /\ f # None => (f \in PushFilter <=> type = "push")
    /\ Rpc
    /\ status' = [status EXCEPT ![s] = @ + 1]
    /\ nextId' = nextId + 1
    /\ owner' = [owner EXCEPT ![nextId] = s]
    /\ Become("rpc", [Idle EXCEPT !.pc = "establish", !.id = nextId, !.by = s, !.ncs = s,
                                  !.req = <<type, f>>])
    /\ UNCHANGED <<subs, lock, sidlock, sr, sess, config, hist>>

(* nc_session_dec_notif_status. *)
DecStatus(s) == status' = [status EXCEPT ![s] = IF @ = 0 THEN 0 ELSE @ - 1]

(* Mutant: the count is not taken back. *)
EstablishErrorCounted == Become("rpc", Idle) /\ UNCHANGED status

(* The session's count of subscriptions is taken back and the RPC fails. *)
EstablishError ==
    /\ DecStatus(th["rpc"].ncs)
    /\ Become("rpc", Idle)

(* Under the lock: the filter it names does not exist, or a time is wrong. *)
EstablishRefuse ==
    LET f == th["rpc"].req[2] IN
    /\ th["rpc"].pc = "establish" /\ lock = None
    /\ IF f # None /\ filters[f] = 0 THEN UNCHANGED bound ELSE Fault
    /\ EstablishError
    /\ UNCHANGED <<subs, lock, sidlock, nextId, sr, sess, owner, config, hist>>

(* sysrepo cannot change the subscriptions of a context while its thread   *)
(* is in one of its callbacks, other than for the time it takes to send.   *)
NotifBlocked == th["notif"].pc \notin {"idle", "send"}
Changeable(type) == type = "ntf" => th["notif"].pc = "idle"

(* sub_ntf_new, with a realloc that may move the array, and the filter.    *)
EstablishNew ==
    LET r == th["rpc"]  f == r.req[2] IN
    /\ r.pc = "establish" /\ lock = None /\ lock' = "rpc"
    /\ f # None => filters[f] # 0
    /\ subs' = Append(subs, [id |-> r.id, nc |-> r.ncs, type |-> r.req[1], srs |-> <<>>,
                             term |-> FALSE, flt |-> f,
                             xp |-> IF f = None THEN 0 ELSE filters[f]])
    /\ \E moved \in BOOLEAN, todo \in Streams :
        /\ todo = {} => r.req[1] = "push"
        /\ th' = [t \in Thread |->
                  IF t = "rpc" THEN [r EXCEPT !.pc = "subscribe", !.todo = todo]
                  ELSE IF moved /\ th[t].pc \in {"sleep", "send"} THEN [th[t] EXCEPT !.at = 0]
                  ELSE th[t]]
    /\ UNCHANGED <<sidlock, nextId, sr, status, sess, owner, config, bound, hist>>

(* One more module is subscribed to ... *)
Subscribe(m) ==
    LET r == th["rpc"] IN
    /\ r.pc = "subscribe" /\ m \in r.todo /\ Changeable(r.req[1])
    /\ sr' = sr \cup {<<r.id, m>>}
    /\ Become("rpc", [r EXCEPT !.todo = r.todo \ {m}])
    /\ UNCHANGED <<subs, lock, sidlock, nextId, status, sess, owner, config, bound, hist>>

(* Mutant: the subscriptions made so far are left in sysrepo. *)
SubscribeFailsLeft ==
    LET r == th["rpc"] IN
    /\ r.pc = "subscribe" /\ r.todo # {}
    /\ IF r.req[1] = "ntf" /\ NotifBlocked THEN UNCHANGED bound ELSE Fault
    /\ subs' = SubSeq(subs, 1, Len(subs) - 1)
    /\ lock' = None
    /\ EstablishError
    /\ UNCHANGED <<sr, sidlock, nextId, sess, owner, config, hist>>

(* ... or not.  sr_unsubscribe_sub of a notification subscription calls    *)
(* the callback, which finds the lock taken by its own thread, goes on,    *)
(* and unlocks it; the thread then unlocks it again.                       *)
SubscribeFails ==
    LET r == th["rpc"]  made == {x \in sr : x[1] = r.id} IN
    /\ r.pc = "subscribe" /\ r.todo # {}
    /\ IF r.req[1] = "ntf" /\ NotifBlocked THEN UNCHANGED bound ELSE Fault
    /\ sr' = sr \ made
    /\ subs' = SubSeq(subs, 1, Len(subs) - 1)
    /\ lock' = None
    /\ undefined' = (made # {} /\ r.req[1] = "ntf")
    /\ EstablishError
    /\ UNCHANGED <<sidlock, nextId, sess, owner, config, leaked, missed, miskilled>>

EstablishDone ==
    LET r == th["rpc"] IN
    /\ r.pc = "subscribe" /\ r.todo = {}
    /\ Put(Len(subs), [subs[Len(subs)] EXCEPT !.srs = SetToSeq({x \in sr : x[1] = r.id})])
    /\ lock' = None
    /\ Become("rpc", Idle)
    /\ UNCHANGED <<sidlock, nextId, sr, status, sess, owner, config, bound, hist>>

(***************************************************************************)
(* The other RPCs.                                                         *)
(***************************************************************************)

(* modify-subscription: the filter is read again and replaced.  A stream   *)
(* subscription with a filter cannot lose it (strcmp with NULL).  The lock *)
(* is passed to each callback for a change and taken back, without a       *)
(* callback looking at it.  A change that sysrepo refuses fails the RPC.   *)
ModifySub(s, id, f) ==
    /\ th["rpc"] = Idle /\ sess[s] = "running" /\ lock = None /\ Rpc
    /\ \E i \in Found(id, s) :
        LET sub == subs[i]
            update == sub.type = "ntf" /\ (f = None \/ filters[f] # sub.xp) IN
        /\ f # None => (f \in PushFilter <=> sub.type = "push") /\ filters[f] # 0
        /\ undefined' = (sub.type = "ntf" /\ (sub.term \/ (f = None /\ sub.xp # 0)))
        /\ sidlock' = IF update THEN None ELSE sidlock
        /\ IF update /\ NotifBlocked THEN UNCHANGED subs
           ELSE Put(i, [sub EXCEPT !.flt = f, !.xp = IF f = None THEN sub.xp ELSE filters[f]])
    /\ UNCHANGED <<lock, nextId, sr, status, sess, owner, th, config, leaked, missed, miskilled>>

(* delete-subscription of an own subscription, kill-subscription of any. *)
RemoveSub(s, id, nc) ==
    /\ th["rpc"] = Idle /\ sess[s] = "running" /\ lock = None /\ Rpc
    /\ \E i \in Found(id, nc) :
        /\ Grant(i)
        /\ lock' = "rpc"
        /\ Become("rpc", [Idle EXCEPT !.pc = "term", !.id = id, !.at = i, !.by = s, !.ncs = s])
        /\ miskilled' = (miskilled \/ (subs[i].nc # s /\ subs[i].type = "push"))
    /\ UNCHANGED <<subs, sidlock, nextId, sr, status, sess, owner, config, leaked, missed>>

DeleteSub(s, id) == RemoveSub(s, id, s)
KillSub(s, id) == RemoveSub(s, id, None)

(***************************************************************************)
(* sub_ntf_terminate_sub by the thread that holds the lock.                *)
(***************************************************************************)

(* The lock is passed to the callback of the first sysrepo subscription,   *)
(* as many times as there were subscriptions to begin with.                *)
LockPass(t) ==
    LET r == th[t]  sub == subs[r.at] IN
    /\ r.pc = "term" /\ sub.type = "ntf" /\ sub.srs # <<>>
    /\ sidlock' = Head(sub.srs)
    /\ Become(t, [r EXCEPT !.pc = "unsub", !.inner = TRUE, !.cb = Head(sub.srs),
                           !.left = (IF r.inner THEN r.left ELSE Len(sub.srs)) - 1])
    /\ UNCHANGED <<subs, lock, nextId, sr, status, sess, owner, config, bound, hist>>

(* The lock is taken back, and the loop goes on or ends. *)
LockClear(t) ==
    /\ sidlock' = None
    /\ IF th[t].left > 0 THEN Goto(t, "term")
       ELSE Become(t, [th[t] EXCEPT !.pc = "done", !.inner = FALSE])

(* sr_unsubscribe_sub calls the callback, which takes its ID off the       *)
(* subscription and terminates it with the last one, for its own session.  *)
Unsubscribe(t) ==
    LET r == th[t]  rest == Tail(subs[r.at].srs) IN
    /\ r.pc = "unsub" /\ th["notif"].pc = "idle" /\ r.cb \in sr
    /\ sr' = sr \ {r.cb}
    /\ IF rest = <<>>
       THEN /\ Put(r.at, [subs[r.at] EXCEPT !.srs = <<>>, !.term = TRUE])
            /\ Become(t, [r EXCEPT !.pc = "sleep", !.ncs = subs[r.at].nc])
            /\ lock' = None /\ UNCHANGED sidlock
       ELSE /\ Put(r.at, [subs[r.at] EXCEPT !.srs = rest])
            /\ LockClear(t) /\ UNCHANGED lock
    /\ UNCHANGED <<nextId, status, sess, owner, config, bound, hist>>

(* sysrepo's thread waits for the lock in a callback of its own: the call  *)
(* times out and the subscription stays.  Or its stop time has just ended  *)
(* it and it is not found.                                                 *)
UnsubscribeFails(t) ==
    /\ th[t].pc = "unsub" /\ (NotifBlocked \/ th[t].cb \notin sr)
    /\ LockClear(t)
    /\ UNCHANGED <<subs, lock, nextId, sr, status, sess, owner, config, bound, hist>>

(* No (more) sysrepo subscriptions with a callback: those of yang-push are *)
(* removed, if they can be, the flag is set and the lock is given up.      *)
Terminating(t) ==
    LET sub == subs[th[t].at] IN
    /\ th[t].pc = "term" /\ (sub.type = "push" \/ sub.srs = <<>>)
    /\ \/ sr' = sr \ Range(sub.srs) /\ UNCHANGED <<bound, leaked>>
       \/ sub.srs # <<>> /\ Fault /\ leaked' = leaked \cup Range(sub.srs) /\ UNCHANGED sr
    /\ Put(th[t].at, [sub EXCEPT !.term = TRUE])
    /\ lock' = None
    /\ Goto(t, "sleep")
    /\ UNCHANGED <<sidlock, nextId, status, sess, owner, config, undefined, missed, miskilled>>

Relock(t) ==
    /\ th[t].pc = "sleep" /\ lock = None
    /\ lock' = t
    /\ Goto(t, "finish")
    /\ UNCHANGED <<subs, sidlock, nextId, sr, status, sess, owner, config, bound, hist>>

(* The subscription is announced as terminated, freed and taken out of the *)
(* array.  The callback then gives back the lock unless it was passed to   *)
(* it, and the passing thread asserts that the lock is still passed.       *)
Finish(t) ==
    LET r == th[t] IN
    /\ r.pc = "finish"
    /\ undefined' = \/ r.at \notin DOMAIN subs \/ sess[r.ncs] = "gone"
                    \/ subs[r.at].id # r.id
                    \/ (r.inner /\ sidlock # r.cb)
    /\ subs' = IF r.at \in DOMAIN subs THEN RemoveAt(subs, r.at) ELSE subs
    /\ DecStatus(r.ncs)
    /\ sidlock' = IF r.inner THEN None ELSE sidlock
    /\ Become(t, [r EXCEPT !.pc = "done", !.inner = FALSE])
    /\ UNCHANGED <<lock, nextId, sr, sess, owner, config, bound, leaked, missed, miskilled>>

RpcDone ==
    /\ th["rpc"].pc = "done"
    /\ lock' = None
    /\ Become("rpc", Idle)
    /\ UNCHANGED <<subs, sidlock, nextId, sr, status, sess, owner, config, bound, hist>>

NtfSubs == {x \in sr : \E i \in DOMAIN subs : subs[i].id = x[1] /\ subs[i].type = "ntf"}

(* The thread is suspended while establish-subscription subscribes. *)
Suspended == th["rpc"].pc = "subscribe" /\ th["rpc"].req[1] = "ntf"
             /\ \E x \in sr : x[1] = th["rpc"].id

(* The thread is back from a callback, for a session still ending. *)
CallbackEnd(t) == IF t \in Session THEN [Idle EXCEPT !.pc = "unsubs"] ELSE Idle

(***************************************************************************)
(* A session ends: np2srv_del_session_cb of a worker.  The worker is not   *)
(* free to do so while an RPC of the session is in progress.               *)
(***************************************************************************)

EndSession(s) ==
    /\ sess[s] = "running" /\ th["rpc"].by # s
    /\ Cardinality({x \in Session : sess[x] # "running"}) < MaxEnds
    /\ sess' = [sess EXCEPT ![s] = "ending"]
    /\ Goto(s, "wait")
    /\ UNCHANGED <<subs, lock, sidlock, nextId, sr, status, owner, config, bound, hist>>

SessionLock(s) ==
    /\ th[s].pc = "wait" /\ lock = None
    /\ lock' = s
    /\ Become(s, [th[s] EXCEPT !.pc = "scan", !.at = 1])
    /\ UNCHANGED <<subs, sidlock, nextId, sr, status, sess, owner, config, bound, hist>>

SessionLeft(s, i) == i >= th[s].at /\ subs[i].nc = s

(* np2srv_sub_ntf_session_destroy: the loop over the array goes on behind  *)
(* the index of the subscription it has just removed.                      *)
SessionScan(s) ==
    /\ th[s].pc = "scan"
    /\ \E i \in DOMAIN subs :
        /\ SessionLeft(s, i) /\ \A j \in 1 .. i - 1 : ~SessionLeft(s, j)
        /\ Grant(i)
        /\ Become(s, [th[s] EXCEPT !.pc = "term", !.at = i, !.id = subs[i].id, !.ncs = s])
    /\ UNCHANGED <<subs, lock, sidlock, nextId, sr, status, sess, owner, config, bound, leaked, missed,
                   miskilled>>

SessionScanEnds(s) ==
    /\ th[s].pc = "scan" /\ \A i \in DOMAIN subs : ~SessionLeft(s, i)
    /\ lock' = None
    /\ Become(s, [Idle EXCEPT !.pc = "unsubs"])
    /\ missed' = missed \cup {subs[i].id : i \in {j \in DOMAIN subs : subs[j].nc = s}}
    /\ UNCHANGED <<subs, sidlock, nextId, sr, status, sess, owner, config, bound, undefined, leaked,
                   miskilled>>

(* sr_session_unsubscribe: the sysrepo subscriptions that are left are     *)
(* removed; those of streams call their callback, with the lock not passed.*)
Left(s) == {x \in sr : owner[x[1]] = s}

SessionUnsubscribe(s) ==
    /\ th[s].pc = "unsubs" /\ th["notif"].pc = "idle"
    /\ \E x \in Left(s) :
         IF x \in NtfSubs
         THEN /\ Become(s, [Idle EXCEPT !.pc = "cb", !.sr = x, !.id = x[1], !.nolock = (sidlock = x)])
              /\ UNCHANGED sr
         ELSE sr' = sr \ {x} /\ UNCHANGED th
    /\ UNCHANGED <<subs, lock, sidlock, nextId, status, sess, owner, config, bound, hist>>

(* The session is freed. *)
SessionFree(s) ==
    /\ th[s].pc = "unsubs" /\ Left(s) = {}
    /\ sess' = [sess EXCEPT ![s] = "gone"]
    /\ Become(s, Idle)
    /\ UNCHANGED <<subs, lock, sidlock, nextId, sr, status, owner, config, bound, hist>>

SessionNext(s) ==
    /\ th[s].pc = "done" /\ th[s].sr = None
    /\ Become(s, [th[s] EXCEPT !.pc = "scan", !.at = th[s].at + 1])
    /\ UNCHANGED <<subs, lock, sidlock, nextId, sr, status, sess, owner, config, bound, hist>>

(***************************************************************************)
(* Configured filters: np2srv_config_sub_ntf_filters_cb.                   *)
(***************************************************************************)

(* The configuration is changed.  Creating a filter changes no             *)
(* subscription.                                                           *)
ConfigChange(f) ==
    /\ change = None /\ th["data"] = Idle
    /\ changes < MaxChanges /\ rpcs + changes < MaxInputs
    /\ changes' = changes + 1 /\ UNCHANGED <<rpcs, faults>>
    /\ \/ /\ filters' = [filters EXCEPT ![f] = changes + 2]
          /\ change' = IF filters[f] = 0 THEN None ELSE f
       \/ /\ filters[f] # 0 /\ filters' = [filters EXCEPT ![f] = 0]
          /\ change' = f
    /\ UNCHANGED <<subs, lock, sidlock, nextId, sr, status, sess, owner, th, hist>>

Uses(i, f) == subs[i].flt = f
Unmodifiable(i) == subs[i].type = "ntf" /\ subs[i].srs # <<>> /\ NotifBlocked

(* Mutant: only the first subscription gets the modified filter. *)
FilterModifiedFirst ==
    /\ change # None /\ filters[change] # 0 /\ th["data"] = Idle /\ lock = None
    /\ subs' = [i \in DOMAIN subs |-> IF /\ Uses(i, change) /\ ~Unmodifiable(i)
                                         /\ \A j \in 1 .. i - 1 : ~Uses(j, change)
                                      THEN [subs[i] EXCEPT !.xp = filters[change]] ELSE subs[i]]
    /\ missed' = missed \cup {subs[i].id : i \in {j \in DOMAIN subs : Uses(j, change) /\ Unmodifiable(j)}}
    /\ change' = None /\ sidlock' = None
    /\ UNCHANGED <<lock, nextId, sr, status, sess, owner, th, filters, bound, undefined, leaked,
                   miskilled>>

(* A modified filter is given to all the subscriptions that refer to it;   *)
(* one that sysrepo cannot change, its thread being in a callback, keeps   *)
(* the old one.  Whatever happened, the callback ends by clearing the      *)
(* passed lock.                                                            *)
FilterModified ==
    /\ change # None /\ filters[change] # 0 /\ th["data"] = Idle /\ lock = None
    /\ subs' = [i \in DOMAIN subs |-> IF Uses(i, change) /\ ~Unmodifiable(i)
                                      THEN [subs[i] EXCEPT !.xp = filters[change]] ELSE subs[i]]
    /\ missed' = missed \cup {subs[i].id : i \in {j \in DOMAIN subs : Uses(j, change) /\ Unmodifiable(j)}}
    /\ change' = None /\ sidlock' = None
    /\ UNCHANGED <<lock, nextId, sr, status, sess, owner, th, filters, bound, undefined, leaked,
                   miskilled>>

(* A deleted filter is met once for every node in it, key and content. *)
FilterDeleted ==
    /\ change # None /\ filters[change] = 0 /\ th["data"] = Idle /\ lock = None
    /\ lock' = "data"
    /\ \E nodes \in 1 .. 2 :
         Become("data", [Idle EXCEPT !.pc = "scan", !.at = 1, !.nodes = nodes])
    /\ UNCHANGED <<subs, sidlock, nextId, sr, status, sess, owner, config, bound, hist>>

FilterLeft(i) == i >= th["data"].at /\ Uses(i, change)

(* The subscriptions that refer to a deleted filter are terminated, each   *)
(* with the session found in nc_ps.                                        *)
FilterScan ==
    /\ th["data"].pc = "scan"
    /\ \E i \in DOMAIN subs :
        /\ FilterLeft(i) /\ \A j \in 1 .. i - 1 : ~FilterLeft(j)
        /\ sess[subs[i].nc] = "running"
        /\ Grant(i)
        /\ Become("data", [th["data"] EXCEPT !.pc = "term", !.at = i, !.id = subs[i].id,
                                             !.ncs = subs[i].nc])
    /\ UNCHANGED <<subs, lock, sidlock, nextId, sr, status, sess, owner, config, bound, leaked,
                   missed, miskilled>>

(* Mutant: the callback returns without unlocking. *)
FilterScanEndsLocked ==
    LET users == {i \in DOMAIN subs : FilterLeft(i)} IN
    /\ th["data"].pc = "scan"
    /\ \A i \in users : (\A j \in users : i <= j) => sess[subs[i].nc] # "running"
    /\ change' = None /\ sidlock' = None
    /\ Become("data", Idle)
    /\ UNCHANGED <<subs, lock, nextId, sr, status, sess, owner, filters, bound, hist>>

(* No subscription is left, or its session is not in nc_ps any more: then  *)
(* the rest of the array and of the changes is given up.                   *)
FilterScanEnds ==
    LET users == {i \in DOMAIN subs : FilterLeft(i)} IN
    /\ th["data"].pc = "scan"
    /\ \A i \in users : (\A j \in users : i <= j) => sess[subs[i].nc] # "running"
    /\ IF users = {} /\ th["data"].nodes > 1
       THEN /\ Become("data", [th["data"] EXCEPT !.at = 1, !.nodes = th["data"].nodes - 1])
            /\ UNCHANGED <<lock, sidlock, change, missed>>
       ELSE /\ lock' = None /\ change' = None /\ sidlock' = None
            /\ Become("data", Idle)
            /\ missed' = missed \cup {subs[i].id : i \in {j \in DOMAIN subs : Uses(j, change)}}
    /\ UNCHANGED <<subs, nextId, sr, status, sess, owner, filters, bound, undefined, leaked,
                   miskilled>>

FilterNext ==
    /\ th["data"].pc = "done"
    /\ Become("data", [th["data"] EXCEPT !.pc = "scan", !.at = th["data"].at + 1])
    /\ UNCHANGED <<subs, lock, sidlock, nextId, sr, status, sess, owner, config, bound, hist>>

(***************************************************************************)
(* sysrepo's notification thread: np2srv_rpc_establish_sub_ntf_cb.         *)
(***************************************************************************)

(* The stop time of a sysrepo subscription is reached.  Whether the lock   *)
(* was passed to the callback is looked at before the lock is waited for.  *)
StopTime(x) ==
    /\ th["notif"] = Idle /\ x \in NtfSubs /\ ~Suspended
    /\ Become("notif", [Idle EXCEPT !.pc = "cb", !.sr = x, !.id = x[1], !.nolock = (sidlock = x)])
    /\ UNCHANGED <<subs, lock, sidlock, nextId, sr, status, sess, owner, config, bound, hist>>

(* The stop timer of a yang-push subscription, on a thread of its own. *)
StopTimer(id) ==
    /\ th["timer"] = Idle
    /\ \E i \in Found(id, None) : subs[i].type = "push" /\ ~subs[i].term
    /\ Become("timer", [Idle EXCEPT !.pc = "cb", !.id = id])
    /\ UNCHANGED <<subs, lock, sidlock, nextId, sr, status, sess, owner, config, bound, hist>>

(* sub_ntf_del_sr_sub_is_last. *)
Without(s, x) ==
    IF x \in Range(s) THEN RemoveAt(s, CHOOSE i \in DOMAIN s : s[i] = x) ELSE s

(* sub_ntf_find_lock does not find a terminating subscription; otherwise   *)
(* the ID is removed, and the subscription with the last one.              *)
Terminated(t) ==
    LET r == th[t]
        usable == {i \in Found(r.id, None) : ~subs[i].term}
        isLast(i) == t = "timer" \/ subs[i].srs = <<r.sr>> IN
    /\ r.pc = "cb" /\ (r.nolock \/ lock = None)
    /\ subs' = [i \in DOMAIN subs |-> IF i \in usable /\ t # "timer"
                                      THEN [subs[i] EXCEPT !.srs = Without(@, r.sr)] ELSE subs[i]]
    /\ \/ /\ \A i \in usable : ~isLast(i)
          /\ sr' = sr \ {r.sr}
          /\ Become(t, CallbackEnd(t))
          /\ UNCHANGED <<lock, undefined>>
       \/ \E i \in usable :
            /\ isLast(i)
            /\ lock' = t /\ undefined' = (r.nolock \/ sess[subs[i].nc] = "gone")
            /\ Become(t, [r EXCEPT !.pc = "term", !.at = i, !.ncs = subs[i].nc])
            /\ UNCHANGED sr
    /\ UNCHANGED <<sidlock, nextId, status, sess, owner, config, bound, leaked, missed, miskilled>>

TerminatedDone(t) ==
    /\ th[t].pc = "done" /\ (th[t].sr # None \/ t = "timer")
    /\ lock' = IF sidlock # None /\ sidlock = th[t].sr THEN lock ELSE None
    /\ sr' = sr \ {th[t].sr}
    /\ Become(t, CallbackEnd(t))
    /\ UNCHANGED <<subs, sidlock, nextId, status, sess, owner, config, bound, hist>>

(* A notification for the session of the callback's argument: the          *)
(* subscription is looked up without the lock ...                          *)
Notify(x) ==
    /\ th["notif"] = Idle /\ x \in NtfSubs /\ ~Suspended
    /\ \E i \in Found(x[1], None) :
        /\ undefined' = (sess[subs[i].nc] = "gone")
        /\ Become("notif", [Idle EXCEPT !.pc = "send", !.id = x[1], !.at = i])
    /\ UNCHANGED <<subs, lock, sidlock, nextId, sr, status, sess, owner, config, bound, leaked, missed,
                   miskilled>>

(* ... and its counter is incremented once the notification is sent. *)
NotifSent ==
    LET r == th["notif"] IN
    /\ r.pc = "send"
    /\ undefined' = (r.at \notin DOMAIN subs \/ subs[r.at].id # r.id)
    /\ Become("notif", Idle)
    /\ UNCHANGED <<subs, lock, sidlock, nextId, sr, status, sess, owner, config, bound, leaked, missed,
                   miskilled>>

TermStep(t) ==
    LockPass(t) \/ Unsubscribe(t) \/ UnsubscribeFails(t) \/ Terminating(t) \/ Relock(t) \/ Finish(t)

RpcStep == EstablishRefuse \/ EstablishNew \/ (\E m \in Module : Subscribe(m)) \/ SubscribeFails
           \/ EstablishDone \/ RpcDone \/ TermStep("rpc")
DataStep == FilterModified \/ FilterDeleted \/ FilterScan \/ FilterScanEnds \/ FilterNext
            \/ TermStep("data")
CallbackStep(t) == Terminated(t) \/ TerminatedDone(t) \/ TermStep(t)
NotifStep == NotifSent \/ CallbackStep("notif")
SessionStep(s) == SessionLock(s) \/ SessionScan(s) \/ SessionScanEnds(s) \/ SessionNext(s)
                  \/ SessionUnsubscribe(s) \/ SessionFree(s) \/ CallbackStep(s)

Next ==
    /\ ~undefined
    /\ \/ \E s \in Session, type \in Types, f \in Filter \cup {None} : EstablishStart(s, type, f)
       \/ \E s \in Session, id \in 1 .. MaxSubs :
            \/ \E f \in Filter \cup {None} : ModifySub(s, id, f)
            \/ DeleteSub(s, id) \/ KillSub(s, id)
       \/ \E s \in Session : EndSession(s)
       \/ \E f \in Filter : ConfigChange(f)
       \/ \E x \in SrId : StopTime(x) \/ Notify(x)
       \/ \E id \in 1 .. MaxSubs : StopTimer(id)
       \/ RpcStep \/ DataStep \/ NotifStep \/ CallbackStep("timer") \/ \E s \in Session : SessionStep(s)

Spec == Init /\ [][Next]_vars

(* Threads keep running.  Notifications may go on for ever, each of them   *)
(* holding up a change of sysrepo's subscriptions for a moment; the wait   *)
(* for its lock ends (strong fairness) when it is free again and again.    *)
FairSpec ==
    /\ Spec
    /\ SF_vars(~undefined /\ RpcStep) /\ SF_vars(~undefined /\ DataStep)
    /\ \A s \in Session : SF_vars(~undefined /\ SessionStep(s))
    /\ WF_vars(~undefined /\ NotifStep) /\ SF_vars(~undefined /\ CallbackStep("timer"))

-----------------------------------------------------------------------------
Subscriptions == [id : 1 .. MaxSubs, nc : Session, type : Types, srs : Seq(SrId),
                  term : BOOLEAN, flt : Filter \cup {None}, xp : 0 .. MaxChanges + 1]
ThreadState == [pc : {"idle", "establish", "subscribe", "term", "unsub", "sleep", "finish", "done",
                      "wait", "scan", "unsubs", "cb", "send"},
                id : 0 .. MaxSubs, at : Nat, by : Session \cup {None}, ncs : Session \cup {None},
                req : {<<>>} \cup (Types \X (Filter \cup {None})),
                sr : SrId \cup {None}, cb : SrId \cup {None}, todo : SUBSET Module,
                left : Int, nodes : 0 .. 2, inner : BOOLEAN, nolock : BOOLEAN]

(* Every variable has its type; a session never has fewer than no          *)
(* subscriptions, and only a subscribed ID is ever in use.                 *)
TypeOK ==
    /\ subs \in Seq(Subscriptions) /\ lock \in Thread \cup {None}
    /\ sidlock \in SrId \cup {None} /\ nextId \in 1 .. MaxSubs + 1 /\ sr \subseteq SrId
    /\ status \in [Session -> 0 .. MaxSubs] /\ sess \in [Session -> {"running", "ending", "gone"}]
    /\ owner \in [1 .. MaxSubs -> Session \cup {None}] /\ th \in [Thread -> ThreadState]
    /\ filters \in [Filter -> 0 .. MaxChanges + 1] /\ change \in Filter \cup {None}
    /\ changes \in 0 .. MaxChanges /\ {undefined, miskilled} \subseteq BOOLEAN
    /\ \A i \in DOMAIN subs : subs[i].id < nextId

(* sysrepo and the registry agree: a sysrepo subscription belongs to a     *)
(* subscription that lists it, is being made by establish-subscription, is *)
(* in its final callback, or could not be removed; and a subscription not  *)
(* being terminated lists none that sysrepo does not have.  This is what   *)
(* the error paths of sub_ntf_sr_subscribe and the lock passing are for.   *)
SysrepoMatches ==
    undefined \/
    /\ \A x \in sr :
        \/ \E i \in DOMAIN subs : subs[i].id = x[1] /\ x \in Range(subs[i].srs)
        \/ th["rpc"].pc = "subscribe" /\ th["rpc"].id = x[1]
        \/ \E t \in Thread : th[t].sr = x /\ th[t].pc # "idle"
        \/ x \in leaked
    /\ \A i \in DOMAIN subs :
        subs[i].term \/ subs[i].id \in missed \/ Range(subs[i].srs) \subseteq sr

OwnSubs(s) == {i \in DOMAIN subs : subs[i].nc = s}
BeingMade(s) == IF th["rpc"].pc = "establish" /\ th["rpc"].ncs = s THEN 1 ELSE 0

(* libnetconf2's count of a session's subscriptions, which keeps an idle   *)
(* session with subscriptions from being timed out, is exact as long as    *)
(* the session lives, unless a yang-push subscription was killed by        *)
(* another session, which then loses the count instead of the owner.       *)
StatusExact ==
    undefined \/ miskilled \/
    \A s \in Session : sess[s] = "gone" \/ status[s] = Cardinality(OwnSubs(s)) + BeingMade(s)

(* Once a change of a configured filter has been handled, no subscription  *)
(* works with an old version of it or outlives it, except those a loop     *)
(* passed by, those sysrepo could not change because its thread was in a   *)
(* callback, and those being terminated.                                   *)
FilterCurrent ==
    (change = None /\ ~undefined) =>
        \A i \in DOMAIN subs :
            \/ subs[i].flt = None \/ subs[i].term \/ subs[i].id \in missed
            \/ subs[i].xp = filters[subs[i].flt]

(* Every RPC, callback and session end that has begun comes to its end,    *)
(* whoever holds the lock or waits for it (or the behaviour is undefined). *)
EveryoneReturns ==
    \A t \in Thread : th[t].pc # "idle" ~> (th[t].pc = "idle" \/ undefined)

(* "terminate any subscriptions for the NETCONF session": none is left     *)
(* when the session is freed.                                              *)
SessionEndsSubscriptions ==
    \A s \in Session : sess[s] = "gone" => \A i \in DOMAIN subs : subs[i].nc # s
=============================================================================
