------------------------------ MODULE YangPush ------------------------------
(***************************************************************************)
(* One yang-push subscription (struct yang_push_data), on-change with its  *)
(* dampening timer or periodic with its update timer, from establishing it *)
(* to the end, together with the datastore it is about and the copy of it  *)
(* that the receiver keeps by applying what it is sent.                    *)
(*                                                                         *)
(* Change events are handled by sysrepo's data thread, timers by threads   *)
(* of their own, RPCs by the RPC thread.  notif_lock and the subscription  *)
(* lock make each handler one step, but a timer callback that has started  *)
(* may have to wait for them, and everything else happens meanwhile.       *)
(*                                                                         *)
(* Time is kept relative: ticks since last_notif, and to the expiration of *)
(* the dampening timer.  For a user-ordered node the value of a node is    *)
(* its position, for any other node its content.  Edits of different nodes *)
(* do not depend on each other: the edits of a notification, or of an      *)
(* event, are a function from the nodes.                                   *)
(***************************************************************************)
EXTENDS Integers, Sequences, FiniteSets

CONSTANTS
    Target,        \* nodes, as named by the target of an edit
    UserOrdered,   \* those of user-ordered lists
    Value, None,
    MaxDamp,       \* longest dampening period, in ticks
    MaxCommits, MaxQueue, MaxRpcs, MaxLost,
    Times, Periods \* for periodic subscriptions: clock values, and periods in ms

ASSUME YangPushAssumption ==
    /\ UserOrdered \subseteq Target /\ None \notin Value \cup Nat
    /\ {MaxDamp, MaxCommits, MaxQueue, MaxRpcs, MaxLost} \subseteq Nat
    /\ Times \subseteq Nat \ {0} /\ Periods \subseteq Nat \ {0}

VARIABLES
    phase,     \* "none", "sync", "onchange", "periodic", "ending", "gone"
    damp,      \* dampening_period_ms
    excluded,  \* excluded_change
    pend,      \* edits of ly_change_pend, NoEdits for NULL
    since,     \* ticks since last_notif, up to MaxDamp
    due,       \* ticks to the expiration of damp_timer, None if it is not set
    cbs,       \* callbacks of damp_timer that have started
    events,    \* sysrepo's change events not handled yet
    ds,        \* the datastore
    first,     \* when a periodic subscription was made or modified, and its next update, if any
    commits, rpcs, lost,
    undefined, \* an assertion failed
    seen,      \* the receiver's copy
    unknown,   \* history: nodes whose change the receiver was not told, by design or by loss
    stranded,  \* history: a pending notification has lost its timer
    minDamp,   \* history: shortest dampening period since a notification was sent
    stale,     \* history: the last notification left a timer or a callback behind
    early      \* history: a notification of changes was sent before its time

rx == <<seen, unknown, stranded, minDamp, early, stale>>
tm == <<since, due, cbs>>
bound == <<commits, rpcs, lost>>
vars == <<phase, damp, excluded, pend, tm, events, ds, first, bound, undefined, rx>>

Op == {"create", "insert", "move", "replace", "delete"}
NoEdit == [op |-> "none", value |-> None]
NoEdits == [t \in Target |-> NoEdit]

Init ==
    /\ phase = "none" /\ damp = 0 /\ excluded = {} /\ pend = NoEdits
    /\ since = MaxDamp /\ due = None /\ cbs = 0 /\ events = <<>> /\ first = None
    /\ ds = [t \in Target |-> None] /\ seen = ds /\ unknown = Target
    /\ commits = 0 /\ rpcs = 0 /\ lost = 0 /\ undefined = FALSE
    /\ stranded = FALSE /\ minDamp = MaxDamp
    /\ stale = FALSE /\ early = FALSE

Min2(a, b) == IF a < b THEN a ELSE b
Max2(a, b) == IF a > b THEN a ELSE b
Abs(a) == IF a < 0 THEN -a ELSE a

(***************************************************************************)
(* Changes and edits.                                                      *)
(***************************************************************************)

(* Mutant: only the old value is looked at. *)
ChangeOpOld(t, v, w) ==
    CASE v = None -> IF t \in UserOrdered THEN "insert" ELSE "create"
      [] v # None -> IF t \in UserOrdered THEN "move" ELSE "replace"

(* yang_push_op_sr2yp, of sysrepo's operation for a change from v to w. *)
ChangeOp(t, v, w) ==
    CASE v = None -> IF t \in UserOrdered THEN "insert" ELSE "create"
      [] w = None -> "delete"
      [] v # None /\ w # None -> IF t \in UserOrdered THEN "move" ELSE "replace"

Change(t, v, w) == IF v = w THEN NoEdit ELSE [op |-> ChangeOp(t, v, w), value |-> w]

(* What a receiver does with an edit: a move has no value, and there is    *)
(* nothing to move if the node does not exist.                             *)
ApplyEdit(e, v) ==
    CASE e.op = "none" -> v
      [] e.op = "delete" -> None
      [] e.op = "move" -> IF v = None THEN None ELSE e.value
      [] OTHER -> e.value
Apply(es, view) == [t \in Target |-> ApplyEdit(es[t], view[t])]

Targets(es) == {t \in Target : es[t].op # "none"}

(* Mutant: the earlier edit wins. *)
EditAppendKeep(old, e) == IF old.op = "none" THEN e ELSE old

(* yang_push_notif_change_edit_append: an earlier edit of the same target  *)
(* is removed and the new one put in.                                      *)
EditAppend(old, e) == e

(* The loop over the changes of one event, but for excluded ones. *)
Collect(ev) ==
    [t \in Target |-> IF ev[t].op \in excluded \cup {"none"} THEN pend[t] ELSE EditAppend(pend[t], ev[t])]

(* The nodes the receiver will not know after these changes: those of an   *)
(* excluded operation, those whose pending edit gives way to a move, and   *)
(* of the ones it does not know those that were not edited or only moved.  *)
Untold(ev) ==
    {t \in Target : \/ ev[t].op \in excluded
                    \/ ev[t].op = "move" /\ pend[t].op \notin {"none", "move"}
                    \/ ev[t].op \in {"none", "move"} /\ t \in unknown}

(* sysrepo stores a change and tells the subscriptions. *)
Commit(new) ==
    LET changed == {t \in Target : new[t] # ds[t]}
        ev == [t \in Target |-> Change(t, ds[t], new[t])] IN
    /\ changed # {} /\ phase \notin {"none", "gone"} /\ commits < MaxCommits /\ Len(events) < MaxQueue
    /\ ds' = new /\ commits' = commits + 1
    /\ events' = IF phase = "onchange" THEN Append(events, ev) ELSE events
    /\ unknown' = IF phase = "sync" THEN unknown \cup changed ELSE unknown
    /\ UNCHANGED <<phase, damp, excluded, pend, tm, first, rpcs, lost, undefined, seen, stranded, minDamp, early, stale>>

(***************************************************************************)
(* Sending.                                                                *)
(***************************************************************************)

(* yang_push_notif_change_send of the edits es: sent, not a single change  *)
(* readable by the user, denied as a notification (which counts as sent),  *)
(* or not sent because of an error.  The notification is freed in any case.*)
(* What is left of its timer: waiting callbacks, or a time to expire.      *)
ChangeSend(es, un, waiting) ==
    /\ pend' = NoEdits /\ stranded' = FALSE /\ stale' = (waiting > 0 \/ due # None)
    /\ \/ /\ seen' = Apply(es, seen) /\ unknown' = un
          /\ since' = 0 /\ minDamp' = damp /\ early' = (since < minDamp /\ ~stale)
          /\ UNCHANGED lost
       \/ /\ lost < MaxLost /\ lost' = lost + 1
          /\ unknown' = un \cup Targets(es)
          /\ since' \in {since, 0}
          /\ UNCHANGED <<seen, minDamp, early>>

(* Mutant: only the timer is looked at, not the last notification. *)
ChangeReadyIdle == damp = 0 \/ due = None

(* yang_push_notif_change_ready. *)
ChangeReady == damp = 0 \/ (due = None /\ since >= damp)

(* np2srv_change_yang_push_cb: all the changes of an event are added to    *)
(* the notification, which is sent or waits for the dampening timer.       *)
ChangeCb ==
    LET es == Collect(Head(events))  un == Untold(Head(events)) IN
    /\ phase = "onchange" /\ events # <<>>
    /\ events' = Tail(events)
    /\ IF es = NoEdits
       THEN unknown' = un /\ UNCHANGED <<pend, tm, lost, seen, stranded, minDamp, early, stale>>
       ELSE IF ChangeReady
       THEN ChangeSend(es, un, cbs) /\ UNCHANGED <<due, cbs>>
       ELSE /\ pend' = es /\ unknown' = un
            /\ due' = IF due = None THEN damp - since ELSE due
            /\ stranded' = FALSE
            /\ UNCHANGED <<since, cbs, lost, seen, minDamp, early, stale>>
    /\ UNCHANGED <<phase, damp, excluded, ds, first, commits, rpcs, undefined>>

Tick ==
    /\ phase \in {"onchange", "ending"}
    /\ since' = Min2(since + 1, MaxDamp)
    /\ due' = IF due = None THEN None ELSE Max2(due - 1, 0)
    /\ UNCHANGED <<phase, damp, excluded, pend, cbs, events, ds, first, bound, undefined, rx>>

(* The timer expires and the thread of its callback is started. *)
DampTimerExpires ==
    /\ due = 0 /\ cbs < 2
    /\ due' = None /\ cbs' = cbs + 1
    /\ UNCHANGED <<phase, damp, excluded, pend, since, events, ds, first, bound, undefined, rx>>

(* yang_push_damp_timer_cb.  sub_ntf_find_lock does not find the           *)
(* subscription when it is being terminated.                               *)
DampTimerCb ==
    /\ cbs > 0 /\ phase \in {"onchange", "ending"}
    /\ cbs' = cbs - 1
    /\ IF phase = "ending" THEN UNCHANGED <<pend, since, lost, undefined, rx>>
       ELSE IF pend = NoEdits THEN undefined' = TRUE /\ UNCHANGED <<pend, since, lost, rx>>
       ELSE ChangeSend(pend, unknown, cbs - 1) /\ UNCHANGED undefined
    /\ UNCHANGED <<phase, damp, excluded, due, events, ds, first, commits, rpcs>>

(* yang_push_notif_update_send: everything, as far as it is readable.      *)
(* Edits that are pending come after it, even where a later change of the  *)
(* node was excluded.                                                      *)
UpdateSend ==
    \/ seen' = ds /\ unknown' = unknown \cap Targets(pend) /\ UNCHANGED lost
    \/ lost < MaxLost /\ lost' = lost + 1 /\ UNCHANGED <<seen, unknown>>

(* yang_push_update_timer_cb of a periodic subscription. *)
UpdateTimerCb ==
    /\ phase = "periodic" /\ first.at # None
    /\ UpdateSend
    /\ UNCHANGED <<phase, damp, excluded, pend, tm, events, ds, first, commits, rpcs, undefined,
                   stranded, minDamp, early, stale>>

(***************************************************************************)
(* RPCs.                                                                   *)
(***************************************************************************)

(* yang_push_rpc_establish_sub, on-change: with sync-on-start an update is *)
(* sent, and only then are the changes subscribed to.                      *)
EstablishOnChange(d, ex, sync) ==
    /\ phase = "none"
    /\ phase' = "sync" /\ damp' = d /\ minDamp' = d /\ excluded' = ex
    /\ IF sync THEN seen' = ds /\ unknown' = {} ELSE UNCHANGED <<seen, unknown>>
    /\ UNCHANGED <<pend, tm, events, ds, first, bound, undefined, stranded, early, stale>>

(* yang_push_sr_subscribe; if it or the first update fails, everything is  *)
(* given up.                                                               *)
SrSubscribe ==
    /\ phase = "sync"
    /\ phase' \in {"onchange", "gone"}
    /\ UNCHANGED <<damp, excluded, pend, tm, events, ds, first, bound, undefined, rx>>

(* Mutant: the anchor itself, which may be long ago or far ahead. *)
FirstUpdateAnchor(now, anchor, period) == anchor

(* When a periodic subscription sends its first update; 0 is no anchor. *)
FirstUpdate(now, anchor, period) ==
    IF anchor = 0 THEN now ELSE now + (Abs(anchor - now) % period)

EstablishPeriodic(now, anchor, period) ==
    /\ phase = "none"
    /\ phase' = "periodic"
    /\ first' = [now |-> now, anchor |-> anchor, period |-> period,
                 at |-> FirstUpdate(now, anchor, period)]
    /\ UNCHANGED <<damp, excluded, pend, tm, events, ds, bound, undefined, rx>>

(* Mutant: the timer is deleted for every new period. *)
ModifyUnset(d) ==
    /\ phase = "onchange" /\ d # damp /\ rpcs < MaxRpcs
    /\ rpcs' = rpcs + 1 /\ damp' = d /\ minDamp' = Min2(minDamp, d)
    /\ due' = None
    /\ stranded' = (stranded \/ (d = 0 /\ pend # NoEdits /\ cbs = 0))
    /\ UNCHANGED <<phase, excluded, pend, since, cbs, events, ds, first, commits, lost, undefined,
                   seen, unknown, early, stale>>

(* yang_push_rpc_modify_sub of a periodic subscription.  np_modtimespec    *)
(* of the anchor is an absolute time, earlier than any time the clock can  *)
(* show, so that the timer expires at once; or it is zero, which stops the *)
(* timer.  An anchor that is not given again is kept.                      *)
ModifyPeriodic(now, anchor, period) ==
    LET kept == IF anchor = 0 THEN first.anchor ELSE anchor IN
    /\ phase = "periodic" /\ rpcs < MaxRpcs
    /\ first.now <= now /\ period <= now /\ <<kept, period>> # <<first.anchor, first.period>>
    /\ rpcs' = rpcs + 1
    /\ first' = [now |-> now, anchor |-> kept, period |-> period,
                 at |-> IF kept = 0 THEN now
                        ELSE IF kept % period = 0 THEN None ELSE Max2(now, kept % period)]
    /\ UNCHANGED <<phase, damp, excluded, pend, tm, events, ds, commits, lost, undefined, rx>>

(* yang_push_rpc_modify_sub of an on-change subscription: with no          *)
(* dampening the timer is deleted, else moved if it is set.  An error in   *)
(* the filter that comes after it does not take the change back.           *)
Modify(d) ==
    /\ phase = "onchange" /\ d # damp /\ rpcs < MaxRpcs
    /\ rpcs' = rpcs + 1 /\ damp' = d /\ minDamp' = Min2(minDamp, d)
    /\ due' = IF d = 0 \/ due = None THEN None ELSE Max2(d - since, 0)
    /\ stranded' = (stranded \/ (d = 0 /\ pend # NoEdits /\ cbs = 0))
    /\ UNCHANGED <<phase, excluded, pend, since, cbs, events, ds, first, commits, lost, undefined,
                   seen, unknown, early, stale>>

(* np2srv_rpc_resync_sub_cb. *)
Resync ==
    /\ phase = "onchange" /\ rpcs < MaxRpcs
    /\ rpcs' = rpcs + 1
    /\ UpdateSend
    /\ UNCHANGED <<phase, damp, excluded, pend, tm, events, ds, first, commits, undefined,
                   stranded, minDamp, early, stale>>

(* sub_ntf_terminate_sub: unsubscribed, timers disarmed, flag set ...      *)
TerminateAsync ==
    /\ phase \in {"onchange", "periodic"}
    /\ phase' = "ending" /\ events' = <<>> /\ due' = None
    /\ UNCHANGED <<damp, excluded, pend, since, cbs, ds, first, bound, undefined, rx>>

(* ... and after a sleep that lets callbacks that have started find the    *)
(* flag, yang_push_data_destroy.                                           *)
DataDestroy ==
    /\ phase = "ending" /\ cbs = 0
    /\ phase' = "gone" /\ pend' = NoEdits
    /\ UNCHANGED <<damp, excluded, tm, events, ds, first, bound, undefined, rx>>

Next ==
    /\ ~undefined
    /\ \/ \E new \in [Target -> Value \cup {None}] : Commit(new)
       \/ ChangeCb \/ Tick \/ DampTimerExpires \/ DampTimerCb \/ UpdateTimerCb
       \/ \E d \in 0 .. MaxDamp, ex \in {{}, {"delete"}}, sync \in BOOLEAN : EstablishOnChange(d, ex, sync)
       \/ SrSubscribe
       \/ \E now \in Times, anchor \in Times \cup {0}, period \in Periods :
             EstablishPeriodic(now, anchor, period) \/ ModifyPeriodic(now, anchor, period)
       \/ \E d \in 0 .. MaxDamp : Modify(d)
       \/ Resync \/ TerminateAsync \/ DataDestroy

Spec == Init /\ [][Next]_vars

-----------------------------------------------------------------------------
Content == Value \cup {None}

(* An edit has a value exactly if it does not delete the node. *)
Edit == {e \in [op : Op, value : Content] : (e.op = "delete") = (e.value = None)}
Edits == [Target -> Edit \cup {NoEdit}]

(* Every variable has its type. *)
TypeOK ==
    /\ phase \in {"none", "sync", "onchange", "periodic", "ending", "gone"}
    /\ damp \in 0 .. MaxDamp /\ minDamp \in 0 .. MaxDamp /\ since \in 0 .. MaxDamp
    /\ due \in 0 .. MaxDamp \cup {None} /\ cbs \in 0 .. 2
    /\ {undefined, stranded, stale, early} \subseteq BOOLEAN
    /\ pend \in Edits /\ events \in Seq(Edits)
    /\ seen \in [Target -> Content] /\ ds \in [Target -> Content]
    /\ unknown \subseteq Target /\ rpcs \in 0 .. MaxRpcs

(* The events still to be handled take node t from value v to what it is   *)
(* in the datastore.                                                       *)
Leads(t, v) ==
    \E f \in [0 .. Len(events) -> Content] :
        /\ f[0] = v /\ f[Len(events)] = ds[t]
        /\ \A i \in DOMAIN events : f[i] = ApplyEdit(events[i][t], f[i - 1])

(* What the receiver has, with the edits still pending and the events      *)
(* still to be handled, is the datastore, for every node except those a    *)
(* change of which was excluded, could not be sent, fell between the first *)
(* update and the subscription, or was a move taking the place of a        *)
(* pending edit.  Merging edits in yang_push_notif_change_edit_append,     *)
(* dampening and resync lose nothing.                                      *)
ReceiverInSync ==
    phase = "onchange" =>
        \A t \in Target \ unknown : Leads(t, ApplyEdit(pend[t], seen[t]))

(* A notification that waits has a timer running or a callback about to    *)
(* send it, unless dampening was turned off while it waited.               *)
PendingScheduled ==
    (phase = "onchange" /\ pend # NoEdits) => (due # None \/ cbs > 0 \/ stranded)

(* Notifications of changes keep the distance of the dampening period (the *)
(* shortest in use since the last one).  The one exception is a callback   *)
(* that had started, or a timer that was set, when the notification it was *)
(* for was sent without it (yang_push_damp_timer_cb waits for notif_lock): *)
(* it sends what it finds, at once, and only such a callback can find      *)
(* nothing, which fails the assertion on ly_change_ntf.                    *)
Dampened == ~early /\ (undefined => stale)

(* After yang_push_rpc_establish_sub and yang_push_rpc_modify_sub the next *)
(* update of a periodic subscription comes at once or within a period, not *)
(* earlier, whether its anchor has passed, is ahead or is not given.  Only *)
(* a modification with an anchor on a multiple of the period stops it.     *)
FirstUpdateSoon ==
    first # None =>
        IF first.at = None
        THEN rpcs > 0 /\ first.anchor # 0 /\ first.anchor % first.period = 0
        ELSE first.at \in first.now .. first.now + first.period - 1
=============================================================================
