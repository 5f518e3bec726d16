-------------------------------- MODULE Nacm --------------------------------
(***************************************************************************)
(* Access control (netconf_acm.c).  The server keeps a private copy of the *)
(* ietf-netconf-acm configuration, updated by four sysrepo callbacks that  *)
(* run one after the other on the data thread after every commit, and      *)
(* decides from that copy which operations, data and edits a user may see. *)
(*                                                                         *)
(* A commit is a sequence of edits of the configuration.  Sysrepo reports  *)
(* it as change events in the order of the edits; each callback takes the  *)
(* events of its own part of the configuration under nacm.lock, and checks *)
(* of other threads may run between two callbacks.                         *)
(*                                                                         *)
(* Group names are integers in strcmp order: 0..25 stand for the letters   *)
(* the search for an insertion point assumes, AnyGroup is "*".             *)
(***************************************************************************)
EXTENDS Integers, Sequences, FiniteSets, SequencesExt

CONSTANTS
    User,           \* users of NETCONF sessions
    Recovery,       \* users whose UID is the recovery UID
    SystemGroups,   \* the system groups of every user
    Group,          \* NACM group names
    ListName, RuleName,
    Longer,         \* pairs <<n, x>>: the name x starts with the name n
    Body,           \* what a rule may say, as leaves of the configuration
    Data,           \* the data tree: paths, closed under prefixes
    Key,            \* the paths that are list keys
    DenyAll, DenyWrite,     \* paths with a default-deny extension
    Module,         \* the module of the data
    Operation,      \* RPCs, actions and notifications
    Diff,           \* diffs to check: parent path (<<>>: top) -> children
    Star, None,
    MaxLists, MaxRules, MaxEdits, MaxDenied

AnyGroup == -1

ASSUME GroupNames == Group \subseteq Nat

VARIABLES
    conf,       \* the ietf-netconf-acm configuration in the running datastore
    nacm,       \* the server's copy (the global nacm)
    pend,       \* change events of the last commit, per callback still to run
    denied,     \* the three counters of denied accesses
    edits,      \* edits committed so far
    reading,    \* a yang-push notification is being checked
    undefined   \* nacm was changed under that check

vars == <<conf, nacm, pend, denied, edits, reading, undefined>>

Param == {"enable-nacm", "read-default", "write-default", "exec-default",
          "enable-external-groups"}
Callback == <<"params", "group", "rule-list", "rule">>

Named(s, n) == SelectInSeq(s, LAMBDA x : x.name = n)

After(s, p, x) == IF p = 0 THEN <<x>> \o s ELSE InsertAt(s, p + 1, x)

-----------------------------------------------------------------------------
(* Sorted arrays of names. *)

\* ncac_strarr_sort_find
SortFind(s, x) == SelectInSeq(s, LAMBDA y : y = x)

\* Where the search for the insertion point starts (an index from 0).
SortStart(s, x) ==
    CASE x < 0  -> 0
      [] x > 25 -> IF s = <<>> THEN 0 ELSE Len(s) - 1
      [] OTHER  -> (x * Len(s)) \div 26

\* Mutant: the search goes on where it started.
SortAddThere(s, x, dup) == InsertAt(s, SortStart(s, x) + 1, x)

\* ncac_strarr_sort_add
SortAdd(s, x, dup) ==
    LET i    == SortStart(s, x)
        down == {k \in 0..i : k = 0 \/ s[k] <= x}
        up   == {k \in i..Len(s) : k = Len(s) \/ s[k + 1] >= x}
        at   == IF s = <<>> THEN 0
                ELSE IF s[i + 1] > x THEN Max(down) ELSE Min(up)
    IN  IF dup /\ SortFind(s, x) # 0 THEN s ELSE InsertAt(s, at + 1, x)

\* ncac_strarr_sort_del
SortDel(s, x) == RemoveAt(s, SortFind(s, x))

-----------------------------------------------------------------------------
(* The copy of the configuration: one operator per callback, which takes   *)
(* one change event.                                                       *)

\* ncac_nacm_params_cb
ParamsCb(m, e) == [m EXCEPT !.param[e.name] = e.value]

\* Arrays of groups and users fill a hole with their last item.
SwapRemove(s, i) == IF i = Len(s) THEN Front(s) ELSE Front([s EXCEPT ![i] = Last(s)])

\* ncac_group_cb
GroupCb(m, e) ==
    LET g == Named(m.groups, e.parent) IN
    CASE e.node = "group" /\ e.op = "created" ->
            [m EXCEPT !.groups = Append(@, [name |-> e.name, users |-> <<>>])]
      [] e.node = "group" /\ e.op = "deleted" ->
            [m EXCEPT !.groups = SwapRemove(@, Named(@, e.name))]
      [] e.node = "user-name" /\ e.op = "created" ->
            [m EXCEPT !.groups[g].users = Append(@, e.name)]
      [] e.node = "user-name" /\ e.op = "deleted" ->
            IF g = 0 THEN m
            ELSE [m EXCEPT !.groups[g].users = SwapRemove(@, SortFind(@, e.name))]

\* The item a created or moved item goes behind: the first one whose name
\* starts with the reported name; 0 for the front of the list.
PrevIndex(s, prev) ==
    IF prev = None THEN 0
    ELSE SelectInSeq(s, LAMBDA x : x.name = prev \/ <<prev, x.name>> \in Longer)

\* Mutant: without an item in front the item goes to the end of the list.
RelinkLast(s, e, fresh) ==
    LET i    == Named(s, e.name)
        rest == IF e.op = "created" THEN s ELSE RemoveAt(s, i)
        item == IF e.op = "created" THEN fresh ELSE s[i]
    IN  IF e.op = "deleted" THEN rest
        ELSE After(rest, IF e.prev = None THEN Len(rest) ELSE PrevIndex(rest, e.prev), item)

\* SR_OP_CREATED, SR_OP_MOVED and SR_OP_DELETED of a user-ordered list.
Relink(s, e, fresh) ==
    LET i    == Named(s, e.name)
        rest == IF e.op = "created" THEN s ELSE RemoveAt(s, i)
        item == IF e.op = "created" THEN fresh ELSE s[i]
    IN  IF e.op = "deleted" THEN rest ELSE After(rest, PrevIndex(rest, e.prev), item)

\* ncac_rule_list_cb
RuleListCb(m, e) ==
    LET l == Named(m.lists, e.parent) IN
    CASE e.node = "rule-list" ->
            [m EXCEPT !.lists = Relink(@, e, [name |-> e.name, groups |-> <<>>, rules |-> <<>>])]
      [] e.node = "group" /\ e.op = "created" ->
            [m EXCEPT !.lists[l].groups = SortAdd(@, e.name, FALSE)]
      [] e.node = "group" /\ e.op = "deleted" ->
            IF l = 0 THEN m ELSE [m EXCEPT !.lists[l].groups = SortDel(@, e.name)]

NewRule(n) == [name |-> n, module |-> None, type |-> "any", target |-> None,
               ops |-> {}, deny |-> FALSE]
TargetLeaf == {"rpc-name", "notification-name", "path"}
AccessOp == {"create", "read", "update", "delete", "exec"}

\* A leaf of a rule.
RuleLeaf(r, e) ==
    CASE e.node = "module-name" ->
            [r EXCEPT !.module = IF e.value = Star THEN None ELSE e.value]
      [] e.node \in TargetLeaf /\ e.op = "deleted" ->
            [r EXCEPT !.target = None, !.type = "any"]
      [] e.node \in TargetLeaf /\ e.op # "deleted" ->
            [r EXCEPT !.target = IF e.value = Star THEN None ELSE e.value, !.type = e.node]
      [] e.node = "access-operations" ->
            [r EXCEPT !.ops = IF e.value = {Star} THEN AccessOp ELSE e.value]
      [] e.node = "action" ->
            [r EXCEPT !.deny = e.value # "permit"]

\* ncac_rule_cb
RuleCb(m, e) ==
    LET l == Named(m.lists, e.parent)
        r == Named(m.lists[l].rules, e.name)
    IN  CASE e.op = "deleted" /\ l = 0 -> m
          [] e.node = "rule" /\ ~(e.op = "deleted" /\ l = 0) ->
                [m EXCEPT !.lists[l].rules = Relink(@, e, NewRule(e.name))]
          [] e.node # "rule" /\ ~(e.op = "deleted" /\ l = 0) ->
                IF e.op = "deleted" /\ r = 0 THEN m
                ELSE [m EXCEPT !.lists[l].rules[r] = RuleLeaf(@, e)]

\* One callback handles all the events of its part, under nacm.lock.
Handle(m, cb, es) ==
    FoldLeft(LAMBDA c, e : CASE cb = "params"    -> ParamsCb(c, e)
                             [] cb = "group"     -> GroupCb(c, e)
                             [] cb = "rule-list" -> RuleListCb(c, e)
                             [] cb = "rule"      -> RuleCb(c, e), m, es)

-----------------------------------------------------------------------------
(* The decision. *)

\* ncac_collect_groups; the system's user database answers
CollectGroups(m, u) ==
    LET own == FoldLeft(LAMBDA gs, g : IF SortFind(g.users, u) = 0 THEN gs
                                       ELSE SortAdd(gs, g.name, FALSE), <<>>, m.groups)
    IN  IF ~m.param["enable-external-groups"] THEN own
        ELSE FoldLeft(LAMBDA gs, g : SortAdd(gs, g, TRUE), own, SetToSeq(SystemGroups[u]))

\* ncac_rule_group_match: both arrays are walked from their start
GroupMatch(rgs, ugs) ==
    LET walk[i \in 1..(Len(rgs) + 1), j \in 1..(Len(ugs) + 1)] ==
            IF i > Len(rgs) \/ j > Len(ugs) THEN FALSE
            ELSE IF rgs[i] = AnyGroup \/ rgs[i] = ugs[j] THEN TRUE
            ELSE IF rgs[i] > ugs[j] THEN walk[i, j + 1] ELSE walk[i + 1, j]
    IN  walk[1, 1]

\* ncac_allowed_tree, for an exempt or a checked root node
AllowedTree(m, exempt, u) == ~m.param["enable-nacm"] \/ u \in Recovery \/ exempt

StepMatch(t, n) == t.name = n.name /\ (t.key = None \/ t.key = n.key)

\* ncac_allowed_path
AllowedPath(t, p) ==
    IF \E i \in (DOMAIN t) \cap (DOMAIN p) : ~StepMatch(t[i], p[i]) THEN "no"
    ELSE IF Len(t) > Len(p) THEN "partial" ELSE "match"

\* Whether a rule applies to a node (steps 7 of ncac_allowed_node).
RuleMatch(r, n, oper) ==
    LET path == IF r.target = None THEN "match" ELSE AllowedPath(r.target, n.path)
        kind == CASE r.type = "rpc-name" ->
                        IF n.kind = "rpc" /\ r.target \in {None, n.name} THEN "match" ELSE "no"
                  [] r.type = "notification-name" ->
                        IF n.kind = "notif" /\ Len(n.path) = 1 /\ r.target \in {None, n.name}
                        THEN "match" ELSE "no"
                  [] r.type = "path" ->
                        IF n.kind \in {"rpc", "notif"} THEN "no" ELSE path
                  [] r.type = "any" -> path
    IN  IF oper \notin r.ops THEN "no"
        ELSE IF kind = "match" /\ r.module \notin {None, n.module} THEN "no"
        ELSE kind

DefaultOf(oper) ==
    CASE oper = "read" -> "read-default"
      [] oper \in {"create", "update", "delete"} -> "write-default"
      [] oper = "exec" -> "exec-default"

\* ncac_allowed_node
AllowedNode(m, n, oper, gs) ==
    LET lists   == SelectSeq(m.lists, LAMBDA l : GroupMatch(l.groups, gs))
        rules   == IF gs = <<>> THEN <<>>
                   ELSE FlattenSeq([i \in DOMAIN lists |-> lists[i].rules])
        hit     == SelectInSeq(rules, LAMBDA r : RuleMatch(r, n, oper) = "match")
        before  == {i \in DOMAIN rules : /\ hit = 0 \/ i < hit
                                         /\ RuleMatch(rules[i], n, oper) = "partial"}
        ext     == \/ n.path \in DenyAll
                   \/ n.path \in DenyWrite /\ oper \in {"create", "update", "delete"}
        access  == IF hit # 0 THEN IF rules[hit].deny THEN "deny" ELSE "permit"
                   ELSE IF ext \/ m.param[DefaultOf(oper)] THEN "deny" ELSE "partial_permit"
    IN  IF access = "deny" /\ \E i \in before : ~rules[i].deny THEN "partial_deny"
        ELSE IF access = "permit" /\ \E i \in before : rules[i].deny THEN "partial_permit"
        ELSE access

NodePermit(access) == access \in {"partial_permit", "permit"}

DataNode(p) == [kind |-> "data", path |-> p, name |-> None, module |-> Module]

\* Mutant: the parent of an action is not checked.
CheckOperationAlone(m, o, u) ==
    \/ AllowedTree(m, o.exempt, u)
    \/ NodePermit(AllowedNode(m, o, IF o.kind = "notif" THEN "read" ELSE "exec", CollectGroups(m, u)))

\* ncac_check_operation: whether the operation is allowed
CheckOperation(m, o, u) ==
    LET gs == CollectGroups(m, u) IN
    \/ AllowedTree(m, o.exempt, u)
    \/ /\ NodePermit(AllowedNode(m, o, IF o.kind = "notif" THEN "read" ELSE "exec", gs))
       /\ Len(o.path) > 1 => NodePermit(AllowedNode(m, DataNode(Front(o.path)), "read", gs))

Children(p) == {c \in Data : c # <<>> /\ Front(c) = p}
Below(p) == {d \in Data : IsPrefix(p, d)}

\* Mutant: a denied node is dropped without looking at its children.
ReadFilterPruned(m, u) ==
    LET gs == CollectGroups(m, u)
        final[p \in Data] == NodePermit(AllowedNode(m, DataNode(p), "read", gs))
        left[p \in Data] ==
            IF ~final[p] THEN Key \cap {p} ELSE {p} \cup UNION {left[c] : c \in Children(p)}
    IN  IF AllowedTree(m, FALSE, u) THEN Data ELSE UNION {left[p] : p \in Children(<<>>)}

\* ncac_check_data_read_filter: the nodes of Data left for the user
ReadFilter(m, u) ==
    LET gs        == CollectGroups(m, u)
        access[p \in Data] == AllowedNode(m, DataNode(p), "read", gs)
        final[p \in Data] == \* node_access after the children
            IF access[p] = "partial_deny" THEN \E c \in Children(p) : final[c]
            ELSE NodePermit(access[p])
        left[p \in Data] ==
            IF ~final[p] THEN Key \cap {p}
            ELSE IF access[p] = "permit" THEN Below(p)
            ELSE {p} \cup UNION {left[c] : c \in Children(p)}
    IN  IF AllowedTree(m, FALSE, u) THEN Data
        ELSE UNION {left[p] : p \in Children(<<>>)}

OperOf(op) ==
    CASE op = "replace" -> "update" [] op = "create" -> "create" [] op = "delete" -> "delete"

\* Mutant: nodes that are only on the way to a change are checked as well.
CheckDiffAll(m, d, u) ==
    LET gs == CollectGroups(m, u)
        bad(n) == ~NodePermit(AllowedNode(m, DataNode(n.path), IF n.op = "none" THEN "update" ELSE OperOf(n.op), gs))
        hits == {n \in UNION {Range(d[p]) : p \in DOMAIN d} : bad(n)}
    IN  IF AllowedTree(m, FALSE, u) \/ hits = {} THEN None ELSE (CHOOSE n \in hits : TRUE).path

\* ncac_check_diff: the denied node, None when the diff is allowed.  A diff
\* maps a parent to the sequence of its changed children; the result of a
\* child's subtree is overwritten by the next sibling with a subtree.
CheckDiff(m, d, u) ==
    LET gs == CollectGroups(m, u)
        bad(n) == /\ n.op # "none"
                  /\ ~NodePermit(AllowedNode(m, DataNode(n.path), OperOf(n.op), gs))
        result[p \in DOMAIN d] ==
            FoldLeft(LAMBDA r, n :
                        IF r.stop THEN r
                        ELSE IF bad(n) THEN [stop |-> TRUE, node |-> n.path]
                        ELSE IF n.path \in DOMAIN d THEN [stop |-> FALSE, node |-> result[n.path].node]
                        ELSE r,
                     [stop |-> FALSE, node |-> None], d[p])
    IN  IF AllowedTree(m, FALSE, u) THEN None ELSE result[<<>>].node

-----------------------------------------------------------------------------
(* Edits of the configuration and the events sysrepo makes of them. *)

Event(cb, node, op, parent, name, prev, value) ==
    [cb |-> cb, node |-> node, op |-> op, parent |-> parent, name |-> name,
     prev |-> prev, value |-> value]

Each(S, F(_)) == LET s == SetToSeq(S) IN [i \in DOMAIN s |-> F(s[i])]

\* Events of the leaves of a rule whose body becomes b (op is created).
LeafEvents(l, r, b) ==
    LET leaf(node, value) == Event("rule", node, "created", l, r, None, value)
    IN  <<leaf("module-name", b.module)>>
        \o (IF b.type = "none" THEN <<>> ELSE <<leaf(b.type, b.target)>>)
        \o <<leaf("access-operations", b.ops), leaf("action", b.action)>>

RuleEvents(l, r, prev) ==
    <<Event("rule", "rule", "created", l, r.name, prev, None)>> \o LeafEvents(l, r.name, r.body)

\* An edit is the new configuration, the events, and the object it edits.
Edit(c, es, on) == [conf |-> c, events |-> es, on |-> on]

ParamEdits(c) ==
    {Edit([c EXCEPT !.param[p] = ~@],
          <<Event("params", p, "modified", None, p, None, ~c.param[p])>>, <<"param", p>>) : p \in Param}

GroupEdits(c) ==
    LET Have == DOMAIN c.groups IN
    {Edit([c EXCEPT !.groups = [h \in Have \cup {g} |-> IF h = g THEN us ELSE @[h]]],
          <<Event("group", "group", "created", None, g, None, None)>>
            \o Each(us, LAMBDA u : Event("group", "user-name", "created", g, u, None, None)), <<"group", g>>)
        : g \in Group \ Have, us \in SUBSET User}
    \cup
    {Edit([c EXCEPT !.groups = [h \in Have \ {g} |-> @[h]]],
          <<Event("group", "group", "deleted", None, g, None, None)>>
            \o Each(c.groups[g], LAMBDA u : Event("group", "user-name", "deleted", g, u, None, None)), <<"group", g>>)
        : g \in Have}
    \cup
    {Edit([c EXCEPT !.groups[gu[1]] = IF gu[2] \in @ THEN @ \ {gu[2]} ELSE @ \cup {gu[2]}],
          <<Event("group", "user-name", IF gu[2] \in c.groups[gu[1]] THEN "deleted" ELSE "created",
                  gu[1], gu[2], None, None)>>, <<"group", gu[1]>>)
        : gu \in Have \X User}

\* The previous item an item at position i is reported with.
Prev(s, i) == IF i = 0 THEN None ELSE s[i].name
NamesOf(s) == {s[i].name : i \in DOMAIN s}

ListEdits(c) ==
    {Edit([c EXCEPT !.lists = After(@, x.at, [name |-> x.name, groups |-> x.groups,
                                              rules |-> <<[name |-> x.rule, body |-> x.body]>>])],
          <<Event("rule-list", "rule-list", "created", None, x.name, Prev(c.lists, x.at), None)>>
            \o Each(x.groups, LAMBDA g : Event("rule-list", "group", "created", x.name, g, None, None))
            \o RuleEvents(x.name, [name |-> x.rule, body |-> x.body], None), <<"list", x.name>>)
        : x \in IF Len(c.lists) = MaxLists THEN {}
                ELSE [name : ListName \ NamesOf(c.lists), at : 0..Len(c.lists),
                      groups : {{g} : g \in Group \cup {AnyGroup}},
                      rule : RuleName, body : Body]}
    \cup
    {Edit([c EXCEPT !.lists = RemoveAt(@, i)],
          LET l == c.lists[i] IN
          <<Event("rule-list", "rule-list", "deleted", None, l.name, None, None)>>
            \o Each(l.groups, LAMBDA g : Event("rule-list", "group", "deleted", l.name, g, None, None))
            \o [k \in DOMAIN l.rules |-> Event("rule", "rule", "deleted", l.name, l.rules[k].name, None, None)],
          <<"list", c.lists[i].name>>)
        : i \in DOMAIN c.lists}
    \cup
    {LET rest == RemoveAt(c.lists, x[1]) IN
     Edit([c EXCEPT !.lists = After(rest, x[2], @[x[1]])],
          <<Event("rule-list", "rule-list", "moved", None, c.lists[x[1]].name, Prev(rest, x[2]), None)>>,
          <<"list", c.lists[x[1]].name>>)
        : x \in {y \in (DOMAIN c.lists) \X (0..Len(c.lists)) : y[2] < Len(c.lists) /\ y[2] # y[1] - 1}}
    \cup
    {LET l == c.lists[x[1]] IN
     Edit([c EXCEPT !.lists[x[1]].groups = IF x[2] \in @ THEN @ \ {x[2]} ELSE @ \cup {x[2]}],
          <<Event("rule-list", "group", IF x[2] \in l.groups THEN "deleted" ELSE "created",
                  l.name, x[2], None, None)>>, <<"list", l.name, x[2]>>)
        : x \in (DOMAIN c.lists) \X (Group \cup {AnyGroup})}

RuleEditsOf(c, k) ==
    LET l  == c.lists[k]
        rs == l.rules
    IN
    {Edit([c EXCEPT !.lists[k].rules = After(@, x.at, [name |-> x.name, body |-> x.body])],
          RuleEvents(l.name, x, Prev(rs, x.at)), <<"list", l.name, x.name>>)
        : x \in IF Len(rs) = MaxRules THEN {}
                ELSE [name : RuleName \ NamesOf(rs), at : 0..Len(rs), body : Body]}
    \cup
    {Edit([c EXCEPT !.lists[k].rules = RemoveAt(@, i)],
          <<Event("rule", "rule", "deleted", l.name, rs[i].name, None, None),
            Event("rule", "action", "deleted", l.name, rs[i].name, None, rs[i].body.action)>>,
          <<"list", l.name, rs[i].name>>)
        : i \in DOMAIN rs}
    \cup
    {LET rest == RemoveAt(rs, x[1]) IN
     Edit([c EXCEPT !.lists[k].rules = After(rest, x[2], @[x[1]])],
          <<Event("rule", "rule", "moved", l.name, rs[x[1]].name, Prev(rest, x[2]), None)>>,
          <<"list", l.name, rs[x[1]].name>>)
        : x \in {y \in (DOMAIN rs) \X (0..Len(rs)) : y[2] < Len(rs) /\ y[2] # y[1] - 1}}
    \cup
    {LET old == rs[x[1]].body
         new == x[2]
         gone == IF old.type # "none" /\ old.type # new.type
                 THEN <<Event("rule", old.type, "deleted", l.name, rs[x[1]].name, None, old.target)>>
                 ELSE <<>>
     IN  Edit([c EXCEPT !.lists[k].rules[x[1]].body = new],
              gone \o LeafEvents(l.name, rs[x[1]].name, new), <<"list", l.name, rs[x[1]].name>>)
        : x \in {y \in (DOMAIN rs) \X Body : rs[y[1]].body # y[2]}}

Edits(c) == ParamEdits(c) \cup GroupEdits(c) \cup ListEdits(c)
            \cup UNION {RuleEditsOf(c, k) : k \in DOMAIN c.lists}

Apart(on1, on2) == ~IsPrefix(on1, on2) /\ ~IsPrefix(on2, on1)

Dispatch(es) == [k \in DOMAIN Callback |-> SelectSeq(es, LAMBDA e : e.cb = Callback[k])]

-----------------------------------------------------------------------------
Defaults == [p \in Param |-> p \in {"enable-nacm", "write-default", "enable-external-groups"}]

\* The subscriptions are made with SR_SUBSCR_ENABLED: the callbacks run once
\* with the configuration found at start, here the defaults of the module.
Init ==
    /\ conf = [param |-> Defaults, groups |-> << >>, lists |-> << >>]
    /\ nacm = [param |-> [p \in Param |-> FALSE], groups |-> << >>, lists |-> << >>]
    /\ pend = Dispatch(Each(Param, LAMBDA p : Event("params", p, "created", None, p, None, Defaults[p])))
    /\ denied = [k \in {"operations", "data-writes", "notifications"} |-> 0]
    /\ edits = 0
    /\ reading = FALSE
    /\ undefined = FALSE

\* A commit of one edit, or of two of different objects.
Commit ==
    /\ pend = <<>> /\ edits < MaxEdits
    /\ \E e1 \in Edits(conf) :
         \/ /\ conf' = e1.conf /\ pend' = Dispatch(e1.events)
            /\ edits' = edits + 1
         \/ /\ edits + 2 <= MaxEdits
            /\ \E e2 \in {e \in Edits(e1.conf) : Apart(e1.on, e.on)} :
                  conf' = e2.conf /\ pend' = Dispatch(e1.events \o e2.events)
            /\ edits' = edits + 2
    /\ UNCHANGED <<nacm, denied, reading, undefined>>

\* The next of the four callbacks, on the data thread.
RunCallback ==
    /\ pend # <<>>
    /\ nacm' = Handle(nacm, Callback[Len(Callback) - Len(pend) + 1], Head(pend))
    /\ pend' = Tail(pend)
    /\ undefined' = (reading /\ Head(pend) # <<>>)
    /\ UNCHANGED <<conf, denied, edits, reading>>

Count(what) == /\ \A k \in DOMAIN denied : denied[k] < MaxDenied
               /\ denied' = [denied EXCEPT ![what] = @ + 1]

\* ncac_check_operation refuses an RPC, an action or a notification.
DenyOperation ==
    /\ \E u \in User, o \in Operation :
         /\ ~CheckOperation(nacm, o, u)
         /\ Count(IF o.kind = "notif" THEN "notifications" ELSE "operations")
    /\ UNCHANGED <<conf, nacm, pend, edits, reading, undefined>>

\* ncac_check_diff refuses an edit.
DenyWriting ==
    /\ \E u \in User, d \in Diff : CheckDiff(nacm, d, u) # None
    /\ Count("data-writes")
    /\ UNCHANGED <<conf, nacm, pend, edits, reading, undefined>>

\* ncac_check_yang_push_update_notif reads nacm without nacm.lock.
PushCheckStart ==
    /\ ~reading /\ reading' = TRUE
    /\ UNCHANGED <<conf, nacm, pend, denied, edits, undefined>>

PushCheckEnd ==
    /\ reading /\ reading' = FALSE
    /\ UNCHANGED <<conf, nacm, pend, denied, edits, undefined>>

Next ==
    /\ ~undefined
    /\ \/ Commit \/ RunCallback \/ DenyOperation \/ DenyWriting
       \/ PushCheckStart \/ PushCheckEnd

Spec == Init /\ [][Next]_vars

-----------------------------------------------------------------------------
(* What the configuration means, stated on conf. *)

ConfGroups(u) ==
    {g \in DOMAIN conf.groups : u \in conf.groups[g]}
    \cup IF conf.param["enable-external-groups"] THEN SystemGroups[u] ELSE {}

ConfRules(u) ==
    LET gs    == ConfGroups(u)
        lists == SelectSeq(conf.lists, LAMBDA l : gs # {} /\ (AnyGroup \in l.groups \/ gs \cap l.groups # {}))
    IN  FlattenSeq([i \in DOMAIN lists |-> [k \in DOMAIN lists[i].rules |-> lists[i].rules[k].body]])

Covers(t, p) == Len(t) <= Len(p) /\ \A i \in DOMAIN t : StepMatch(t[i], p[i])

Applies(b, n, oper) ==
    /\ oper \in b.ops \/ b.ops = {Star}
    /\ b.module \in {Star, n.module}
    /\ CASE b.type = "none" -> TRUE
         [] b.type = "rpc-name" -> n.kind = "rpc" /\ b.target \in {Star, n.name}
         [] b.type = "notification-name" -> n.kind = "notif" /\ Len(n.path) = 1 /\ b.target \in {Star, n.name}
         [] b.type = "path" -> n.kind \notin {"rpc", "notif"} /\ Covers(b.target, n.path)

\* The first rule of the user that applies decides; None without one.
ByRule(u, n, oper) ==
    LET rs  == ConfRules(u)
        hit == SelectInSeq(rs, LAMBDA b : Applies(b, n, oper))
    IN  IF hit = 0 THEN None ELSE rs[hit].action

Permitted(u, n, oper) ==
    LET r == ByRule(u, n, oper) IN
    IF r # None THEN r = "permit"
    ELSE /\ n.path \notin DenyAll
         /\ n.path \in DenyWrite => oper \in {"read", "exec"}
         /\ ~conf.param[DefaultOf(oper)]

Open(u) == ~conf.param["enable-nacm"] \/ u \in Recovery

\* A node is shown when it is permitted, when a rule permits something below
\* it, or when it is the key of a shown list entry.
Visible(u) ==
    LET shown == {p \in Data : \/ Permitted(u, DataNode(p), "read")
                               \/ \E d \in Below(p) : ByRule(u, DataNode(d), "read") = "permit"}
    IN  IF Open(u) THEN Data ELSE shown \cup {p \in Key : Front(p) \in shown}

-----------------------------------------------------------------------------
(* Properties. *)

Sorted(s) == \A i, j \in DOMAIN s : i < j => s[i] < s[j]

MirrorBody(b) ==
    [module |-> IF b.module = Star THEN None ELSE b.module,
     type   |-> IF b.type = "none" THEN "any" ELSE b.type,
     target |-> IF b.type = "none" \/ b.target = Star THEN None ELSE b.target,
     ops    |-> IF b.ops = {Star} THEN AccessOp ELSE b.ops,
     deny   |-> b.action = "deny"]

\* State has the shape of struct ncac (netconf_acm.h).
TypeOK ==
    /\ nacm.param \in [Param -> BOOLEAN]
    /\ \A i \in DOMAIN nacm.groups : nacm.groups[i].name \in Group /\ Range(nacm.groups[i].users) \subseteq User
    /\ \A i \in DOMAIN nacm.lists :
          /\ nacm.lists[i].name \in ListName
          /\ Sorted(nacm.lists[i].groups)
          /\ \A k \in DOMAIN nacm.lists[i].rules : nacm.lists[i].rules[k].type \in TargetLeaf \cup {"any"}
    /\ denied \in [{"operations", "data-writes", "notifications"} -> 0..MaxDenied]
    /\ edits \in 0..MaxEdits /\ reading \in BOOLEAN /\ undefined \in BOOLEAN

\* Once the four callbacks of a commit have run, the server's copy says what
\* the configuration says: the same groups and users, and the same rule lists
\* and rules in the same order, however items were created, moved and deleted.
MirrorExact ==
    pend = <<>> =>
        /\ nacm.param = conf.param
        /\ Len(nacm.groups) = Cardinality(DOMAIN conf.groups)
        /\ \A i \in DOMAIN nacm.groups :
              LET g == nacm.groups[i] IN
              g.name \in DOMAIN conf.groups /\ Range(g.users) = conf.groups[g.name]
        /\ Len(nacm.lists) = Len(conf.lists)
        /\ \A i \in DOMAIN nacm.lists :
              LET l == nacm.lists[i] k == conf.lists[i] IN
              /\ l.name = k.name /\ Range(l.groups) = k.groups
              /\ Len(l.rules) = Len(k.rules)
              /\ \A r \in DOMAIN l.rules :
                    /\ l.rules[r].name = k.rules[r].name
                    /\ \A f \in DOMAIN MirrorBody(k.rules[r].body) :
                          l.rules[r][f] = MirrorBody(k.rules[r].body)[f]

\* The data a user is shown (ncac_check_data_read_filter) is what the
\* configuration makes visible: subtrees pruned early, or entered because a
\* rule matches further down, never show or hide a node wrongly.
ReadExact == pend = <<>> => \A u \in User : ReadFilter(nacm, u) = Visible(u)

\* An operation is allowed (ncac_check_operation) exactly when the first
\* applicable rule of the user's groups, or the default, permits it, and its
\* parent node may be read.
OperationExact ==
    pend = <<>> => \A u \in User, o \in Operation :
        CheckOperation(nacm, o, u) <=>
            \/ Open(u) \/ o.exempt
            \/ /\ Permitted(u, o, IF o.kind = "notif" THEN "read" ELSE "exec")
               /\ Len(o.path) > 1 => Permitted(u, DataNode(Front(o.path)), "read")

\* An edit is refused (ncac_check_diff) only for a node of it that the user
\* may not change in that way.
RefusalJustified ==
    pend = <<>> => \A u \in User, d \in Diff :
        LET bad == CheckDiff(nacm, d, u) IN
        bad # None =>
            \E p \in DOMAIN d : \E i \in DOMAIN d[p] :
                /\ d[p][i].path = bad /\ d[p][i].op # "none"
                /\ ~Permitted(u, DataNode(bad), OperOf(d[p][i].op)) /\ ~Open(u)
=============================================================================
