------------------------------- MODULE Filter -------------------------------
(***************************************************************************)
(* Subtree filters and the data they retrieve (src/common.c, src/netconf.c,*)
(* src/netconf_nmda.c).                                                    *)
(*                                                                         *)
(* A data tree is a prefix-closed set of paths.  A path is a sequence of   *)
(* nodes <<name, value>>: the value is that of a leaf, the key of a list   *)
(* instance, None for a container.  A subtree filter is a function from its*)
(* nodes to their values (None: no value, or only white space); a node is  *)
(* the sequence of <<name, index>> from the top, the index telling apart   *)
(* siblings of one name.                                                   *)
(*                                                                         *)
(* An XPath expression is a sequence of steps, each with the names it      *)
(* accepts and its predicates: [leaf='value'] is <<leaf, value>>, and      *)
(* [text()='value'] is <<None, value>>.  An NP2 filter is the set of its   *)
(* expressions: they are only ever merged, in no observable order.         *)
(***************************************************************************)
EXTENDS Naturals, Sequences, FiniteSets

CONSTANTS
    Name,       \* names of data nodes
    ModuleOf,   \* the module that defines each name
    KeyLeaf,    \* the key leaf of each list: a function from list names
    ConfigFalse,\* names of state nodes
    None

PathName(p) == p[Len(p)][1]
PathValue(p) == p[Len(p)][2]
Parent(p) == SubSeq(p, 1, Len(p) - 1)
AtOrAbove(p, q) == Len(p) <= Len(q) /\ SubSeq(q, 1, Len(p)) = p

\* External: what lyd_find_xpath and sr_get_data do with such an expression.
Holds(d, p, pred) ==
    IF pred[1] = None THEN PathValue(p) = pred[2] ELSE Append(p, pred) \in d

Find(d, x) ==
    {p \in d : /\ Len(p) = Len(x)
               /\ \A i \in 1..Len(x) :
                     /\ p[i][1] \in x[i].names
                     /\ \A pred \in x[i].preds : Holds(d, SubSeq(p, 1, i), pred)}

\* The nodes S with everything below them, their parents, and the keys of the
\* list instances among the parents.
WithParents(d, S) ==
    LET up(q) == \E p \in S : AtOrAbove(q, p)
    IN  {q \in d : \/ up(q)
                   \/ \E p \in S : AtOrAbove(p, q)
                   \/ /\ Len(q) > 1
                      /\ up(Parent(q))
                      /\ PathName(Parent(q)) \in DOMAIN KeyLeaf
                      /\ PathName(q) = KeyLeaf[PathName(Parent(q))]}

-----------------------------------------------------------------------------
(* From a subtree filter to expressions. *)

StepTo(n, preds) == [names |-> {n}, preds |-> preds]
Star == <<[names |-> Name, preds |-> {}]>>

Children(F, f) == {g \in DOMAIN F : Len(g) = Len(f) + 1 /\ AtOrAbove(f, g)}

\* filter_xpath_buf_append_content: the content match children of a node become
\* predicates of its step.
AppendContent(F, f) ==
    {<<PathName(g), F[g]>> : g \in {h \in Children(F, f) : F[h] # None}}

\* filter_xpath_buf_append_node: one step for each node from the top; a node
\* of the buffer already carries its predicates when a child is appended.
AppendNode(F, f, preds) ==
    [i \in 1..Len(f) |->
        StepTo(f[i][1], IF i < Len(f) THEN AppendContent(F, SubSeq(f, 1, i)) ELSE preds)]

AddFilter(x, selection) == [xpath |-> x, selection |-> selection]

\* filter_xpath_buf_add_top_content: a top-level leaf with a value.
AddTopContent(F, f) == AddFilter(<<StepTo(PathName(f), {<<None, F[f]>>})>>, FALSE)

OnlyContentMatch(F, f) == \A g \in Children(F, f) : F[g] # None

\* Mutant: next to a selection node, content match nodes are not selected.
AddRSelections(F) ==
    LET inner == {f \in DOMAIN F : Children(F, f) # {}}
        mixed == {f \in inner : ~OnlyContentMatch(F, f)}
        leaves == {f \in DOMAIN F \ inner : F[f] = None}
    IN  {AddFilter(AppendNode(F, f, {}), TRUE) : f \in leaves}
        \cup {AddFilter(AppendNode(F, f, AppendContent(F, f)), FALSE) : f \in inner \ mixed}

\* filter_xpath_buf_add_r, for every node the recursion visits: a node without
\* children is a selection node; one with only content match children is
\* retrieved as a subtree; otherwise each childless child is selected, a content
\* match child included.
AddR(F) ==
    LET inner == {f \in DOMAIN F : Children(F, f) # {}}
        mixed == {f \in inner : ~OnlyContentMatch(F, f)}
        leaves == {f \in DOMAIN F \ inner :
                      IF Len(f) = 1 THEN F[f] = None ELSE Parent(f) \in mixed}
    IN  {AddFilter(AppendNode(F, f, {}), TRUE) : f \in leaves}
        \cup {AddFilter(AppendNode(F, f, AppendContent(F, f)), FALSE) : f \in inner \ mixed}

Subtree2Xpath(F) ==
    AddR(F) \cup {AddTopContent(F, f) : f \in {g \in DOMAIN F : Len(g) = 1 /\ F[g] # None}}

\* The filter of an RPC without one, or with an XPath expression.
SingleFilter(x) == {AddFilter(x, TRUE)}

\* op_filter_filter2xpath: one expression for a subscription, as the set of the
\* expressions of the union; a content match filter must be alone.
Filter2Xpath(flt) ==
    IF Cardinality(flt) > 1 /\ \E e \in flt : ~e.selection
    THEN None
    ELSE {e.xpath : e \in flt}

-----------------------------------------------------------------------------
(* Retrieving data. *)

\* sr_get_data (external): the subtrees an expression selects, at most depth
\* levels of them (0: all).
GetData(d, x, depth) ==
    LET hit == Find(d, x)
    IN  {p \in WithParents(d, hit) :
            depth = 0 \/ \A h \in hit : Len(p) < Len(h) + depth}

DataGet(d, flt, depth) == UNION {GetData(d, e.xpath, depth) : e \in flt}

DataFilter(d, flt, withSelection) ==
    LET used == {e \in flt : withSelection \/ ~e.selection}
    IN  IF used = {} THEN d
        ELSE UNION {WithParents(d, Find(d, e.xpath)) : e \in used}

\* np2srv_get_first_ns and np2srv_get_rpc_module_filters: everything of the
\* module an expression starts with, when it starts with one.
FirstNs(x) == IF Cardinality(x[1].names) = 1
              THEN ModuleOf[CHOOSE n \in x[1].names : TRUE]
              ELSE None

ModuleFilters(flt) ==
    {IF FirstNs(e.xpath) = None THEN e
     ELSE AddFilter(<<[names |-> {n \in Name : ModuleOf[n] = FirstNs(e.xpath)}, preds |-> {}]>>, TRUE)
     : e \in flt}

\* The data of a <get-config>, and of a <get>: the configuration in running
\* with the state data of the operational datastore.
GetConfigRpcData(d, flt) == DataFilter(DataGet(d, flt, 0), flt, FALSE)

GetRpcData(running, state, flt) ==
    LET mods == ModuleFilters(flt)
    IN  DataFilter(DataGet(running, mods, 0) \cup DataGet(state, mods, 0), flt, TRUE)

\* op_data_filter_origin: configuration with an origin that does not match (or,
\* negated, matches) is removed with all below it, for one filter after another;
\* what one removed no other would keep, so they may be taken together.  orig
\* maps the nodes that carry an origin to it.
FilterOrigin(d, orig, origins) ==
    LET out == {p \in d \cap DOMAIN orig :
                   /\ \E o \in origins : (orig[p] \in o.matching) = o.negated
                   /\ PathName(p) \notin ConfigFalse}
    IN  {p \in d : \A q \in out : ~AtOrAbove(q, p)}

GetDataRpcData(d, flt, depth, orig, origins) ==
    FilterOrigin(DataFilter(DataGet(d, flt, depth), flt, FALSE), orig, origins)
=============================================================================
