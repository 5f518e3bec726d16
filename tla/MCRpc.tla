------------------------------- MODULE MCRpc -------------------------------
(* A small instance of Rpc: a container with a list and a leaf, a top-level *)
(* leaf of another module; all subtree filters over them.                   *)
EXTENDS Rpc, TLC

CONSTANTS s1, s2

MCName == {"a", "l", "k", "v", "x", "z", "t"}
MCModuleOf == [n \in MCName |-> IF n = "t" THEN "n" ELSE "m"]
MCKeyLeaf == [n \in {"l"} |-> "k"]

a == <<<<"a", None>>>>
l(i) == Append(a, <<"l", i>>)
Entry(i, leaves) == {l(i), Append(l(i), <<"k", i>>)} \cup {Append(l(i), e) : e \in leaves}
t(i) == <<<<"t", i>>>>
Large == {a, Append(a, <<"z", 7>>), t(9)} \cup Entry(1, {<<"v", 5>>}) \cup Entry(2, {<<"v", 6>>})
Small == {t(8)}
MCContent == {{a, Append(a, <<"z", 7>>), t(8)}}
MCOperational == {a} \cup Entry(1, {<<"x", 3>>})
MCHidden == [s \in Session |-> IF s = s1 THEN {"z"} ELSE {}]
MCGetFilter == {SingleFilter(Star)}

\* Every subtree filter with at most two list entries: l(1) with up to three
\* leaves, l(2) with its key, each leaf with or without a value.
fa == <<<<"a", 1>>>>
fl(i) == Append(fa, <<"l", i>>)
FilterLeaf == (Append(fa, <<"z", 1>>) :> 7) @@ (Append(fl(1), <<"k", 1>>) :> 1)
              @@ (Append(fl(1), <<"v", 1>>) :> 5) @@ (Append(fl(1), <<"x", 1>>) :> 3)
              @@ (Append(fl(2), <<"k", 1>>) :> 2) @@ (<<<<"t", 1>>>> :> 9)
Closed == {S \in SUBSET ({fa, fl(1), fl(2)} \cup DOMAIN FilterLeaf) :
              \A f \in S : Len(f) > 1 => Parent(f) \in S}
SubtreeFilter ==
    UNION {{[f \in S |-> IF f \in V THEN FilterLeaf[f] ELSE None]
             : V \in SUBSET (S \cap DOMAIN FilterLeaf)} : S \in Closed}

-----------------------------------------------------------------------------
(* RFC 6241, section 6.2, read as a recursion over the filter.             *)

Below(d, p) == {q \in d : AtOrAbove(p, q)}
Kids(d, p) == {q \in d : Len(q) = Len(p) + 1 /\ AtOrAbove(p, q)}

RECURSIVE Selected(_, _, _, _)
Selected(F, f, d, p) ==
    LET kids == Children(F, f)
        match == {g \in kids : F[g] # None}
        hits(g) == {q \in Kids(d, p) : PathName(q) = PathName(g)}
        agrees(g) == {q \in hits(g) : PathValue(q) = F[g]}
        inner == UNION {Selected(F, g, d, q) : <<g, q>> \in
                            {<<g, q>> \in (kids \ match) \X Kids(d, p) : q \in hits(g)}}
                 \cup UNION {agrees(g) : g \in match}
        keys == {q \in Kids(d, p) : PathName(p) \in DOMAIN KeyLeaf /\ PathName(q) = KeyLeaf[PathName(p)]}
    IN  IF \E g \in match : agrees(g) = {} THEN {}
        ELSE IF kids = match THEN Below(d, p)
        ELSE IF inner = {} THEN {} ELSE {p} \cup keys \cup inner

Reference(F, d) ==
    UNION {Selected(F, f, d, p) : <<f, p>> \in
              {<<f, p>> \in (DOMAIN F) \X d : /\ Len(f) = 1 /\ Len(p) = 1
                                            /\ PathName(f) = PathName(p)
                                            /\ F[f] \in {None, PathValue(p)}}}

\* The operators do not depend on the state: it is enough to look at them before
\* the first request.
Fresh == calls = 0 /\ faults = 0

\* <get> returns what the subtree filter selects from the configuration together
\* with the state data, for every filter; so does <get-config> for filters whose
\* expressions are all selections, or all content matches, and so does the one
\* expression of a subscription, when there is one (op_filter_subtree2xpath,
\* op_filter_data_get, op_filter_data_filter, op_filter_filter2xpath).
FilterExact ==
    Fresh => \A F \in SubtreeFilter, d \in {Large, Small} :
        LET flt == Subtree2Xpath(F)
        IN  /\ GetRpcData(d, MCOperational, flt) = Reference(F, d \cup MCOperational)
            /\ Cardinality({e.selection : e \in flt}) < 2 => GetConfigRpcData(d, flt) = Reference(F, d)
            /\ Filter2Xpath(flt) # None =>
                  UNION {GetData(d, x, 0) : x \in Filter2Xpath(flt)} = Reference(F, d)
=============================================================================
