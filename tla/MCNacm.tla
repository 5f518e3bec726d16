------------------------------- MODULE MCNacm -------------------------------
(* A small instance of Nacm: a container with two list entries. *)
EXTENDS Nacm

CONSTANTS u1, l1, l2, r1, r2

St(n, k) == [name |-> n, key |-> k]
pA  == <<St("a", None)>>
pB1 == pA \o <<St("b", 1)>>
pB2 == pA \o <<St("b", 2)>>
pK1 == pB1 \o <<St("k", None)>>
pV1 == pB1 \o <<St("v", None)>>
tB  == pA \o <<St("b", None)>>
MCData == {pA, pB1, pB2, pK1, pV1}
MCKey == {pK1}
MCDenyAll == {pV1}
MCDenyWrite == {pB2}

B(m, t, x, o, a) == [module |-> m, type |-> t, target |-> x, ops |-> o, action |-> a]
MCBody == {B(Star, "path", pB1, {"read"}, "permit"),
           B(Star, "path", tB, {Star}, "deny"),
           B("m", "none", None, {Star}, "permit"),
           B(Star, "rpc-name", "edit", {"exec"}, "deny")}

Op(k, n, p, e) == [kind |-> k, name |-> n, path |-> p, module |-> "m", exempt |-> e]
MCOperation == {Op("rpc", "edit", <<St("edit", None)>>, FALSE),
                Op("rpc", "close-session", <<St("close-session", None)>>, TRUE),
                Op("action", "act", pB1 \o <<St("act", None)>>, FALSE),
                Op("notif", "ntf", <<St("ntf", None)>>, FALSE)}

MCDiff == {(<<>> :> <<[path |-> pA, op |-> "none"]>>) @@
           (pA :> <<[path |-> pB1, op |-> "none"], [path |-> pB2, op |-> "create"]>>) @@
           (pB1 :> <<[path |-> pV1, op |-> "replace"]>>)}

MCSymmetry == Permutations({l1, l2}) \cup Permutations({r1, r2})

MCSystem == [u \in User |-> IF u = u1 THEN {25} ELSE {}]
=============================================================================
