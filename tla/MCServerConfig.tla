--------------------------- MODULE MCServerConfig ---------------------------
(* Two endpoints to listen on and one call-home client with an endpoint.   *)
EXTENDS ServerConfig

MCAuth == {"publickey", "password", "interactive"}

Ssh(leaves) == [type |-> "ssh", leaves |-> leaves]
Tls(leaves) == [type |-> "tls", leaves |-> leaves]
Client(leaves) == [type |-> "client", leaves |-> leaves]

A(n) == <<"address", n>>
Keep(n) == {<<"keepalives", None>>, <<"idle-time", n>>}

First ==
  {Ssh({A(1), <<"host-key", "k1">>, <<"auth", "publickey">>}),
   Ssh({A(2), <<"host-key", "k2">>, <<"auth", "publickey">>,
        <<"auth", "password">>, <<"auth", "none">>} \cup Keep(2)),
   Ssh({A(1)} \cup Keep(3)),
   Tls({A(1), <<"certificate", "c1">>, <<"ca-certs", "t1">>,
        <<"cert-to-name", 1>>}),
   Tls({A(1), <<"certificate", "c2">>, <<"ca-certs", "t2">>,
        <<"cert-to-name", 2>>} \cup Keep(2)),
   Tls({A(2), <<"optional", None>>})}

Second == {Ssh({A(3)} \cup Keep(4)), Tls({A(3), <<"certificate", "c1">>} \cup Keep(4))}

Clients == {Client({<<"connection", "persistent">>, <<"max-attempts", 3>>}),
            Client({<<"connection", "periodic">>, <<"period", 5>>,
                    <<"max-attempts", 4>>})}

OtherClients == {Client({<<"connection", "periodic">>, <<"period", 7>>,
                         <<"max-attempts", 3>>})}

Home == {Ssh({A(1), <<"host-key", "k1">>, <<"auth", "interactive">>}),
         Tls({A(2), <<"certificate", "c1">>, <<"ca-certs", "t1">>,
              <<"cert-to-name", 1>>} \cup Keep(2)),
         Tls({A(1), <<"certificate", "c2">>, <<"ca-certs", "t2">>})}

(* The values an entry may have, with None for an entry that is not there. *)
Entry(id, values) == {<<id, v>> : v \in values \cup {None}}

Node(entries) ==
  LET there == {e \in entries : e[2] # None}
  IN [id \in {e[1] : e \in there} |-> (CHOOSE e \in there : e[1] = id)[2]]

(* No callback for listening looks at call-home data or the other way      *)
(* round: one of the two parts at a time is enough.                        *)
ListenConfigs ==
  {[idle |-> 60, node |-> Node({e1, e2})] :
     e1 \in Entry(<<Listen, "e1">>, First),
     e2 \in Entry(<<Listen, "e2">>, Second)}

HomeConfigs ==
  {[idle |-> 90, node |-> Node({c1, c2} \cup (IF c1[2] = None THEN {} ELSE {h}))] :
     c1 \in Entry(<<"c1", None>>, Clients),
     c2 \in Entry(<<"c2", None>>, OtherClients),
     h  \in Entry(<<"c1", "e1">>, Home)}

MCConfigs == ListenConfigs \cup HomeConfigs
=============================================================================
