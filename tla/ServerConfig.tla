---------------------------- MODULE ServerConfig ----------------------------
(***************************************************************************)
(* How the ietf-netconf-server configuration reaches libnetconf2: the      *)
(* callbacks of netconf_server.c, netconf_server_ssh.c and                 *)
(* netconf_server_tls.c.                                                   *)
(*                                                                         *)
(* A commit hands every callback, in the order of the subscriptions, the   *)
(* changes under its path.  A callback walks over its changes and calls    *)
(* libnetconf2 once for each; the copy libnetconf2 keeps (nc) must end up  *)
(* equal to the configuration (conf).  The callbacks run after the commit  *)
(* is done, so an error they return undoes nothing.  It only ends the      *)
(* walk, and the changes left are lost.                                    *)
(*                                                                         *)
(* An endpoint is named <<owner, name>>, where the owner is Listen or a    *)
(* call-home client; a client itself is named <<client, None>>.  What is   *)
(* configured for one is a set of leaves <<kind, value>>.                  *)
(***************************************************************************)
EXTENDS Naturals, Sequences, FiniteSets, FiniteSetsExt, Functions

CONSTANTS
  Listen,       \* the owner of the endpoints the server listens on
  None,
  AuthMethod,   \* the authentication methods libnetconf2 knows
  Configs,      \* the configurations commits choose from
  MaxCommits    \* bound on the commits after the server has started

VARIABLES
  conf,      \* the running configuration
  old,       \* the configuration before the last commit
  nc,        \* the copy in libnetconf2
  cb,        \* index of the next callback of the last commit
  lost,      \* names whose change failed or was skipped (history)
  mixed,     \* names whose nested parameters were not told apart (history)
  commits

vars == <<conf, old, nc, cb, lost, mixed, commits>>

NoConfig == [idle |-> None, node |-> <<>>]

Values(leaves, k) == {l[2] : l \in {m \in leaves : m[1] = k}}

Has(n, id) == id \in DOMAIN n.node

-----------------------------------------------------------------------------
(***************************************************************************)
(* libnetconf2 as the callbacks use it.  A name is taken by one transport  *)
(* at a time, and deleting a client deletes its endpoints.                 *)
(***************************************************************************)
CanAdd(n, id) ==
  /\ ~Has(n, id)
  /\ id[1] # Listen /\ id[2] # None => Has(n, <<id[1], None>>)

Add(n, id, type, leaves) ==
  [n EXCEPT !.node = [i \in DOMAIN @ \cup {id} |->
     IF i = id THEN [type |-> type, leaves |-> leaves] ELSE @[i]]]

Drop(n, ids) == [n EXCEPT !.node = Restrict(@, DOMAIN @ \ ids)]

OfType(n, id, type) == Has(n, id) /\ n.node[id].type = type

SetLeaf(n, id, k, v) ==
  [n EXCEPT !.node[id].leaves = {l \in @ : l[1] # k} \cup {<<k, v>>}]

AddLeaf(n, id, k, v) == [n EXCEPT !.node[id].leaves = @ \cup {<<k, v>>}]

DelLeaf(n, id, k, v) == [n EXCEPT !.node[id].leaves = @ \ {<<k, v>>}]

AuthOff(n, id) ==
  IF OfType(n, id, "ssh")
  THEN [n EXCEPT !.node[id].leaves = {l \in @ : l[1] # "auth"}] ELSE n

-----------------------------------------------------------------------------
(***************************************************************************)
(* The changes of a commit (sysrepo).  A leaf with one value is modified,  *)
(* the others are created and deleted.  A change is only reported for the  *)
(* node that changed, not for the containers around it.                    *)
(***************************************************************************)
Single == {"address", "certificate", "ca-certs", "idle-time", "period",
           "max-attempts"}

LeavesOf(c, id, type) ==
  IF OfType(c, id, type)
  THEN c.node[id].leaves \cup {<<"node", None>>} ELSE {}

LeafChanges(id, type, k, a, b) ==
  LET change(op, v, p) == [op |-> op, id |-> id, type |-> type, kind |-> k,
                           val |-> v, prev |-> p]
      gone == Values(a, k) \ Values(b, k)
      new  == Values(b, k) \ Values(a, k)
  IN IF k \in Single /\ gone # {} /\ new # {}
     THEN {change("modified", CHOOSE v \in new : TRUE,
                              CHOOSE p \in gone : TRUE)}
     ELSE {change("created", v, None) : v \in new} \cup
          {change("deleted", v, None) : v \in gone}

ChangesIn(from, to, listen, type, kinds) ==
  UNION {LeafChanges(id, type, k, LeavesOf(from, id, type),
                     LeavesOf(to, id, type)) :
           id \in {i \in DOMAIN from.node \cup DOMAIN to.node :
                     /\ (i[1] = Listen) = listen
                     /\ LeavesOf(from, i, type) # LeavesOf(to, i, type)},
           k \in kinds}

-----------------------------------------------------------------------------
(***************************************************************************)
(* A walk over changes, one after another: the copy, the names lost, and   *)
(* whether an error has ended the walk.                                    *)
(***************************************************************************)
Set(w, n) == [w EXCEPT !.nc = n]

Fail(w, e) == [w EXCEPT !.lost = @ \cup {e.id}]

Stop(w, e) == [Fail(w, e) EXCEPT !.stop = TRUE]

SetOrStop(w, e, ok, n) == IF ok THEN Set(w, n) ELSE Stop(w, e)

Walk(w, Step(_, _), changes) ==
  FoldSet(LAMBDA e, v : IF v.stop THEN Fail(v, e) ELSE Step(v, e), w, changes)

(* Mutant: only parameters that were there before are looked at. *)
KeepalivesKept(n, id, nested) ==
  IF ~Has(n, id) THEN n
  ELSE FoldSet(LAMBDA e, m : IF e.op = "created" THEN m ELSE SetLeaf(m, id, e.kind, e.val), n, nested)

(* The parameters inside a container: the path names no endpoint, so the   *)
(* changes of every endpoint are walked, and the last one remains.         *)
Keepalives(n, id, nested) ==
  IF ~Has(n, id) THEN n
  ELSE FoldSet(LAMBDA e, m : SetLeaf(m, id, e.kind, IF e.op = "deleted" THEN 1
                                                    ELSE e.val), n, nested)

(* Mutant: a new address is added to the one before. *)
EndptTcpParamsAdds(w, e, nested) ==
  IF e.op = "deleted" \/ ~Has(w.nc, e.id) THEN w
  ELSE Set(w, Keepalives(AddLeaf(w.nc, e.id, e.kind, e.val), e.id, nested))

EndptTcpParams(w, e, nested) ==
  CASE e.kind = "address" ->
         IF e.op = "deleted" THEN w
         ELSE IF Has(w.nc, e.id) THEN Set(w, SetLeaf(w.nc, e.id, e.kind, e.val))
              ELSE Fail(w, e)
    [] e.kind = "keepalives" /\ e.op = "created" ->
         IF Has(w.nc, e.id)
         THEN Set(w, Keepalives(AddLeaf(w.nc, e.id, e.kind, e.val), e.id, nested))
         ELSE Fail(w, e)
    [] e.kind = "keepalives" /\ e.op = "deleted" ->
         IF Has(w.nc, e.id)
         THEN Set(w, Keepalives(DelLeaf(w.nc, e.id, e.kind, e.val), e.id, nested))
         ELSE w

ChEndptTcpParams(w, e, nested) ==
  IF e.op # "deleted" /\ ~Has(w.nc, e.id) THEN Stop(w, e)
  ELSE EndptTcpParams(w, e, nested)

(* Mutant: the methods of a new endpoint are not turned off. *)
AddSshOpen(w, e) ==
  IF CanAdd(w.nc, e.id) THEN Set(w, Add(w.nc, e.id, "ssh", {"auth"} \X AuthMethod)) ELSE w

(* A new SSH endpoint accepts every method until they are turned off. *)
AddSsh(w, e) ==
  Set(w, AuthOff(IF CanAdd(w.nc, e.id)
                 THEN Add(w.nc, e.id, "ssh", {"auth"} \X AuthMethod)
                 ELSE w.nc, e.id))

(* Listening over SSH: an error is noted and the walk goes on. *)
EndptSsh(w, e) ==
  IF e.op = "created"
  THEN IF CanAdd(w.nc, e.id) THEN AddSsh(w, e) ELSE Fail(AddSsh(w, e), e)
  ELSE IF OfType(w.nc, e.id, "ssh") THEN Set(w, Drop(w.nc, {e.id}))
       ELSE Fail(w, e)

ChEndptSsh(w, e) ==
  IF e.op = "created"
  THEN IF CanAdd(w.nc, e.id) THEN AddSsh(w, e) ELSE Stop(AddSsh(w, e), e)
  ELSE SetOrStop(w, e, OfType(w.nc, e.id, "ssh"), Drop(w.nc, {e.id}))

(* Mutant: a deleted host key is not deleted. *)
EndptSshHostkeyKeeps(w, e) ==
  IF e.op = "deleted" THEN w
  ELSE SetOrStop(w, e, OfType(w.nc, e.id, "ssh"), AddLeaf(w.nc, e.id, e.kind, e.val))

EndptSshHostkey(w, e) ==
  CASE e.op = "created" ->
         SetOrStop(w, e, OfType(w.nc, e.id, "ssh"),
                   AddLeaf(w.nc, e.id, e.kind, e.val))
    [] e.op = "deleted" ->
         IF ~Has(w.nc, e.id) THEN w
         ELSE SetOrStop(w, e, OfType(w.nc, e.id, "ssh") /\
                              <<e.kind, e.val>> \in w.nc.node[e.id].leaves,
                        DelLeaf(w.nc, e.id, e.kind, e.val))

ChEndptSshHostkey(w, e) == EndptSshHostkey(w, e)

SshUpdateAuthMethod(n, e) ==
  IF e.val \notin AuthMethod THEN n
  ELSE IF e.op = "created" THEN AddLeaf(n, e.id, "auth", e.val)
       ELSE DelLeaf(n, e.id, "auth", e.val)

EndptSshAuthMethods(w, e) ==
  IF e.op = "deleted" /\ ~Has(w.nc, e.id) THEN w
  ELSE SetOrStop(w, e, OfType(w.nc, e.id, "ssh"), SshUpdateAuthMethod(w.nc, e))

ChEndptSshAuthMethods(w, e) == EndptSshAuthMethods(w, e)

EndptTls(w, e) ==
  IF e.op = "created"
  THEN SetOrStop(w, e, CanAdd(w.nc, e.id), Add(w.nc, e.id, "tls", {}))
  ELSE SetOrStop(w, e, OfType(w.nc, e.id, "tls"), Drop(w.nc, {e.id}))

ChEndptTls(w, e) ==
  IF e.op = "deleted" /\ ~Has(w.nc, <<e.id[1], None>>) THEN w
  ELSE EndptTls(w, e)

EndptTlsServercert(w, e) ==
  IF e.op = "deleted" /\ ~Has(w.nc, e.id) THEN w
  ELSE SetOrStop(w, e, OfType(w.nc, e.id, "tls"),
         IF e.op = "deleted" THEN DelLeaf(w.nc, e.id, e.kind, e.val)
         ELSE SetLeaf(w.nc, e.id, e.kind, e.val))

ChEndptTlsServercert(w, e) == EndptTlsServercert(w, e)

EndptTlsClientAuth(w, e) ==
  CASE e.kind = "optional" -> Stop(w, e)
    [] e.kind = "ca-certs" /\ e.op = "deleted" /\ ~Has(w.nc, e.id) -> w
    [] OTHER ->
         SetOrStop(w, e, OfType(w.nc, e.id, "tls") /\
                         (e.op = "deleted" => <<e.kind, e.val>> \in
                                              w.nc.node[e.id].leaves),
           CASE e.op = "created"  -> AddLeaf(w.nc, e.id, e.kind, e.val)
             [] e.op = "deleted"  -> DelLeaf(w.nc, e.id, e.kind, e.val)
             [] e.op = "modified" ->
                  AddLeaf(DelLeaf(w.nc, e.id, e.kind, e.prev),
                          e.id, e.kind, e.val))

ChEndptTlsClientAuth(w, e) == EndptTlsClientAuth(w, e)

EndptTlsClientCtn(w, e) ==
  IF e.op = "deleted" /\ ~Has(w.nc, e.id) THEN w
  ELSE SetOrStop(w, e, OfType(w.nc, e.id, "tls") /\
                       (e.op = "deleted" => <<e.kind, e.val>> \in
                                            w.nc.node[e.id].leaves),
         IF e.op = "created" THEN AddLeaf(w.nc, e.id, e.kind, e.val)
         ELSE DelLeaf(w.nc, e.id, e.kind, e.val))

ChEndptTlsClientCtn(w, e) == EndptTlsClientCtn(w, e)

(* Call-home clients. *)
ChClient(w, e) ==
  IF e.op = "created"
  THEN SetOrStop(w, e, CanAdd(w.nc, e.id), Add(w.nc, e.id, "client", {}))
  ELSE SetOrStop(w, e, Has(w.nc, e.id),
         Drop(w.nc, {i \in DOMAIN w.nc.node : i[1] = e.id[1]}))

(* The path names no client: the changes of every client are applied. *)
ChPeriodicConnectionParams(w, e, nested) ==
  LET Param(v, p) ==
        IF p.op = "deleted"
        THEN IF Has(v.nc, e.id) THEN Set(v, SetLeaf(v.nc, e.id, p.kind, 60))
             ELSE v
        ELSE SetOrStop(v, e, Has(v.nc, e.id),
                       SetLeaf(v.nc, e.id, p.kind, p.val))
  IN Walk(w, Param, nested)

ChConnectionType(w, e, nested) ==
  LET v == IF e.op = "created"
           THEN SetOrStop(w, e, Has(w.nc, e.id),
                          SetLeaf(w.nc, e.id, "connection", e.val))
           ELSE w
  IN IF v.stop \/ e.val # "periodic" THEN v
     ELSE ChPeriodicConnectionParams(v, e, nested)

ChReconnectStrategy(w, e) ==
  IF e.op = "deleted"
  THEN IF Has(w.nc, e.id) THEN Set(w, SetLeaf(w.nc, e.id, e.kind, 3)) ELSE w
  ELSE SetOrStop(w, e, Has(w.nc, e.id), SetLeaf(w.nc, e.id, e.kind, e.val))

IdleTimeout(w, value) == Set(w, [w.nc EXCEPT !.idle = value])

-----------------------------------------------------------------------------
(***************************************************************************)
(* server_data_subscribe: the callbacks in their order, each with the path *)
(* it is subscribed to, the changes it walks over and the changes one      *)
(* container deeper that it walks over again for each of them.             *)
(***************************************************************************)
Path(listen, type, kinds, nested) ==
  [listen |-> listen, type |-> type, kinds |-> kinds, nested |-> nested]

Subscriptions ==
  << Path(TRUE,  "server", {"idle-timeout"}, {}),
     Path(TRUE,  "ssh", {"node"}, {}),
     Path(TRUE,  "ssh", {"address", "keepalives"}, {"idle-time"}),
     Path(TRUE,  "ssh", {"host-key"}, {}),
     Path(TRUE,  "ssh", {"auth"}, {}),
     Path(TRUE,  "tls", {"node"}, {}),
     Path(TRUE,  "tls", {"address", "keepalives"}, {"idle-time"}),
     Path(TRUE,  "tls", {"certificate"}, {}),
     Path(TRUE,  "tls", {"optional", "ca-certs"}, {}),
     Path(TRUE,  "tls", {"cert-to-name"}, {}),
     Path(FALSE, "client", {"node"}, {}),
     Path(FALSE, "client", {"connection"}, {"period"}),
     Path(FALSE, "client", {"max-attempts"}, {}),
     Path(FALSE, "ssh", {"node"}, {}),
     Path(FALSE, "ssh", {"address", "keepalives"}, {"idle-time"}),
     Path(FALSE, "ssh", {"host-key"}, {}),
     Path(FALSE, "ssh", {"auth"}, {}),
     Path(FALSE, "tls", {"node"}, {}),
     Path(FALSE, "tls", {"address", "keepalives"}, {"idle-time"}),
     Path(FALSE, "tls", {"certificate"}, {}),
     Path(FALSE, "tls", {"optional", "ca-certs"}, {}),
     Path(FALSE, "tls", {"cert-to-name"}, {}) >>

Changes(s, kinds) == ChangesIn(old, conf, s.listen, s.type, kinds)

Called(i) ==
  LET s == Subscriptions[i]
  IN IF s.type = "server" THEN conf.idle # old.idle
     ELSE Changes(s, s.kinds \cup s.nested) # {}

Handle(i, w) ==
  LET s       == Subscriptions[i]
      changes == Changes(s, s.kinds)
      nested  == Changes(s, s.nested)
      Tcp(v, e)   == EndptTcpParams(v, e, nested)
      ChTcp(v, e) == ChEndptTcpParams(v, e, nested)
      Conn(v, e)  == ChConnectionType(v, e, nested)
  IN CASE i = 1  -> IdleTimeout(w, conf.idle)
       [] i = 2  -> Walk(w, EndptSsh, changes)
       [] i \in {3, 7} -> Walk(w, Tcp, changes)
       [] i = 4  -> Walk(w, EndptSshHostkey, changes)
       [] i = 5  -> Walk(w, EndptSshAuthMethods, changes)
       [] i = 6  -> Walk(w, EndptTls, changes)
       [] i = 8  -> Walk(w, EndptTlsServercert, changes)
       [] i = 9  -> Walk(w, EndptTlsClientAuth, changes)
       [] i = 10 -> Walk(w, EndptTlsClientCtn, changes)
       [] i = 11 -> Walk(w, ChClient, changes)
       [] i = 12 -> Walk(w, Conn, changes)
       [] i = 13 -> Walk(w, ChReconnectStrategy, changes)
       [] i = 14 -> Walk(w, ChEndptSsh, changes)
       [] i \in {15, 19} -> Walk(w, ChTcp, changes)
       [] i = 16 -> Walk(w, ChEndptSshHostkey, changes)
       [] i = 17 -> Walk(w, ChEndptSshAuthMethods, changes)
       [] i = 18 -> Walk(w, ChEndptTls, changes)
       [] i = 20 -> Walk(w, ChEndptTlsServercert, changes)
       [] i = 21 -> Walk(w, ChEndptTlsClientAuth, changes)
       [] i = 22 -> Walk(w, ChEndptTlsClientCtn, changes)

(* Names whose container of nested parameters changed, and names whose     *)
(* nested parameters the callback does not tell apart, or does not look at *)
(* because the container did not change.                                   *)
Renewed(i) ==
  LET s == Subscriptions[i]
  IN IF s.nested = {} THEN {}
     ELSE {e.id : e \in Changes(s, {"keepalives", "connection"})}

Blurred(i) ==
  LET nested == {e.id : e \in Changes(Subscriptions[i], Subscriptions[i].nested)}
  IN IF Cardinality(nested) > 1 THEN nested \cup Renewed(i)
     ELSE nested \ Renewed(i)

-----------------------------------------------------------------------------
(***************************************************************************)
(* The server starts with some configuration, which every callback is      *)
(* given as created; an error there ends the server.  Later commits are    *)
(* given to the callbacks one after another by the thread of the data      *)
(* subscriptions.                                                          *)
(***************************************************************************)
Init ==
  /\ conf \in Configs
  /\ old = NoConfig /\ nc = NoConfig
  /\ cb = 1
  /\ lost = {} /\ mixed = {}
  /\ commits = 0

Quiet == cb > Len(Subscriptions)

Commit ==
  /\ Quiet /\ commits < MaxCommits
  /\ conf' \in Configs \ {conf}
  /\ old' = conf
  /\ cb' = 1
  /\ commits' = commits + 1
  /\ UNCHANGED <<nc, lost, mixed>>

RunCallback ==
  LET called == {j \in cb .. Len(Subscriptions) : cb > 0 /\ Called(j)}
      i == Min(called)
      w == Handle(i, [nc |-> nc, lost |-> lost, stop |-> FALSE])
  IN /\ called # {}
     /\ nc' = w.nc
     /\ lost' = w.lost
     /\ cb' = IF commits = 0 /\ w.lost # {} THEN 0 ELSE i + 1
     /\ mixed' = (mixed \ Renewed(i)) \cup Blurred(i)
     /\ UNCHANGED <<conf, old, commits>>

CallbacksDone ==
  /\ cb \in 1 .. Len(Subscriptions)
  /\ \A j \in cb .. Len(Subscriptions) : ~Called(j)
  /\ cb' = Len(Subscriptions) + 1
  /\ UNCHANGED <<conf, old, nc, lost, mixed, commits>>

Next == Commit \/ RunCallback \/ CallbacksDone

Spec == Init /\ [][Next]_vars

-----------------------------------------------------------------------------
(***************************************************************************)
(* Properties                                                              *)
(***************************************************************************)
Ids == UNION {DOMAIN c.node : c \in Configs}

(* libnetconf2 never holds an endpoint of a client it does not hold, nor   *)
(* two addresses or certificates for one endpoint, and the names that were *)
(* lost are configured somewhere (the data np2srv_*_cb callbacks keep).    *)
TypeOK ==
  /\ conf \in Configs /\ old \in Configs \cup {NoConfig}
  /\ cb \in 0 .. Len(Subscriptions) + 1 /\ commits \in 0 .. MaxCommits
  /\ lost \subseteq Ids /\ mixed \subseteq Ids /\ DOMAIN nc.node \subseteq Ids
  /\ \A id \in DOMAIN nc.node :
       /\ id[1] # Listen => Has(nc, <<id[1], None>>)
       /\ \A k \in Single : Cardinality(Values(nc.node[id].leaves, k)) <= 1

Nested == {"idle-time", "period"}

Direct(c, id) ==
  {l \in c.node[id].leaves : /\ l[1] \notin Nested \cup {"optional"}
                             /\ l[1] = "auth" => l[2] \in AuthMethod}

(* Once the callbacks of a commit have run, libnetconf2 has exactly the    *)
(* endpoints and clients that are configured, with the transport, address, *)
(* host keys, methods, certificates and strategy configured for each,      *)
(* except for the names whose own change failed or came after a failure in *)
(* the same callback (np2srv_endpt_ssh_cb ... np2srv_ch_client_cb).        *)
MirrorExact ==
  Quiet =>
    /\ nc.idle = conf.idle
    /\ \A id \in Ids \ lost :
         /\ Has(nc, id) <=> Has(conf, id)
         /\ Has(conf, id) => /\ nc.node[id].type = conf.node[id].type
                             /\ Direct(nc, id) = Direct(conf, id)

(* The keepalive and the periodic connection parameters are those of the   *)
(* configuration when their container came with them and no other name's   *)
(* parameters changed in the same commit (np2srv_tcp_keepalives,           *)
(* np2srv_ch_periodic_connection_params).                                  *)
NestedExact ==
  Quiet =>
    \A id \in DOMAIN conf.node \ (lost \cup mixed) : \A k \in Nested :
      Values(conf.node[id].leaves, k) # {} =>
        Values(nc.node[id].leaves, k) = Values(conf.node[id].leaves, k)

(* At no moment, even between two callbacks of one commit, does an SSH     *)
(* endpoint accept an authentication method that neither the old nor the   *)
(* new configuration allows ("turn off all auth methods by default",       *)
(* np2srv_endpt_ssh_cb and np2srv_ch_client_endpt_ssh_cb).                 *)
MethodsConfigured ==
  \A id \in DOMAIN nc.node \ lost :
    Values(nc.node[id].leaves, "auth") \subseteq
      UNION {Values(LeavesOf(c, id, "ssh"), "auth") : c \in {old, conf}}
=============================================================================
