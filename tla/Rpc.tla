-------------------------------- MODULE Rpc --------------------------------
(***************************************************************************)
(* The datastore operations (src/netconf.c, src/netconf_nmda.c, the RPC    *)
(* part of src/main.c, URLs in src/common.c, src/err_netconf.c).           *)
(*                                                                         *)
(* A worker checks the right to execute an RPC, sends it through sysrepo   *)
(* and waits, with a timeout, for the answer.  One callback thread takes   *)
(* the requests one at a time: it parses the input, takes the user session *)
(* of the originator, calls sysrepo and returns.  Meanwhile a session may  *)
(* give up waiting and close, and other sysrepo clients (the confirmed     *)
(* commit timer among them) may change what is not locked.                 *)
(*                                                                         *)
(* Contents of datastores and files are data trees of Filter.  An edit is  *)
(* the contents it leads to.  sysrepo and curl are external: they are      *)
(* modelled from how the callbacks use them, and may always fail.          *)
(***************************************************************************)
EXTENDS Filter

CONSTANTS
    Session,    \* NETCONF sessions
    Content,    \* contents a client may send
    Operational,\* state data
    URL,
    Hidden,     \* node names each session's user has no read access to
    ReadOnly,   \* sessions whose user has no write access
    NoExec,     \* pairs <<session, operation>> without execute access
    GetFilter,  \* filters of the read operations
    MaxCalls,   \* bound on the requests sent
    MaxFaults   \* bound on failures and changes from outside

Datastore == {"running", "startup", "candidate"}
Empty == {}

(* Contents of a configuration datastore. *)
Tree == SUBSET (UNION Content)

VARIABLES
    ds,     \* contents of each datastore; candidate None: not modified
    file,   \* data behind each URL, and who uploaded it from a datastore
    lock,   \* the session holding the lock of each datastore
    edit,   \* changes prepared in each user session, for each datastore
    phase,  \* of each session: "open", "closed" (its user session may be in use)
    req,    \* the request each worker waits for
    call,   \* what the RPC callback is doing
    skip,   \* skip_nacm_nc_sid
    calls, faults

vars == <<ds, file, lock, edit, phase, req, call, skip, calls, faults>>

Data(d) == IF ds[d] = None THEN ds["running"] ELSE ds[d]

-----------------------------------------------------------------------------
(* Requests, as the input of the RPC; parse errors of libyang's are not    *)
(* sent at all.                                                            *)

Config == {[from |-> "config", data |-> c] : c \in Content}
          \cup {[from |-> "config", data |-> None]}
          \cup {[from |-> "url", url |-> u] : u \in URL}
Source == {[from |-> "ds", ds |-> d] : d \in Datastore} \cup Config
Target == {[to |-> "ds", ds |-> d] : d \in Datastore} \cup {[to |-> "url", url |-> u] : u \in URL}

Request ==
    [op : {"get-config"}, ds : Datastore, filter : GetFilter]
    \cup [op : {"get"}, filter : GetFilter]
    \cup [op : {"get-data"}, ds : Datastore \cup {"operational", "other"}, filter : GetFilter]
    \cup [op : {"edit-config"}, ds : {"running", "candidate"}, config : Config, test : BOOLEAN]
    \cup [op : {"edit-data"}, ds : Datastore \cup {"operational"}, config : Config]
    \cup [op : {"copy-config"}, target : Target, source : Source]
    \cup [op : {"delete-config"}, target : {t \in Target : t.to = "url" \/ t.ds = "startup"}]
    \cup [op : {"lock", "unlock"}, ds : Datastore]
    \cup [op : {"discard-changes"}]
    \cup [op : {"validate"}, source : Source]

\* Errors a callback leaves on the event session (src/err_netconf.c), and what
\* sysrepo reports by itself.
NetconfErr(type, tag, info) == [format |-> "NETCONF", type |-> type, tag |-> tag, info |-> info]
Generic == [format |-> None, type |-> "application", tag |-> "operation-failed", info |-> {}]
ErrAccessDenied == NetconfErr("protocol", "access-denied", {})
ErrSameDs == NetconfErr("application", "invalid-value", {})
\* The sysrepo session in the message of sysrepo's error is looked up among the
\* NETCONF sessions being polled; 0 stands for none of them.
ErrLockDenied(holder) ==
    NetconfErr("protocol", "lock-denied", {<<"session-id", IF phase[holder] = "open" THEN holder ELSE 0>>})

Error == [format : {"NETCONF", None}, type : {"protocol", "application"},
          tag : {"access-denied", "invalid-value", "lock-denied", "operation-failed"},
          info : SUBSET ({"session-id"} \X (Session \cup {0}))]

\* np2srv_err_nc and np2srv_err_reply_sr: a NETCONF error alone, or all errors
\* as generic ones.
ErrReply(errs) ==
    IF \E e \in errs : e.format = "NETCONF"
    THEN {CHOOSE e \in errs : e.format = "NETCONF"}
    ELSE {[Generic EXCEPT !.info = e.info] : e \in errs}

(* A request in the hands of the callback. *)
CallState ==
    [s : Session, r : Request, at : {"parse", "use", "apply", "copy", "return"},
     used : BOOLEAN, late : BOOLEAN,
     data : {None} \cup SUBSET ((UNION Content) \cup Operational), errs : SUBSET Error]

ASSUME NoneAssumption == None \notin Session \cup CallState /\ \A t \in Tree : t # None

-----------------------------------------------------------------------------
(* sysrepo (external). *)

\* np2srv_diff_check_cb: no check for the session in skip_nacm_nc_sid.
DiffCheck(s, d, v) == skip = s \/ s \notin ReadOnly \/ v = Data(d)

MayChange(s, d, v) == lock[d] \in {None, s} /\ DiffCheck(s, d, v)
WhyNot(s, d, v) == IF lock[d] \in {None, s} /\ ~DiffCheck(s, d, v) THEN ErrAccessDenied ELSE Generic

\* Contents after a change; running copied to candidate just resets it, and
\* candidate copied to running leaves the candidate unmodified.
Changed(d, v) == [ds EXCEPT ![d] = v]
Resets(d, from) == d = "candidate" /\ from = "running"
\* Mutant: an unmodified candidate is copied as it is stored.
CopiedAsStored(d, from) ==
    IF Resets(d, from) THEN [ds EXCEPT !["candidate"] = None] ELSE [ds EXCEPT ![d] = ds[from]]

Copied(d, from) ==
    IF Resets(d, from) THEN [ds EXCEPT !["candidate"] = None]
    ELSE IF d = "running" /\ from = "candidate"
    THEN [ds EXCEPT !["running"] = Data("candidate"), !["candidate"] = None]
    ELSE [ds EXCEPT ![d] = Data(from)]

\* sr_session_stop: locks are released, a locked candidate is reset.
StopSession(s) ==
    /\ lock' = [d \in Datastore |-> IF lock[d] = s THEN None ELSE lock[d]]
    /\ edit' = [edit EXCEPT ![s] = [d \in Datastore |-> None]]
    /\ ds' = IF lock["candidate"] = s THEN [ds EXCEPT !["candidate"] = None] ELSE ds

Fault == faults < MaxFaults /\ faults' = faults + 1
NoFault == UNCHANGED faults

-----------------------------------------------------------------------------
(* The worker (np2srv_rpc_cb). *)

\* A request without execute access is answered without being sent.
Send(s, r) ==
    /\ phase[s] = "open" /\ req[s] = None /\ calls < MaxCalls
    /\ calls' = calls + 1
    /\ req' = IF <<s, r.op>> \in NoExec THEN req ELSE [req EXCEPT ![s] = r]
    /\ UNCHANGED <<ds, file, lock, edit, phase, call, skip, faults>>

\* sr_rpc_send_tree gives up; a callback that has started goes on.
Timeout(s) ==
    /\ req[s] # None /\ Fault
    /\ req' = [req EXCEPT ![s] = None]
    /\ call' = IF call # None /\ call.s = s THEN [call EXCEPT !.late = TRUE] ELSE call
    /\ UNCHANGED <<ds, file, lock, edit, phase, skip, calls>>

\* Mutant: a session that ends is not stopped.
CloseRunning(s) ==
    /\ phase[s] = "open" /\ req[s] = None
    /\ phase' = [phase EXCEPT ![s] = "closed"]
    /\ UNCHANGED <<ds, file, lock, edit, req, call, skip, calls, faults>>

\* The session ends: it is no longer found by its id, and its user session is
\* stopped unless a callback uses it.
Close(s) ==
    /\ phase[s] = "open" /\ req[s] = None
    /\ phase' = [phase EXCEPT ![s] = "closed"]
    /\ IF call # None /\ call.s = s /\ call.at \in {"apply", "copy", "return"} /\ call.used
       THEN UNCHANGED <<ds, lock, edit>>
       ELSE StopSession(s)
    /\ UNCHANGED <<file, req, call, skip, calls, faults>>

-----------------------------------------------------------------------------
(* The RPC callback: common parts. *)

Take(s) ==
    /\ call = None /\ req[s] # None
    /\ call' = [s |-> s, r |-> req[s], at |-> "parse", used |-> FALSE, late |-> FALSE,
                data |-> None, errs |-> {}]
    /\ UNCHANGED <<ds, file, lock, edit, phase, req, skip, calls, faults>>

Fails(err) == call' = [call EXCEPT !.at = "return", !.errs = ErrReply({err})]
Succeeds == call' = [call EXCEPT !.at = "return"]
Parsed(c) == call' = [call EXCEPT !.at = "use", !.data = c]
At(at, ops) == call # None /\ call.at = at /\ call.r.op \in ops

\* op_parse_config: nothing for an empty element.
ParseConfig(c) == NoFault /\ Parsed(c.data)
\* op_parse_url: the data must be retrieved and be a <config> element.
ParseUrl(u) == \/ NoFault /\ file[u].data # None /\ Parsed(file[u].data)
               \/ NoFault /\ file[u].data = None /\ Fails(Generic)
               \/ Fault /\ Fails(Generic)
Parse(c) == IF c.from = "url" THEN ParseUrl(c.url) ELSE ParseConfig(c)

\* Whose right to read the data an upload depends on.
Exporter == IF call.r.op = "copy-config" /\ call.r.source.from = "ds" THEN call.s ELSE None

\* op_export_url: an upload that fails leaves anything behind.
ExportUrl(u, d) ==
    \/ NoFault /\ file' = [file EXCEPT ![u] = [data |-> d, by |-> Exporter]] /\ Succeeds
    \/ Fault /\ file' = [file EXCEPT ![u] = [data |-> None, by |-> None]] /\ Fails(Generic)

\* np_get_user_sess: the session is looked up by its id.
UseSession ==
    /\ call # None /\ call.at = "use"
    /\ IF phase[call.s] = "open"
       THEN call' = [call EXCEPT !.at = "apply", !.used = TRUE]
       ELSE Fails(Generic)
    /\ UNCHANGED <<ds, file, lock, edit, phase, req, skip, calls, faults>>

\* Mutant: the last user of a closed session does not stop it.
ReturnUnstopped ==
    /\ call # None /\ call.at = "return"
    /\ req' = IF call.late THEN req ELSE [req EXCEPT ![call.s] = None]
    /\ call' = None
    /\ UNCHANGED <<ds, file, lock, edit, phase, skip, calls, faults>>

\* np_release_user_sess, and the answer to the worker unless it gave up.  The
\* last user of a closed session stops it.
Return ==
    /\ call # None /\ call.at = "return"
    /\ req' = IF call.late THEN req ELSE [req EXCEPT ![call.s] = None]
    /\ IF call.used /\ phase[call.s] = "closed"
       THEN StopSession(call.s)
       ELSE UNCHANGED <<ds, lock, edit>>
    /\ call' = None
    /\ UNCHANGED <<file, phase, skip, calls, faults>>

\* sr_apply_changes and the like, with contents v.
ApplyChange(d, v) ==
    \/ NoFault /\ MayChange(call.s, d, v) /\ ds' = Changed(d, v) /\ Succeeds
    \/ NoFault /\ ~MayChange(call.s, d, v) /\ UNCHANGED ds /\ Fails(WhyNot(call.s, d, v))
    \/ Fault /\ UNCHANGED ds /\ Fails(Generic)

ApplyCopy(d, from) ==
    LET may == IF Resets(d, from) THEN lock[d] \in {None, call.s}
               ELSE MayChange(call.s, d, Data(from))
    IN  \/ NoFault /\ may /\ ds' = Copied(d, from) /\ Succeeds
        \/ NoFault /\ ~may /\ UNCHANGED ds /\ Fails(WhyNot(call.s, d, Data(from)))
        \/ Fault /\ UNCHANGED ds /\ Fails(Generic)

\* sr_validate.
Validated == \/ NoFault /\ Succeeds
             \/ Fault /\ Fails(Generic)

Visible(s, d) == {p \in d : \A i \in 1..Len(p) : p[i][1] \notin Hidden[s]}

-----------------------------------------------------------------------------
(* The operations. *)

\* get, get-config and get-data: no input to parse but the filter.  get-data
\* refuses an unknown datastore.
GetParse ==
    /\ At("parse", {"get", "get-config", "get-data"}) /\ NoFault
    /\ IF call.r.op = "get-data" /\ call.r.ds = "other" THEN Fails(Generic) ELSE Parsed(None)
    /\ UNCHANGED <<ds, file, lock, edit, phase, req, skip, calls>>

OfOperational == ds["running"] \cup Operational

Get ==
    /\ At("apply", {"get", "get-config", "get-data"})
    /\ LET f == call.r.filter
           d == CASE call.r.op = "get" -> GetRpcData(ds["running"], Operational, f)
                  [] call.r.op = "get-config" -> GetConfigRpcData(Data(call.r.ds), f)
                  [] call.r.op = "get-data" /\ call.r.ds = "operational" ->
                        GetDataRpcData(OfOperational, f, 0, <<>>, {})
                  [] OTHER -> GetDataRpcData(Data(call.r.ds), f, 0, <<>>, {})
       IN  call' = [call EXCEPT !.at = "return", !.data = Visible(call.s, d)]
    /\ UNCHANGED <<ds, file, lock, edit, phase, req, skip, calls, faults>>

\* edit-config and edit-data: parse first.  edit-data refuses operational.
EditParse ==
    /\ At("parse", {"edit-config", "edit-data"})
    /\ IF call.r.ds = "operational" THEN NoFault /\ Fails(Generic) ELSE Parse(call.r.config)
    /\ UNCHANGED <<ds, file, lock, edit, phase, req, skip, calls>>

\* sr_edit_batch refuses to join changes already prepared in the session.
Batched(s, d, v) == [edit EXCEPT ![s][d] = v]

\* sr_apply_changes of what is prepared, nothing if nothing is.
ApplyEdit(s, d, v) == IF v = None THEN NoFault /\ UNCHANGED ds /\ Succeeds ELSE ApplyChange(d, v)

\* Mutant: prepared changes are discarded only after test-only.
EditConfigKeeps ==
    /\ At("apply", {"edit-config"})
    /\ LET s == call.s
           d == call.r.ds
           v == IF call.data # None THEN call.data ELSE edit[s][d]
       IN  IF call.r.test THEN UNCHANGED ds /\ Validated /\ edit' = Batched(s, d, None)
           ELSE ApplyEdit(s, d, v) /\ edit' = IF call'.errs = {} THEN Batched(s, d, None) ELSE Batched(s, d, v)
    /\ UNCHANGED <<file, lock, phase, req, skip, calls>>

\* np2srv_rpc_editconfig_cb: an empty <config> prepares nothing; test-only
\* validates; whatever is prepared is discarded in the end.
EditConfig ==
    /\ At("apply", {"edit-config"})
    /\ LET s == call.s
           d == call.r.ds
       IN  /\ IF call.data # None /\ edit[s][d] # None
              THEN NoFault /\ UNCHANGED ds /\ Fails(Generic)
              ELSE LET v == IF call.data # None THEN call.data ELSE edit[s][d]
                   IN  IF call.r.test
                       THEN UNCHANGED ds /\ Validated
                       ELSE ApplyEdit(s, d, v)
           /\ edit' = Batched(s, d, None)
    /\ UNCHANGED <<file, lock, phase, req, skip, calls>>

\* np2srv_rpc_editdata_cb: an empty <config> is refused by sr_edit_batch, and
\* changes that were not applied stay prepared.
EditData ==
    /\ At("apply", {"edit-data"})
    /\ LET s == call.s
           d == call.r.ds
       IN  IF call.data = None \/ edit[s][d] # None
           THEN NoFault /\ UNCHANGED <<ds, edit>> /\ Fails(Generic)
           ELSE /\ ApplyChange(d, call.data)
                /\ edit' = IF call'.errs = {} THEN edit ELSE Batched(s, d, call.data)
    /\ UNCHANGED <<file, lock, phase, req, skip, calls>>

RunToStart(r) == r.source.from = "ds" /\ r.source.ds = "running"
                 /\ r.target.to = "ds" /\ r.target.ds = "startup"

\* A URL and an inline configuration leave the datastore variables at their
\* initial value, the same for source and target.
SameDs(r) ==
    /\ (IF r.target.to = "ds" THEN r.target.ds ELSE None)
         = (IF r.source.from = "ds" THEN r.source.ds ELSE None)
    /\ ~(r.target.to = "url" /\ r.source.from = "url")

\* Mutant: the source is not filtered.
CopyParseUnfiltered ==
    /\ At("parse", {"copy-config"})
    /\ LET r == call.r
       IN  IF SameDs(r) THEN NoFault /\ Fails(ErrSameDs)
           ELSE IF r.source.from # "ds" THEN Parse(r.source)
           ELSE NoFault /\ Parsed(Data(r.source.ds))
    /\ UNCHANGED <<ds, file, lock, edit, phase, req, skip, calls>>

\* np2srv_rpc_copyconfig_cb up to the user session: the source is parsed, or
\* read and filtered for the user except when running is copied to startup.
CopyParse ==
    /\ At("parse", {"copy-config"})
    /\ LET r == call.r
           sameUrl == r.source.from = "url" /\ r.target.to = "url" /\ r.source.url = r.target.url
           filtered == Visible(call.s, Data(r.source.ds))
       IN  IF sameUrl \/ SameDs(r) THEN NoFault /\ Fails(ErrSameDs)
           ELSE IF r.source.from # "ds" THEN Parse(r.source)
           ELSE IF RunToStart(r) THEN NoFault /\ Parsed(None)
           ELSE \/ NoFault /\ Parsed(filtered)
                \/ Fault /\ Fails(Generic)
    /\ UNCHANGED <<ds, file, lock, edit, phase, req, skip, calls>>

OrEmpty(c) == IF c = None THEN Empty ELSE c

\* The rest of it.  Only a URL gets the filtered data; a datastore is copied
\* as it is.
Copy ==
    /\ At("apply", {"copy-config"})
    /\ LET r == call.r
       IN  \/ /\ r.target.to = "url"
              /\ ExportUrl(r.target.url, OrEmpty(call.data))
              /\ UNCHANGED <<ds, skip>>
           \/ /\ r.target.to = "ds" /\ r.source.from # "ds"
              /\ ApplyChange(r.target.ds, OrEmpty(call.data))
              /\ UNCHANGED <<file, skip>>
           \/ /\ r.target.to = "ds" /\ r.source.from = "ds"
              /\ skip' = IF RunToStart(r) THEN call.s ELSE skip
              /\ call' = [call EXCEPT !.at = "copy"]
              /\ UNCHANGED <<ds, file, faults>>
    /\ UNCHANGED <<lock, edit, phase, req, calls>>

\* Mutant: skip_nacm_nc_sid is not reset.
CopyDatastoreSkips ==
    /\ call # None /\ call.at = "copy"
    /\ ApplyCopy(call.r.target.ds, call.r.source.ds)
    /\ UNCHANGED <<file, lock, edit, phase, req, skip, calls>>

\* sr_copy_config, and skip_nacm_nc_sid is reset whatever it returned.
CopyDatastore ==
    /\ call # None /\ call.at = "copy"
    /\ ApplyCopy(call.r.target.ds, call.r.source.ds)
    /\ skip' = None
    /\ UNCHANGED <<file, lock, edit, phase, req, calls>>

\* np2srv_rpc_deleteconfig_cb: a URL is read first, with the session in use.
DeleteParse ==
    /\ At("parse", {"delete-config"})
    /\ NoFault /\ Parsed(None)
    /\ UNCHANGED <<ds, file, lock, edit, phase, req, skip, calls>>

Delete ==
    /\ At("apply", {"delete-config"})
    /\ LET t == call.r.target
       IN  IF t.to = "url"
           THEN /\ IF file[t.url].data = None
                   THEN NoFault /\ UNCHANGED file /\ Fails(Generic)
                   ELSE ExportUrl(t.url, Empty)
                /\ UNCHANGED ds
           ELSE ApplyChange(t.ds, Empty) /\ UNCHANGED file
    /\ UNCHANGED <<lock, edit, phase, req, skip, calls>>

\* Operations without configuration to parse.
PlainParse ==
    /\ At("parse", {"lock", "unlock", "discard-changes"})
    /\ NoFault /\ Parsed(None)
    /\ UNCHANGED <<ds, file, lock, edit, phase, req, skip, calls>>

\* np2srv_rpc_un_lock_cb.  sysrepo does not lock a modified candidate.
UnLock ==
    /\ At("apply", {"lock", "unlock"})
    /\ LET d == call.r.ds
       IN  \/ /\ call.r.op = "lock" /\ lock[d] # None
              /\ Fails(ErrLockDenied(lock[d])) /\ UNCHANGED lock
           \/ /\ call.r.op = "lock" /\ lock[d] = None
              /\ IF d = "candidate" /\ ds[d] # None
                 THEN Fails(Generic) /\ UNCHANGED lock
                 ELSE Succeeds /\ lock' = [lock EXCEPT ![d] = call.s]
           \/ /\ call.r.op = "unlock" /\ lock[d] # call.s
              /\ Fails(IF lock[d] = None THEN Generic ELSE ErrLockDenied(lock[d])) /\ UNCHANGED lock
           \/ /\ call.r.op = "unlock" /\ lock[d] = call.s
              /\ Succeeds /\ lock' = [lock EXCEPT ![d] = None]
    /\ UNCHANGED <<ds, file, edit, phase, req, skip, calls, faults>>

\* np2srv_rpc_discard_cb.
Discard ==
    /\ At("apply", {"discard-changes"})
    /\ ApplyCopy("candidate", "running")
    /\ UNCHANGED <<file, lock, edit, phase, req, skip, calls>>

\* np2srv_rpc_validate_cb: a configuration is valid once parsed, a datastore is
\* validated by sysrepo; so is startup for an empty configuration.
ValidateParse ==
    /\ At("parse", {"validate"})
    /\ IF call.r.source.from = "ds" THEN NoFault /\ Parsed(None) ELSE Parse(call.r.source)
    /\ UNCHANGED <<ds, file, lock, edit, phase, req, skip, calls>>

Validate ==
    /\ At("apply", {"validate"})
    /\ \/ NoFault /\ Succeeds
       \/ call.data = None /\ Fault /\ Fails(Generic)
    /\ UNCHANGED <<ds, file, lock, edit, phase, req, skip, calls>>

\* Another client of sysrepo changes a datastore nobody has locked.
Outside(d, v) ==
    /\ Fault /\ lock[d] = None /\ d # "candidate" /\ ds[d] # v
    /\ ds' = [ds EXCEPT ![d] = v]
    /\ UNCHANGED <<file, lock, edit, phase, req, call, skip, calls>>

-----------------------------------------------------------------------------

Init ==
    /\ ds = [d \in Datastore |-> IF d = "candidate" THEN None ELSE Empty]
    /\ file \in [URL -> {[data |-> c, by |-> None] : c \in {None, Empty}}]
    /\ lock = [d \in Datastore |-> None]
    /\ edit = [s \in Session |-> [d \in Datastore |-> None]]
    /\ phase = [s \in Session |-> "open"]
    /\ req = [s \in Session |-> None]
    /\ call = None /\ skip = None /\ calls = 0 /\ faults = 0

Callback ==
    \/ \E s \in Session : Take(s)
    \/ UseSession \/ Return
    \/ GetParse \/ Get
    \/ EditParse \/ EditConfig \/ EditData
    \/ CopyParse \/ Copy \/ CopyDatastore
    \/ DeleteParse \/ Delete
    \/ PlainParse \/ UnLock \/ Discard
    \/ ValidateParse \/ Validate

Next ==
    \/ \E s \in Session, r \in Request : Send(s, r)
    \/ \E s \in Session : Timeout(s) \/ Close(s)
    \/ Callback
    \/ \E d \in Datastore, v \in Content : Outside(d, v)

\* The callback thread of a sysrepo subscription keeps running.
Spec == Init /\ [][Next]_vars /\ WF_vars(Callback)

-----------------------------------------------------------------------------
(* Properties *)

\* Every variable has its type; only the candidate may be unmodified.
TypeOK ==
    /\ ds \in [Datastore -> {None} \cup Tree] /\ ds["running"] # None /\ ds["startup"] # None
    /\ file \in [URL -> [data : {None} \cup Tree, by : Session \cup {None}]]
    /\ lock \in [Datastore -> Session \cup {None}]
    /\ edit \in [Session -> [Datastore -> {None} \cup Tree]]
    /\ phase \in [Session -> {"open", "closed"}]
    /\ req \in [Session -> Request \cup {None}]
    /\ call \in CallState \cup {None}
    /\ skip \in Session \cup {None}

\* A datastore lock never outlives its NETCONF session: a lock belongs to a
\* session that is open, or to one whose user session a callback is still using
\* and will stop when it returns - also when the lock was granted to a request
\* the session had given up on (np2srv_rpc_un_lock_cb, np_release_user_sess).
LockHasOwner ==
    \A d \in Datastore : lock[d] # None =>
        \/ phase[lock[d]] = "open"
        \/ call # None /\ call.s = lock[d] /\ call.used

\* The call of a user without write access changes no datastore, unless it
\* copies running to startup or resets the candidate.
WriteStep ==
    \A d \in Datastore :
        call # None /\ call' # None /\ call.s \in ReadOnly /\ UNCHANGED <<phase, req>>
            /\ call' # call /\ Data(d)' # Data(d)
        => \/ call.r.op = "copy-config" /\ RunToStart(call.r) /\ d = "startup"
           \/ d = "candidate" /\ ds'["candidate"] = None

\* A callback changes a datastore only for a user who may write it, with the one
\* exception of the copy of running to startup, which the NACM check lets pass
\* (np2srv_diff_check_cb, skip_nacm_nc_sid): no request before or after that
\* copy profits from it, whatever it returned.
WritesChecked == [][WriteStep]_vars

\* What a session uploads from a datastore holds nothing its user cannot read
\* (copy-config to a URL filters the source before it is exported).
UploadsReadable ==
    \A u \in URL : file[u].by # None => Visible(file[u].by, file[u].data) = file[u].data

PrepareStep ==
    \A s \in Session, d \in Datastore :
        edit'[s][d] # None /\ edit[s][d] = None => call.r.op = "edit-data"

\* edit-config leaves nothing behind: changes stay prepared in a user session
\* only when an edit-data failed to apply them, so an edit-config is never
\* refused, nor does it apply more than it was asked to, because of an earlier
\* edit-config (the discard at the end of np2srv_rpc_editconfig_cb).
NoLeftovers == [][PrepareStep]_vars

\* Once a session is closed, its locks are released sooner or later.
LocksReleased ==
    \A s \in Session :
        phase[s] = "closed" ~> \A d \in Datastore : lock[d] # s
=============================================================================
