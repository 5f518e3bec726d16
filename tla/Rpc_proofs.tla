----------------------------- MODULE Rpc_proofs -----------------------------
(***************************************************************************)
(* Proofs about Rpc, for any sessions, contents, URLs, access rights and   *)
(* number of requests, failures and changes from outside.                  *)
(***************************************************************************)
EXTENDS Rpc, TLAPS

-----------------------------------------------------------------------------
(* The inductive invariant *)

(* Requests refused before a session is used. *)
NoSuchDs(r) ==
    \/ r.op = "edit-data" /\ r.ds = "operational"
    \/ r.op = "get-data" /\ r.ds = "other"

(* What the callback knows at each point: it has parsed data until it      *)
(* answers, uses the user session from np_get_user_sess on, copies between *)
(* two datastores only, and has filtered what it is about to upload.       *)
CallOK ==
    call # None =>
        /\ call.at # "return" => call.data \in {None} \cup Tree
        /\ call.at \in {"apply", "copy"} => call.used
        /\ call.used => call.at \in {"apply", "copy", "return"}
        /\ call.at = "copy" =>
              call.r.op = "copy-config" /\ call.r.source.from = "ds" /\ call.r.target.to = "ds"
        /\ call.at \in {"use", "apply"} => ~NoSuchDs(call.r)
        /\ call.at \in {"use", "apply"} /\ call.r.op = "copy-config"
           /\ call.r.source.from = "ds" /\ call.r.target.to = "url" =>
              call.data \in Tree /\ Visible(call.s, call.data) = call.data

(* skip_nacm_nc_sid is set only while running is copied to startup. *)
SkipOK ==
    skip # None => call # None /\ call.at = "copy" /\ call.s = skip /\ RunToStart(call.r)

SafeInv == CallOK /\ SkipOK /\ LockHasOwner /\ UploadsReadable

-----------------------------------------------------------------------------
(* Requests, data and errors *)

LEMMA RequestShape ==
    ASSUME NEW r \in Request
    PROVE  /\ r.op \in {"edit-config", "edit-data"} =>
                 r.config \in Config /\ r.ds \in Datastore \cup {"operational"}
           /\ r.op = "edit-config" => r.ds \in Datastore
           /\ r.op = "copy-config" => r.target \in Target /\ r.source \in Source
           /\ r.op = "delete-config" => r.target \in Target
           /\ r.op \in {"lock", "unlock"} => r.ds \in Datastore
           /\ r.op = "validate" => r.source \in Source
BY DEF Request, Datastore

LEMMA SourceShape ==
    ASSUME NEW c \in Source
    PROVE  \/ c.from = "ds" /\ c.ds \in Datastore
           \/ c.from # "ds" /\ c \in Config
BY DEF Source, Config

LEMMA ConfigShape ==
    ASSUME NEW c \in Config
    PROVE  \/ c.from = "config" /\ c.data \in {None} \cup Tree
           \/ c.from = "url" /\ c.url \in URL
BY DEF Config, Tree

LEMMA TargetShape ==
    ASSUME NEW t \in Target
    PROVE  \/ t.to = "ds" /\ t.ds \in Datastore
           \/ t.to = "url" /\ t.url \in URL
BY DEF Target

LEMMA VisibleTwice ==
    ASSUME NEW s, NEW d
    PROVE  Visible(s, Visible(s, d)) = Visible(s, d) /\ Visible(s, d) \subseteq d
BY DEF Visible

LEMMA EmptyVisible == \A s : Visible(s, Empty) = Empty /\ Empty \in Tree
BY DEF Visible, Empty, Tree

(* What a read operation returns comes from what it reads. *)
LEMMA GetSubset ==
    ASSUME NEW d, NEW state, NEW flt
    PROVE  /\ GetConfigRpcData(d, flt) \subseteq d
           /\ GetRpcData(d, state, flt) \subseteq d \cup state
           /\ GetDataRpcData(d, flt, 0, <<>>, {}) \subseteq d
<1>1. \A e, g : DataFilter(e, flt, g) \subseteq e
  BY DEF DataFilter, WithParents
<1>2. \A e, f, n : DataGet(e, f, n) \subseteq e
  BY DEF DataGet, GetData, WithParents
<1>3. \A e : FilterOrigin(e, <<>>, {}) \subseteq e
  BY DEF FilterOrigin
<1> QED BY <1>1, <1>2, <1>3, Zenon DEF GetConfigRpcData, GetRpcData, GetDataRpcData

LEMMA ErrorTypes ==
    /\ Generic \in Error /\ ErrAccessDenied \in Error /\ ErrSameDs \in Error
    /\ \A s \in Session : ErrLockDenied(s) \in Error
BY DEF Generic, ErrAccessDenied, ErrSameDs, ErrLockDenied, NetconfErr, Error

LEMMA ErrReplyType ==
    ASSUME NEW e \in Error
    PROVE  ErrReply({e}) \in SUBSET Error
BY DEF ErrReply, Error, Generic

-----------------------------------------------------------------------------
(* What the parts of the callbacks do to the call and to the datastores *)

(* The callback goes on with the same request. *)
SameCall ==
    /\ call \in CallState /\ call' \in CallState
    /\ call'.s = call.s /\ call'.r = call.r /\ call'.used = call.used

Ends == SameCall /\ call'.at = "return"

HasParsed ==
    SameCall /\ call'.at = "use" /\ call'.data \in {None} \cup Tree

LEMMA FailsEnds ==
    ASSUME call \in CallState, NEW e \in Error, Fails(e)
    PROVE  Ends
<1>1. ErrReply({e}) \in SUBSET Error
  BY ErrReplyType
<1> QED BY <1>1, ZenonT(30) DEF Fails, Ends, SameCall, CallState

LEMMA SucceedsEnds == call \in CallState /\ Succeeds => Ends
BY ZenonT(30) DEF Succeeds, Ends, SameCall, CallState

LEMMA ParsedParses ==
    ASSUME call \in CallState, NEW c \in {None} \cup Tree, Parsed(c)
    PROVE  HasParsed /\ call'.data = c
<1>1. c \in {None} \cup SUBSET ((UNION Content) \cup Operational)
  BY DEF Tree
<1> QED BY <1>1, ZenonT(30) DEF Parsed, HasParsed, SameCall, CallState

LEMMA ParseMoves ==
    ASSUME TypeOK, call \in CallState, NEW c \in Config, Parse(c)
    PROVE  Ends \/ HasParsed
<1>1. CASE c.from = "url"
  <2>1. c.url \in URL
    BY <1>1, ConfigShape
  <2>2. file[c.url].data \in {None} \cup Tree
    BY <2>1 DEF TypeOK
  <2> QED BY <1>1, <2>2, FailsEnds, ErrorTypes, ParsedParses DEF Parse, ParseUrl
<1>2. CASE c.from # "url"
  <2>1. c.data \in {None} \cup Tree
    BY <1>2, ConfigShape
  <2> QED BY <1>2, <2>1, ParsedParses DEF Parse, ParseConfig
<1> QED BY <1>1, <1>2

DsType ==
    ds \in [Datastore -> {None} \cup Tree] /\ ds["running"] # None /\ ds["startup"] # None

LEMMA DataType == DsType => \A d \in Datastore : Data(d) \in Tree
BY DEF DsType, Data, Datastore

LEMMA WhyNotType == \A s, d, v : WhyNot(s, d, v) \in Error
BY ErrorTypes DEF WhyNot

LEMMA ApplyEnds ==
    ASSUME DsType, call \in CallState, NEW d \in Datastore, NEW v \in Tree, ApplyChange(d, v)
    PROVE  Ends /\ DsType'
<1>1. Ends
  BY FailsEnds, SucceedsEnds, ErrorTypes, WhyNotType DEF ApplyChange
<1>2. DsType'
  BY NoneAssumption DEF ApplyChange, Changed, DsType, Datastore
<1> QED BY <1>1, <1>2

LEMMA CopyEnds ==
    ASSUME DsType, call \in CallState, NEW d \in Datastore, NEW from \in Datastore,
           ApplyCopy(d, from)
    PROVE  Ends /\ DsType'
<1>1. Ends
  BY FailsEnds, SucceedsEnds, ErrorTypes, WhyNotType DEF ApplyCopy
<1>2. Copied(d, from) \in [Datastore -> {None} \cup Tree]
  BY DataType DEF Copied, Resets, DsType, Datastore
<1>3. Copied(d, from)["running"] # None /\ Copied(d, from)["startup"] # None
  BY DataType, NoneAssumption DEF Copied, Resets, DsType, Datastore
<1> QED BY <1>1, <1>2, <1>3 DEF ApplyCopy, DsType

LEMMA StopType ==
    ASSUME TypeOK, NEW s \in Session, StopSession(s)
    PROVE  /\ DsType'
           /\ lock' \in [Datastore -> Session \cup {None}]
           /\ edit' \in [Session -> [Datastore -> {None} \cup Tree]]
BY DEF TypeOK, DsType, StopSession, Datastore

-----------------------------------------------------------------------------
(* The steps *)

RpcInv == TypeOK /\ SafeInv

(* The parts of the invariant a step of the callback can disturb even when *)
(* it writes no file.                                                      *)
Guarded == CallOK /\ SkipOK /\ LockHasOwner

LEMMA EndsGuarded ==
    ASSUME TypeOK, Guarded, call # None, Ends, UNCHANGED <<lock, phase>>, skip' = None
    PROVE  Guarded'
<1>1. call' # None
  BY NoneAssumption DEF Ends, SameCall
<1>2. CallOK'
  BY DEF Ends, CallOK
<1>3. LockHasOwner'
  BY <1>1 DEF Ends, SameCall, Guarded, LockHasOwner
<1> QED BY <1>2, <1>3 DEF Guarded, SkipOK

LEMMA ParsedGuarded ==
    ASSUME TypeOK, Guarded, call # None, call.at = "parse", HasParsed,
           UNCHANGED <<lock, phase, skip>>,
           ~NoSuchDs(call.r),
           call.r.op = "copy-config" /\ call.r.source.from = "ds" /\ call.r.target.to = "url" =>
              call'.data \in Tree /\ Visible(call.s, call'.data) = call'.data
    PROVE  Guarded'
<1>1. call' # None
  BY NoneAssumption DEF HasParsed, SameCall
<1>2. ~call'.used
  BY DEF HasParsed, SameCall, Guarded, CallOK
<1>3. CallOK'
  BY <1>2 DEF HasParsed, SameCall, CallOK
<1>4. LockHasOwner'
  BY <1>1 DEF HasParsed, SameCall, Guarded, LockHasOwner
<1>5. skip = None
  BY DEF Guarded, SkipOK
<1> QED BY <1>3, <1>4, <1>5 DEF Guarded, SkipOK

LEMMA InitInv == Init => RpcInv
<1> SUFFICES ASSUME Init PROVE RpcInv
  OBVIOUS
<1>1. Empty \in Tree /\ Empty # None
  BY EmptyVisible, NoneAssumption
<1>2. TypeOK
  BY <1>1 DEF Init, TypeOK, Datastore
<1>3. SafeInv
  BY DEF Init, SafeInv, CallOK, SkipOK, LockHasOwner, UploadsReadable
<1> QED BY <1>2, <1>3 DEF RpcInv

(* The worker's side. *)
LEMMA WorkerStep ==
    ASSUME RpcInv, NEW s \in Session,
           (\E r \in Request : Send(s, r)) \/ Timeout(s) \/ Close(s)
    PROVE  RpcInv'
<1> USE DEF RpcInv, SafeInv
<1>1. ASSUME NEW r \in Request, Send(s, r) PROVE RpcInv'
  <2>1. TypeOK'
    BY <1>1 DEF Send, TypeOK
  <2>2. CallOK' /\ SkipOK'
    BY <1>1 DEF Send, CallOK, SkipOK
  <2>3. LockHasOwner' /\ UploadsReadable'
    BY <1>1 DEF Send, LockHasOwner, UploadsReadable
  <2> QED BY <2>1, <2>2, <2>3
<1>2. CASE Timeout(s)
  <2>1. CASE call' = call
    <3>1. TypeOK'
      BY <1>2, <2>1, Zenon DEF Timeout, TypeOK
    <3>2. CallOK' /\ SkipOK'
      BY <1>2, <2>1, Zenon DEF Timeout, CallOK, SkipOK
    <3>3. LockHasOwner' /\ UploadsReadable'
      BY <1>2, <2>1, Zenon DEF Timeout, LockHasOwner, UploadsReadable
    <3> QED BY <3>1, <3>2, <3>3
  <2>2. CASE call # None /\ call' = [call EXCEPT !.late = TRUE]
    <3>1. call \in CallState
      BY <2>2 DEF TypeOK
    <3>2. /\ call' \in CallState /\ call'.s = call.s /\ call'.r = call.r
          /\ call'.used = call.used /\ call'.at = call.at /\ call'.data = call.data
      BY <2>2, <3>1, ZenonT(30) DEF CallState
    <3>3. call' # None
      BY <3>2, NoneAssumption
    <3>4. TypeOK'
      BY <1>2, <3>2 DEF Timeout, TypeOK
    <3>5. CallOK'
      BY <2>2, <3>2 DEF CallOK
    <3>6. SkipOK'
      BY <1>2, <2>2, <3>2, <3>3 DEF Timeout, SkipOK
    <3>7. LockHasOwner' /\ UploadsReadable'
      BY <1>2, <2>2, <3>2, <3>3 DEF Timeout, LockHasOwner, UploadsReadable
    <3> QED BY <3>4, <3>5, <3>6, <3>7
  <2> QED BY <1>2, <2>1, <2>2 DEF Timeout
<1>3. CASE Close(s)
  <2>1. CallOK' /\ SkipOK' /\ UploadsReadable'
    BY <1>3 DEF Close, CallOK, SkipOK, UploadsReadable
  <2>2. CASE call # None /\ call.s = s /\ call.used /\ UNCHANGED <<ds, lock, edit>>
    <3>1. TypeOK'
      BY <1>3, <2>2 DEF Close, TypeOK
    <3>2. LockHasOwner'
      BY <1>3, <2>2 DEF Close, LockHasOwner, TypeOK
    <3> QED BY <2>1, <3>1, <3>2
  <2>3. CASE StopSession(s)
    <3>1. TypeOK'
      BY <1>3, <2>3, StopType DEF Close, TypeOK, DsType
    <3>2. LockHasOwner'
      BY <1>3, <2>3 DEF Close, StopSession, LockHasOwner, TypeOK
    <3> QED BY <2>1, <3>1, <3>2
  <2> QED BY <1>3, <2>2, <2>3 DEF Close
<1> QED BY <1>1, <1>2, <1>3

(* A step of the callback that ends it, or gets it past parsing, and       *)
(* changes nothing else.                                                   *)
LEMMA OnlyEnds ==
    ASSUME RpcInv, call # None, call.at # "copy", Ends,
           UNCHANGED <<ds, file, lock, edit, phase, req, skip>>
    PROVE  RpcInv'
<1>1. Guarded'
  BY EndsGuarded DEF RpcInv, SafeInv, Guarded, SkipOK
<1>2. TypeOK'
  BY DEF RpcInv, TypeOK, Ends, SameCall
<1>3. UploadsReadable'
  BY DEF RpcInv, SafeInv, UploadsReadable
<1> QED BY <1>1, <1>2, <1>3 DEF RpcInv, SafeInv, Guarded

LEMMA OnlyParses ==
    ASSUME RpcInv, call # None, call.at = "parse", HasParsed,
           UNCHANGED <<ds, file, lock, edit, phase, req, skip>>,
           ~NoSuchDs(call.r),
           call.r.op = "copy-config" /\ call.r.source.from = "ds" /\ call.r.target.to = "url" =>
              call'.data \in Tree /\ Visible(call.s, call'.data) = call'.data
    PROVE  RpcInv'
<1>1. Guarded'
  BY ParsedGuarded DEF RpcInv, SafeInv, Guarded
<1>2. TypeOK'
  BY DEF RpcInv, TypeOK, HasParsed, SameCall
<1>3. UploadsReadable'
  BY DEF RpcInv, SafeInv, UploadsReadable
<1> QED BY <1>1, <1>2, <1>3 DEF RpcInv, SafeInv, Guarded

LEMMA CallType ==
    RpcInv /\ call # None => call \in CallState /\ call.s \in Session /\ call.r \in Request
BY DEF RpcInv, TypeOK, CallState

(* Taking a request, np_get_user_sess and np_release_user_sess. *)
LEMMA SessionStep ==
    ASSUME RpcInv, (\E s \in Session : Take(s)) \/ UseSession \/ Return
    PROVE  RpcInv'
<1> USE DEF RpcInv, SafeInv
<1>1. ASSUME NEW s \in Session, Take(s) PROVE RpcInv'
  <2>1. req[s] \in Request /\ {} \in SUBSET Error
    BY <1>1 DEF Take, TypeOK
  <2>2. /\ call' \in CallState /\ call'.at = "parse" /\ call'.used = FALSE
        /\ call'.data = None
    BY <1>1, <2>1, ZenonT(30) DEF Take, CallState
  <2>3. TypeOK'
    BY <1>1, <2>2 DEF Take, TypeOK
  <2>4. CallOK'
    BY <2>2 DEF CallOK
  <2>5. SkipOK' /\ LockHasOwner' /\ UploadsReadable'
    BY <1>1 DEF Take, SkipOK, LockHasOwner, UploadsReadable
  <2> QED BY <2>3, <2>4, <2>5
<1>2. CASE UseSession
  <2>1. CASE phase[call.s] = "open"
    <3>1. call \in CallState /\ call # None
      BY <1>2, CallType DEF UseSession
    <3>2. /\ call' \in CallState /\ call'.s = call.s /\ call'.r = call.r
          /\ call'.data = call.data /\ call'.at = "apply" /\ call'.used = TRUE
      BY <1>2, <2>1, <3>1, ZenonT(30) DEF UseSession, CallState
    <3>3. TypeOK'
      BY <1>2, <3>2 DEF UseSession, TypeOK
    <3>4. CallOK'
      BY <1>2, <3>1, <3>2 DEF UseSession, CallOK
    <3>5. SkipOK'
      BY <1>2 DEF UseSession, SkipOK
    <3>6. LockHasOwner' /\ UploadsReadable'
      BY <1>2, <2>1, <3>1, <3>2 DEF UseSession, LockHasOwner, UploadsReadable
    <3> QED BY <3>3, <3>4, <3>5, <3>6
  <2>2. CASE phase[call.s] # "open"
    BY <1>2, <2>2, CallType, FailsEnds, ErrorTypes, OnlyEnds DEF UseSession
  <2> QED BY <2>1, <2>2
<1>3. CASE Return
  <2>1. call.s \in Session /\ call # None /\ call.at = "return"
    BY <1>3, CallType DEF Return
  <2>2. CallOK' /\ UploadsReadable'
    BY <1>3 DEF Return, CallOK, UploadsReadable
  <2>3. SkipOK'
    BY <1>3 DEF Return, SkipOK
  <2>4. CASE StopSession(call.s)
    <3>1. TypeOK'
      BY <1>3, <2>1, <2>4, StopType DEF Return, TypeOK, DsType
    <3>2. LockHasOwner'
      BY <1>3, <2>1, <2>4 DEF Return, StopSession, LockHasOwner, TypeOK
    <3> QED BY <2>2, <2>3, <3>1, <3>2
  <2>5. CASE ~(call.used /\ phase[call.s] = "closed") /\ UNCHANGED <<ds, lock, edit>>
    <3>1. TypeOK'
      BY <1>3, <2>1, <2>5 DEF Return, TypeOK
    <3>2. LockHasOwner'
      BY <1>3, <2>1, <2>5 DEF Return, LockHasOwner, TypeOK
    <3> QED BY <2>2, <2>3, <3>1, <3>2
  <2> QED BY <1>3, <2>4, <2>5 DEF Return
<1> QED BY <1>1, <1>2, <1>3

(* The first part of each operation. *)
LEMMA ParseStep ==
    ASSUME RpcInv, GetParse \/ EditParse \/ CopyParse \/ DeleteParse \/ PlainParse \/ ValidateParse
    PROVE  RpcInv'
<1>1. /\ call # None /\ call.at = "parse" /\ call \in CallState /\ call.r \in Request
      /\ call.s \in Session
      /\ UNCHANGED <<ds, file, lock, edit, phase, req, skip>>
  BY CallType DEF GetParse, EditParse, CopyParse, DeleteParse, PlainParse, ValidateParse, At
<1>2. TypeOK
  BY DEF RpcInv
<1>3. CASE Ends
  BY <1>1, <1>3, OnlyEnds
<1>4. CASE GetParse
  <2>1. Ends \/ (~NoSuchDs(call.r) /\ HasParsed)
    BY <1>1, <1>4, FailsEnds, ErrorTypes, ParsedParses DEF GetParse, At, NoSuchDs
  <2> QED BY <1>1, <1>3, <1>4, <2>1, OnlyParses DEF GetParse, At
<1>5. CASE EditParse
  <2>1. call.r.config \in Config
    BY <1>1, <1>5, RequestShape DEF EditParse, At
  <2>2. Ends \/ (call.r.ds # "operational" /\ HasParsed)
    BY <1>1, <1>2, <1>5, <2>1, FailsEnds, ErrorTypes, ParseMoves DEF EditParse
  <2> QED BY <1>1, <1>3, <1>5, <2>2, OnlyParses DEF EditParse, At, NoSuchDs
<1>6. CASE CopyParse
  <2>1. call.r.op = "copy-config" /\ call.r.source \in Source
    BY <1>1, <1>6, RequestShape DEF CopyParse, At
  <2>2. CASE call.r.source.from # "ds"
    <3>1. Ends \/ HasParsed
      BY <1>1, <1>2, <1>6, <2>1, <2>2, SourceShape, FailsEnds, ErrorTypes, ParseMoves
         DEF CopyParse
    <3> QED BY <1>1, <1>3, <2>1, <2>2, <3>1, OnlyParses DEF NoSuchDs
  <2>3. CASE call.r.source.from = "ds"
    <3> DEFINE filtered == Visible(call.s, Data(call.r.source.ds))
    <3>1. call.r.source.ds \in Datastore
      BY <2>1, <2>3, SourceShape
    <3>2. filtered \in Tree /\ Visible(call.s, filtered) = filtered
      BY <1>2, <3>1, DataType, VisibleTwice, Zenon DEF TypeOK, DsType, Tree
    <3> HIDE DEF filtered
    <3>3. Ends \/ (RunToStart(call.r) /\ Parsed(None)) \/ Parsed(filtered)
      BY <1>1, <1>6, <2>3, FailsEnds, ErrorTypes DEF CopyParse, filtered
    <3>4. CASE RunToStart(call.r) /\ Parsed(None)
      BY <1>1, <2>1, <3>4, ParsedParses, OnlyParses DEF RunToStart, NoSuchDs
    <3>5. CASE Parsed(filtered)
      BY <1>1, <2>1, <3>2, <3>5, ParsedParses, OnlyParses DEF NoSuchDs
    <3> QED BY <1>3, <3>3, <3>4, <3>5
  <2> QED BY <2>2, <2>3
<1>7. CASE DeleteParse \/ PlainParse
  BY <1>1, <1>7, ParsedParses, OnlyParses DEF DeleteParse, PlainParse, At, NoSuchDs
<1>8. CASE ValidateParse
  <2>1. call.r.op = "validate" /\ call.r.source \in Source
    BY <1>1, <1>8, RequestShape DEF ValidateParse, At
  <2>2. Ends \/ HasParsed
    BY <1>1, <1>2, <1>8, <2>1, SourceShape, ParsedParses, ParseMoves DEF ValidateParse
  <2> QED BY <1>1, <1>3, <2>1, <2>2, OnlyParses DEF NoSuchDs
<1> QED BY <1>4, <1>5, <1>6, <1>7, <1>8

(* The changes an operation may make when it ends: the datastores and the  *)
(* prepared edits keep their types.                                        *)
LEMMA AppliedEnds ==
    ASSUME RpcInv, call # None, Ends, DsType', skip' = None,
           edit' \in [Session -> [Datastore -> {None} \cup Tree]],
           UNCHANGED <<file, lock, phase, req>>
    PROVE  RpcInv'
<1>1. Guarded'
  BY EndsGuarded DEF RpcInv, SafeInv, Guarded
<1>2. TypeOK'
  BY DEF RpcInv, TypeOK, DsType, Ends, SameCall
<1>3. UploadsReadable'
  BY DEF RpcInv, SafeInv, UploadsReadable
<1> QED BY <1>1, <1>2, <1>3 DEF RpcInv, SafeInv, Guarded

LEMMA NotSkipping == RpcInv /\ call # None /\ call.at # "copy" => skip = None
BY DEF RpcInv, SafeInv, SkipOK

LEMMA BatchedType ==
    ASSUME RpcInv, NEW s, NEW d, NEW v \in {None} \cup Tree
    PROVE  Batched(s, d, v) \in [Session -> [Datastore -> {None} \cup Tree]]
BY Zenon DEF RpcInv, TypeOK, Batched

LEMMA GetStep == ASSUME RpcInv, Get PROVE RpcInv'
<1>1. call # None /\ call.at = "apply" /\ call \in CallState
  BY CallType DEF Get, At
<1>2. PICK d : /\ d \subseteq (UNION Content) \cup Operational
               /\ call' = [call EXCEPT !.at = "return", !.data = Visible(call.s, d)]
  <2>1. \A e \in Datastore : Data(e) \subseteq UNION Content
    BY DataType DEF RpcInv, TypeOK, DsType, Tree
  <2>2. ds["running"] \subseteq UNION Content
    BY NoneAssumption DEF RpcInv, TypeOK, Tree, Datastore
  <2> DEFINE Returns(d) == call' = [call EXCEPT !.at = "return", !.data = Visible(call.s, d)]
  <2>3. CASE call.r.op = "get"
    <3>1. Returns(GetRpcData(ds["running"], Operational, call.r.filter))
      BY <2>3 DEF Get
    <3>2. GetRpcData(ds["running"], Operational, call.r.filter) \subseteq (UNION Content) \cup Operational
      BY <2>2, GetSubset
    <3> QED BY <3>1, <3>2, Zenon
  <2>4. CASE call.r.op = "get-config"
    <3>1. call.r.ds \in Datastore
      BY <1>1, <2>4, CallType DEF Request
    <3>2. Returns(GetConfigRpcData(Data(call.r.ds), call.r.filter))
      BY <2>4 DEF Get
    <3>3. GetConfigRpcData(Data(call.r.ds), call.r.filter) \subseteq Data(call.r.ds)
      BY GetSubset, Zenon
    <3>4. Data(call.r.ds) \subseteq UNION Content
      BY <2>1, <3>1
    <3> QED BY <3>2, <3>3, <3>4, Zenon
  <2>5. CASE call.r.op = "get-data" /\ call.r.ds = "operational"
    <3>1. Returns(GetDataRpcData(OfOperational, call.r.filter, 0, <<>>, {}))
      BY <2>5 DEF Get
    <3>2. OfOperational \subseteq (UNION Content) \cup Operational
      BY <2>2 DEF OfOperational
    <3>3. GetDataRpcData(OfOperational, call.r.filter, 0, <<>>, {}) \subseteq OfOperational
      BY GetSubset, Zenon
    <3> QED BY <3>1, <3>2, <3>3, Zenon
  <2>6. CASE call.r.op = "get-data" /\ call.r.ds # "operational"
    <3>1. call.r.ds \in Datastore
      BY <1>1, <2>6, CallType DEF Request, RpcInv, SafeInv, CallOK, NoSuchDs
    <3>2. Returns(GetDataRpcData(Data(call.r.ds), call.r.filter, 0, <<>>, {}))
      BY <2>6 DEF Get
    <3>3. GetDataRpcData(Data(call.r.ds), call.r.filter, 0, <<>>, {}) \subseteq Data(call.r.ds)
      BY GetSubset, Zenon
    <3>4. Data(call.r.ds) \subseteq UNION Content
      BY <2>1, <3>1
    <3> QED BY <3>2, <3>3, <3>4, Zenon
  <2> QED BY <2>3, <2>4, <2>5, <2>6, Zenon DEF Get, At
<1>3. Visible(call.s, d) \in {None} \cup SUBSET ((UNION Content) \cup Operational)
  BY <1>2, VisibleTwice
<1>4. Ends
  BY <1>1, <1>2, <1>3, ZenonT(30) DEF Ends, SameCall, CallState
<1> QED BY <1>1, <1>4, OnlyEnds DEF Get

LEMMA EditStep == ASSUME RpcInv, EditConfig \/ EditData PROVE RpcInv'
<1>1. /\ call # None /\ call.at = "apply" /\ call \in CallState /\ call.s \in Session
      /\ call.r.ds \in Datastore
  BY CallType, RequestShape DEF EditConfig, EditData, At, RpcInv, SafeInv, CallOK, NoSuchDs
<1>2. call.data \in {None} \cup Tree /\ DsType /\ edit[call.s][call.r.ds] \in {None} \cup Tree
  BY <1>1 DEF RpcInv, SafeInv, CallOK, TypeOK, DsType
<1>3. skip = None
  BY <1>1, NotSkipping
<1>4. CASE EditConfig
  <2>1. edit' \in [Session -> [Datastore -> {None} \cup Tree]]
    BY <1>4, BatchedType DEF EditConfig
  <2>2. Ends /\ DsType'
    <3>1. ASSUME UNCHANGED ds PROVE DsType'
      BY <1>2, <3>1 DEF DsType
    <3>2. CASE UNCHANGED ds /\ (Validated \/ Fails(Generic) \/ Succeeds)
      BY <1>1, <3>1, <3>2, FailsEnds, SucceedsEnds, ErrorTypes DEF Validated
    <3>3. ASSUME NEW v \in Tree, ApplyChange(call.r.ds, v) PROVE Ends /\ DsType'
      BY <1>1, <1>2, <3>3, ApplyEnds
    <3> QED BY <1>2, <1>4, <3>2, <3>3 DEF EditConfig, ApplyEdit
  <2> QED BY <1>1, <1>3, <1>4, <2>1, <2>2, AppliedEnds DEF EditConfig
<1>5. CASE EditData
  <2>1. edit' \in [Session -> [Datastore -> {None} \cup Tree]]
    BY <1>2, <1>5, BatchedType DEF EditData, RpcInv, TypeOK
  <2>2. Ends /\ DsType'
    <3>1. CASE UNCHANGED ds /\ Fails(Generic)
      BY <1>1, <1>2, <3>1, FailsEnds, ErrorTypes DEF DsType
    <3>2. CASE call.data \in Tree /\ ApplyChange(call.r.ds, call.data)
      BY <1>1, <1>2, <3>2, ApplyEnds
    <3> QED BY <1>2, <1>5, <3>1, <3>2 DEF EditData
  <2> QED BY <1>1, <1>3, <1>5, <2>1, <2>2, AppliedEnds DEF EditData
<1> QED BY <1>4, <1>5

(* An upload that ends the call. *)
LEMMA ExportEnds ==
    ASSUME RpcInv, call # None, call.at # "copy", NEW u \in URL, NEW d \in Tree, ExportUrl(u, d),
           Exporter \in {None, call.s}, Exporter # None => Visible(Exporter, d) = d,
           UNCHANGED <<ds, lock, edit, phase, req, skip>>
    PROVE  RpcInv'
<1>1. call \in CallState /\ call.s \in Session /\ skip' = None
  BY CallType, NotSkipping
<1>2. Ends
  BY <1>1, FailsEnds, SucceedsEnds, ErrorTypes DEF ExportUrl
<1>3. Guarded'
  BY <1>1, <1>2, EndsGuarded DEF RpcInv, SafeInv, Guarded
<1>4. PICK f \in [data : {None} \cup Tree, by : Session \cup {None}] :
         file' = [file EXCEPT ![u] = f] /\ (f.by # None => Visible(f.by, f.data) = f.data)
  <2>1. [data |-> d, by |-> Exporter] \in [data : {None} \cup Tree, by : Session \cup {None}]
    BY <1>1
  <2>2. [data |-> None, by |-> None] \in [data : {None} \cup Tree, by : Session \cup {None}]
    OBVIOUS
  <2>3. CASE file' = [file EXCEPT ![u] = [data |-> d, by |-> Exporter]]
    BY <2>1, <2>3, Zenon
  <2>4. CASE file' = [file EXCEPT ![u] = [data |-> None, by |-> None]]
    BY <2>2, <2>4, Zenon
  <2> QED BY <2>3, <2>4 DEF ExportUrl
<1>5. TypeOK'
  BY <1>2, <1>4 DEF RpcInv, TypeOK, Ends, SameCall
<1>6. UploadsReadable'
  BY <1>4 DEF RpcInv, SafeInv, TypeOK, UploadsReadable
<1> QED BY <1>3, <1>5, <1>6 DEF RpcInv, SafeInv, Guarded

LEMMA CopyStep == ASSUME RpcInv, Copy \/ CopyDatastore \/ Delete PROVE RpcInv'
<1>1. /\ call # None /\ call \in CallState /\ call.s \in Session /\ call.r \in Request
      /\ call.r.target \in Target /\ DsType
      /\ edit \in [Session -> [Datastore -> {None} \cup Tree]]
  BY CallType, RequestShape
     DEF Copy, CopyDatastore, Delete, At, RpcInv, SafeInv, CallOK, TypeOK, DsType
<1>2. CASE Copy
  <2>1. /\ call.at = "apply" /\ call.r.op = "copy-config" /\ call.r.source \in Source
        /\ call.data \in {None} \cup Tree /\ OrEmpty(call.data) \in Tree
    BY <1>1, <1>2, RequestShape, EmptyVisible DEF Copy, At, RpcInv, SafeInv, CallOK, OrEmpty
  <2>2. skip = None
    BY <1>1, <2>1, NotSkipping
  <2>3. CASE call.r.target.to = "url"
    <3>1. ExportUrl(call.r.target.url, OrEmpty(call.data)) /\ UNCHANGED <<ds, lock, edit, phase, req, skip>>
      BY <1>2, <2>3 DEF Copy
    <3>2. Exporter \in {None, call.s}
      BY DEF Exporter
    <3>3. Exporter # None => Visible(Exporter, OrEmpty(call.data)) = OrEmpty(call.data)
      BY <1>1, <2>1, <2>3, EmptyVisible DEF Exporter, OrEmpty, RpcInv, SafeInv, CallOK
    <3> QED BY <1>1, <2>1, <2>3, <3>1, <3>2, <3>3, TargetShape, ExportEnds
  <2>4. CASE call.r.target.to = "ds" /\ call.r.source.from # "ds"
    <3>1. Ends /\ DsType'
      BY <1>1, <1>2, <2>1, <2>4, TargetShape, ApplyEnds DEF Copy
    <3> QED BY <1>1, <1>2, <2>2, <2>4, <3>1, AppliedEnds DEF Copy
  <2>5. CASE call.r.target.to = "ds" /\ call.r.source.from = "ds"
    <3>1. /\ call' = [call EXCEPT !.at = "copy"]
          /\ skip' = IF RunToStart(call.r) THEN call.s ELSE skip
          /\ UNCHANGED <<ds, file, lock, edit, phase, req>>
      BY <1>2, <2>5 DEF Copy
    <3>2. /\ call' \in CallState /\ call'.s = call.s /\ call'.r = call.r
          /\ call'.used = call.used /\ call'.at = "copy" /\ call'.data = call.data
      BY <1>1, <3>1, ZenonT(30) DEF CallState
    <3>3. call' # None
      BY <3>2, NoneAssumption
    <3>4. TypeOK'
      BY <1>1, <3>1, <3>2 DEF RpcInv, TypeOK
    <3>5. CallOK' /\ SkipOK'
      BY <1>1, <2>1, <2>2, <2>5, <3>1, <3>2, <3>3 DEF RpcInv, SafeInv, CallOK, SkipOK
    <3>6. LockHasOwner' /\ UploadsReadable'
      BY <1>1, <3>1, <3>2, <3>3 DEF RpcInv, SafeInv, LockHasOwner, UploadsReadable
    <3> QED BY <3>4, <3>5, <3>6 DEF RpcInv, SafeInv
  <2> QED BY <1>1, <2>3, <2>4, <2>5, TargetShape
<1>3. CASE CopyDatastore
  <2>1. /\ call.r.op = "copy-config" /\ call.r.source.from = "ds" /\ call.r.target.to = "ds"
    BY <1>1, <1>3 DEF CopyDatastore, RpcInv, SafeInv, CallOK
  <2>2. call.r.source.ds \in Datastore /\ call.r.target.ds \in Datastore
    BY <1>1, <2>1, RequestShape, SourceShape, TargetShape
  <2>3. Ends /\ DsType'
    BY <1>1, <1>3, <2>2, CopyEnds DEF CopyDatastore
  <2> QED BY <1>1, <1>3, <2>3, AppliedEnds DEF CopyDatastore
<1>4. CASE Delete
  <2>1. call.at = "apply" /\ call.r.op = "delete-config" /\ skip = None
    BY <1>1, <1>4, NotSkipping DEF Delete, At
  <2>2. CASE call.r.target.to = "url" /\ file[call.r.target.url].data = None
    BY <1>1, <1>4, <2>1, <2>2, FailsEnds, ErrorTypes, OnlyEnds DEF Delete
  <2>3. CASE call.r.target.to = "url" /\ file[call.r.target.url].data # None
    <3>1. Exporter = None
      BY <2>1 DEF Exporter
    <3> QED BY <1>1, <1>4, <2>1, <2>3, <3>1, TargetShape, EmptyVisible, ExportEnds DEF Delete
  <2>4. CASE call.r.target.to = "ds"
    <3>1. Ends /\ DsType'
      BY <1>1, <1>4, <2>4, TargetShape, EmptyVisible, ApplyEnds DEF Delete
    <3> QED BY <1>1, <1>4, <2>1, <2>4, <3>1, AppliedEnds DEF Delete
  <2> QED BY <1>1, <2>2, <2>3, <2>4, TargetShape
<1> QED BY <1>2, <1>3, <1>4

LEMMA LockStep == ASSUME RpcInv, UnLock PROVE RpcInv'
<1>1. /\ call # None /\ call.at = "apply" /\ call \in CallState /\ call.s \in Session
      /\ call.r.ds \in Datastore /\ call.used
  BY CallType, RequestShape DEF UnLock, At, RpcInv, SafeInv, CallOK
<1>2. lock[call.r.ds] \in Session \cup {None}
  BY <1>1 DEF RpcInv, TypeOK
<1>3. Ends
  BY <1>1, <1>2, FailsEnds, SucceedsEnds, ErrorTypes DEF UnLock
<1>4. skip = None
  BY <1>1, NotSkipping
<1>5. CASE UNCHANGED lock
  BY <1>1, <1>3, <1>5, OnlyEnds DEF UnLock
<1>6. ASSUME NEW o \in {None, call.s}, lock' = [lock EXCEPT ![call.r.ds] = o]
      PROVE RpcInv'
  <2>1. TypeOK'
    BY <1>1, <1>3, <1>6 DEF UnLock, RpcInv, TypeOK, Ends, SameCall
  <2>2. CallOK' /\ SkipOK'
    BY <1>3, <1>4 DEF UnLock, Ends, CallOK, SkipOK
  <2>3. call' # None /\ call'.s = call.s /\ call'.used
    BY <1>1, <1>3, NoneAssumption DEF Ends, SameCall
  <2>4. LockHasOwner'
    BY <1>1, <1>6, <2>3 DEF UnLock, RpcInv, SafeInv, TypeOK, LockHasOwner
  <2>5. UploadsReadable'
    BY DEF UnLock, RpcInv, SafeInv, UploadsReadable
  <2> QED BY <2>1, <2>2, <2>4, <2>5 DEF RpcInv, SafeInv
<1> QED BY <1>5, <1>6 DEF UnLock

LEMMA OtherStep ==
    ASSUME RpcInv, Discard \/ Validate \/ (\E d \in Datastore, v \in Content : Outside(d, v))
    PROVE  RpcInv'
<1>1. DsType /\ edit \in [Session -> [Datastore -> {None} \cup Tree]]
  BY DEF RpcInv, TypeOK, DsType
<1>2. CASE Discard
  <2>1. call # None /\ call \in CallState /\ skip = None
    BY <1>2, CallType, NotSkipping DEF Discard, At
  <2>2. Ends /\ DsType'
    BY <1>1, <1>2, <2>1, CopyEnds DEF Discard, Datastore
  <2> QED BY <1>1, <1>2, <2>1, <2>2, AppliedEnds DEF Discard
<1>3. CASE Validate
  <2>1. call # None /\ call \in CallState /\ call.at # "copy"
    BY <1>3, CallType DEF Validate, At
  <2>2. Ends
    BY <1>3, <2>1, FailsEnds, SucceedsEnds, ErrorTypes DEF Validate
  <2> QED BY <1>3, <2>1, <2>2, OnlyEnds DEF Validate
<1>4. ASSUME NEW d \in Datastore, NEW v \in Content, Outside(d, v) PROVE RpcInv'
  <2>1. v \in Tree
    BY DEF Tree
  <2>2. TypeOK'
    BY <1>4, <2>1, NoneAssumption DEF Outside, RpcInv, TypeOK, Datastore
  <2>3. SafeInv'
    BY <1>4 DEF Outside, RpcInv, SafeInv, CallOK, SkipOK, LockHasOwner, UploadsReadable
  <2> QED BY <2>2, <2>3 DEF RpcInv
<1> QED BY <1>2, <1>3, <1>4

LEMMA StepInv == RpcInv /\ [Next]_vars => RpcInv'
<1> SUFFICES ASSUME RpcInv, [Next]_vars PROVE RpcInv'
  OBVIOUS
<1>1. CASE UNCHANGED vars
  <2>1. TypeOK'
    BY <1>1 DEF vars, RpcInv, TypeOK
  <2>2. SafeInv'
    BY <1>1 DEF vars, RpcInv, SafeInv, CallOK, SkipOK, LockHasOwner, UploadsReadable
  <2> QED BY <2>1, <2>2 DEF RpcInv
<1>2. CASE Callback
  BY <1>2, SessionStep, ParseStep, GetStep, EditStep, CopyStep, LockStep, OtherStep
     DEF Callback
<1> QED BY <1>1, <1>2, WorkerStep, OtherStep DEF Next

LEMMA Safety == Spec => []RpcInv
BY InitInv, StepInv, PTL DEF Spec

(* Datastores, files, locks, prepared edits, requests and the call in      *)
(* progress keep their types; running and startup always have contents.    *)
THEOREM TypeCorrect == Spec => []TypeOK
<1>1. RpcInv => TypeOK
  BY DEF RpcInv
<1> QED BY Safety, <1>1, PTL

(* A datastore lock never outlives its NETCONF session, also when the      *)
(* session closes while np2srv_rpc_un_lock_cb is granting it the lock.     *)
THEOREM LocksHaveOwners == Spec => []LockHasOwner
<1>1. RpcInv => LockHasOwner
  BY DEF RpcInv, SafeInv
<1> QED BY Safety, <1>1, PTL

(* What a copy-config uploads to a URL holds nothing its user cannot read  *)
(* (np2srv_rpc_copyconfig_cb).                                             *)
THEOREM UploadsAreReadable == Spec => []UploadsReadable
<1>1. RpcInv => UploadsReadable
  BY DEF RpcInv, SafeInv
<1> QED BY Safety, <1>1, PTL

-----------------------------------------------------------------------------
(* Who may write *)

LEMMA ChangeKeeps ==
    ASSUME RpcInv, call # None, call.at # "copy", call.s \in ReadOnly,
           NEW d \in Datastore, NEW v \in Tree, ApplyChange(d, v)
    PROVE  \A e \in Datastore : Data(e)' = Data(e)
<1>1. skip # call.s
  BY CallType, NotSkipping, NoneAssumption
<1>2. UNCHANGED ds \/ (v = Data(d) /\ ds' = [ds EXCEPT ![d] = v])
  BY <1>1 DEF ApplyChange, MayChange, DiffCheck, Changed
<1> QED BY <1>2, NoneAssumption DEF RpcInv, TypeOK, Data, Datastore

LEMMA CopyKeeps ==
    ASSUME RpcInv, call # None, call.s \in ReadOnly, skip # call.s,
           NEW d \in Datastore, NEW from \in Datastore, ApplyCopy(d, from)
    PROVE  \A e \in Datastore :
              Data(e)' = Data(e) \/ (e = "candidate" /\ ds'["candidate"] = None)
<1>1. UNCHANGED ds \/ (ds' = Copied(d, from) /\ (Resets(d, from) \/ Data(from) = Data(d)))
  BY DEF ApplyCopy, MayChange, DiffCheck
<1>2. DsType /\ \A e \in Datastore : Data(e) \in Tree
  BY DataType DEF RpcInv, TypeOK, DsType
<1>3. CASE UNCHANGED ds
  BY <1>3 DEF Data
<1>4. CASE ds' = Copied(d, from) /\ Resets(d, from)
  BY <1>2, <1>4 DEF Copied, Resets, Data, DsType, Datastore
<1>5. CASE ds' = Copied(d, from) /\ ~Resets(d, from) /\ Data(from) = Data(d)
  BY <1>2, <1>5, NoneAssumption DEF Copied, Data, DsType, Datastore
<1> QED BY <1>1, <1>3, <1>4, <1>5

LEMMA StepWrites == RpcInv /\ [Next]_vars => [WriteStep]_vars
<1> SUFFICES ASSUME RpcInv, Next, call # None, call' # None, call.s \in ReadOnly,
                    UNCHANGED <<phase, req>>, call' # call, NEW e \in Datastore,
                    Data(e)' # Data(e)
             PROVE  \/ call.r.op = "copy-config" /\ RunToStart(call.r) /\ e = "startup"
                    \/ e = "candidate" /\ ds'["candidate"] = None
  BY DEF WriteStep
<1>1. ds' # ds
  BY DEF Data
<1>2. /\ call \in CallState /\ call.s \in Session /\ call.r \in Request /\ DsType
      /\ \A d \in Datastore : edit[call.s][d] \in {None} \cup Tree
  BY CallType DEF RpcInv, TypeOK, DsType
<1>3. ~ \E s \in Session : Timeout(s) \/ Close(s) \/ Take(s) \/ \E r \in Request : Send(s, r)
  BY <1>1, Zenon DEF RpcInv, TypeOK, Timeout, Close, Take, Send
<1>4. ~ \E d \in Datastore, v \in Content : Outside(d, v)
  BY DEF Outside
<1>5. ~ (UseSession \/ Return \/ GetParse \/ Get \/ EditParse \/ CopyParse \/ DeleteParse)
  BY <1>1 DEF UseSession, Return, GetParse, Get, EditParse, CopyParse, DeleteParse
<1>6. ~ (PlainParse \/ UnLock \/ ValidateParse \/ Validate)
  BY <1>1 DEF PlainParse, UnLock, ValidateParse, Validate
<1>7. ~EditConfig
  <2> SUFFICES ASSUME EditConfig PROVE FALSE
    OBVIOUS
  <2>1. call.at # "copy" /\ call.r.ds \in Datastore /\ call.data \in {None} \cup Tree
    BY <1>2, RequestShape DEF EditConfig, At, RpcInv, SafeInv, CallOK
  <2>2. PICK v \in Tree : ApplyChange(call.r.ds, v)
    BY <1>1, <1>2, <2>1 DEF EditConfig, ApplyEdit
  <2> QED BY <2>1, <2>2, ChangeKeeps
<1>8. ~EditData
  <2> SUFFICES ASSUME EditData PROVE FALSE
    OBVIOUS
  <2>1. call.at # "copy" /\ call.r.ds \in Datastore /\ call.data \in {None} \cup Tree
    BY <1>2, RequestShape DEF EditData, At, RpcInv, SafeInv, CallOK, NoSuchDs
  <2>2. call.data \in Tree /\ ApplyChange(call.r.ds, call.data)
    BY <1>1, <2>1 DEF EditData
  <2> QED BY <2>1, <2>2, ChangeKeeps
<1>9. ~Copy
  <2> SUFFICES ASSUME Copy PROVE FALSE
    OBVIOUS
  <2>1. call.at # "copy" /\ call.r.target \in Target /\ OrEmpty(call.data) \in Tree
    BY <1>2, RequestShape, EmptyVisible DEF Copy, At, RpcInv, SafeInv, CallOK, OrEmpty
  <2>2. call.r.target.to = "ds" /\ ApplyChange(call.r.target.ds, OrEmpty(call.data))
    BY <1>1 DEF Copy
  <2> QED BY <2>1, <2>2, TargetShape, ChangeKeeps
<1>10. ~Delete
  <2> SUFFICES ASSUME Delete PROVE FALSE
    OBVIOUS
  <2>1. call.at # "copy" /\ call.r.target \in Target
    BY <1>2, RequestShape DEF Delete, At
  <2>2. call.r.target.to # "url" /\ ApplyChange(call.r.target.ds, Empty)
    BY <1>1 DEF Delete
  <2> QED BY <2>1, <2>2, TargetShape, EmptyVisible, ChangeKeeps
<1>11. CASE Discard
  <2>1. skip # call.s
    BY <1>2, <1>11, NotSkipping, NoneAssumption DEF Discard, At
  <2> QED BY <1>11, <2>1, CopyKeeps DEF Discard, Datastore
<1>12. CASE CopyDatastore
  <2>1. /\ call.r.op = "copy-config" /\ call.r.source.ds \in Datastore
        /\ call.r.target.ds \in Datastore
    BY <1>2, <1>12, RequestShape, SourceShape, TargetShape
       DEF CopyDatastore, RpcInv, SafeInv, CallOK
  <2>2. CASE skip # call.s
    BY <1>12, <2>1, <2>2, CopyKeeps DEF CopyDatastore
  <2>3. CASE skip = call.s
    <3>1. RunToStart(call.r)
      BY <1>2, <2>3, NoneAssumption DEF RpcInv, SafeInv, SkipOK
    <3>2. ds' = [ds EXCEPT !["startup"] = Data("running")]
      BY <1>1, <1>12, <3>1 DEF CopyDatastore, ApplyCopy, Copied, Resets, RunToStart
    <3>3. e = "startup"
      BY <1>2, <3>2 DEF Data, DsType, Datastore
    <3> QED BY <2>1, <3>1, <3>3
  <2> QED BY <2>2, <2>3
<1> QED
  BY <1>3, <1>4, <1>5, <1>6, <1>7, <1>8, <1>9, <1>10, <1>11, <1>12 DEF Next, Callback

(* No call of a user without write access changes a datastore, except for  *)
(* the copy of running to startup that np2srv_diff_check_cb lets pass:     *)
(* skip_nacm_nc_sid never helps another request.                           *)
THEOREM WritesAreChecked == Spec => WritesChecked
BY Safety, StepWrites, PTL DEF Spec, WritesChecked

LEMMA StepPrepares == RpcInv /\ [Next]_vars => [PrepareStep]_vars
<1> SUFFICES ASSUME RpcInv, Next, NEW s \in Session, NEW d \in Datastore,
                    edit'[s][d] # None, edit[s][d] = None
             PROVE  call.r.op = "edit-data"
  BY DEF PrepareStep
<1>1. edit \in [Session -> [Datastore -> {None} \cup Tree]] /\ edit' # edit
  BY DEF RpcInv, TypeOK
<1>2. ASSUME NEW t \in Session PROVE ~StopSession(t)
  BY <1>1 DEF StopSession
<1>3. ~ \E t \in Session : Timeout(t) \/ Close(t) \/ Take(t) \/ \E r \in Request : Send(t, r)
  BY <1>1, <1>2, Zenon DEF Timeout, Close, Take, Send
<1>4. ~ \E e \in Datastore, v \in Content : Outside(e, v)
  BY <1>1 DEF Outside
<1>5. ~Return
  BY <1>1, <1>2, CallType DEF Return
<1>6. ~ (UseSession \/ GetParse \/ Get \/ EditParse \/ CopyParse \/ DeleteParse \/ PlainParse)
  BY <1>1 DEF UseSession, GetParse, Get, EditParse, CopyParse, DeleteParse, PlainParse
<1>7. ~ (UnLock \/ ValidateParse \/ Validate \/ Copy \/ CopyDatastore \/ Delete \/ Discard)
  BY <1>1 DEF UnLock, ValidateParse, Validate, Copy, CopyDatastore, Delete, Discard
<1>8. ~EditConfig
  <2>1. EditConfig => edit' = Batched(call.s, call.r.ds, None)
    BY DEF EditConfig
  <2> QED BY <1>1, <2>1 DEF Batched
<1> QED BY <1>3, <1>4, <1>5, <1>6, <1>7, <1>8 DEF Next, Callback, EditData, At

(* Changes stay prepared in a user session only after an edit-data that    *)
(* failed, never after an edit-config (np2srv_rpc_editconfig_cb).          *)
THEOREM EditConfigLeavesNothing == Spec => NoLeftovers
BY Safety, StepPrepares, PTL DEF Spec, NoLeftovers
=============================================================================
