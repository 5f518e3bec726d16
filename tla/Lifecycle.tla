----------------------------- MODULE Lifecycle ------------------------------
(***************************************************************************)
(* Starting and stopping the server (main.c): the PID file, the steps of   *)
(* server_init, server_rpc_subscribe and server_data_subscribe, any of     *)
(* which may fail, the worker threads, the signals, and the cleanup, which *)
(* is the same whatever was reached.  Several processes may be started on  *)
(* one machine; they share the PID file, the UNIX socket and sysrepo.      *)
(***************************************************************************)
EXTENDS Naturals, Sequences

CONSTANTS
  Process,     \* processes that are started
  None,
  Workers,     \* the worker threads; the main thread is one of them
  MaxStarts,   \* bound on the starts of the server
  MaxFaults    \* bound on steps that fail

VARIABLES
  pc,        \* where main() is in every process
  held,      \* what the process has set up and not yet taken down
  running,   \* its running threads: "rpc", "data", "home" and the workers
  sessions,  \* whether a NETCONF session is in its poll structure
  loop,      \* loop_continue
  quit,      \* quit of signal_handler
  fd,        \* the PID file it has open, None or a number
  file,      \* the PID file: its number (None when unlinked), holder, lock
  socket,    \* the process whose UNIX socket has the path
  starts, faults

vars == <<pc, held, running, sessions, loop, quit, fd, file, socket, starts,
          faults>>

-----------------------------------------------------------------------------
(***************************************************************************)
(* What is set up, in order.  A subscription starts a thread of sysrepo    *)
(* that runs its callbacks; the call-home clients of the configuration     *)
(* start theirs while the data subscriptions are made, before the NACM     *)
(* rules are loaded.                                                       *)
(***************************************************************************)
ServerInit == <<"connection", "session", "schemas", "nacm", "netconf", "ps",
                "capabilities", "unix", "restore">>

ServerRpcSubscribe == <<"rpc">>

ServerDataSubscribe == <<"data", "home", "rules">>

SetUp == ServerInit \o ServerRpcSubscribe \o ServerDataSubscribe

(* What is set up before step i. *)
Before(i) == {SetUp[j] : j \in 1..(i - 1)}

(* Mutant: the sessions are closed before the subscriptions are. *)
ServerDestroyPsFirst == <<"ps", "rpc", "data", "home", "netconf", "unix", "nacm", "connection">>

(* What is taken down, in order. *)
ServerDestroy == <<"rpc", "data", "home", "ps", "netconf", "unix", "nacm",
                   "connection">>

(* A worker is none of the parts. *)
ASSUME WorkersAssumption == Workers \cap Before(Len(SetUp) + 1) = {}

Thread == {"rpc", "data", "home"} \cup Workers

(* What a thread uses while it runs. *)
Uses(t) ==
  CASE t = "rpc"  -> {"connection", "nacm", "ps"}
    [] t = "data" -> {"connection", "nacm", "netconf"}
    [] t = "home" -> {"connection", "netconf", "ps"}
    [] OTHER      -> {"connection", "nacm", "netconf", "ps", "rpc", "rules"}

-----------------------------------------------------------------------------
Init ==
  /\ pc = [p \in Process |-> "off"]
  /\ held = [p \in Process |-> {}] /\ running = [p \in Process |-> {}]
  /\ sessions = [p \in Process |-> FALSE]
  /\ loop = [p \in Process |-> TRUE] /\ quit = [p \in Process |-> FALSE]
  /\ fd = [p \in Process |-> None]
  /\ file = [now |-> None, made |-> 0, pid |-> None, lock |-> None]
  /\ socket = None
  /\ starts = 0 /\ faults = 0

Fault == faults < MaxFaults /\ faults' = faults + 1

To(p, where) == pc' = [pc EXCEPT ![p] = where]

(* The PID file is opened, locked without waiting, written and closed;     *)
(* closing it releases the lock.  An error ends the process at once.       *)
OpenPid(p) ==
  /\ pc[p] = "off" /\ starts < MaxStarts
  /\ starts' = starts + 1
  /\ To(p, "lock")
  /\ LET new == file.now = None
         n   == IF new THEN file.made + 1 ELSE file.now
     IN /\ fd' = [fd EXCEPT ![p] = n]
        /\ file' = IF new THEN [now |-> n, made |-> n, pid |-> None,
                                lock |-> None]
                   ELSE file
  /\ loop' = [loop EXCEPT ![p] = TRUE] /\ quit' = [quit EXCEPT ![p] = FALSE]
  /\ UNCHANGED <<held, running, sessions, socket, faults>>

LockPid(p) ==
  /\ pc[p] = "lock"
  /\ IF fd[p] = file.now /\ file.lock # None
     THEN To(p, "off") /\ fd' = [fd EXCEPT ![p] = None] /\ UNCHANGED file
     ELSE /\ To(p, "write") /\ UNCHANGED fd
          /\ file' = IF fd[p] = file.now THEN [file EXCEPT !.lock = p]
                     ELSE file
  /\ UNCHANGED <<held, running, sessions, loop, quit, socket, starts, faults>>

Close(p, f) == IF f.lock = p THEN [f EXCEPT !.lock = None] ELSE f

WritePid(p) ==
  /\ pc[p] = "write"
  /\ fd' = [fd EXCEPT ![p] = None]
  /\ \/ /\ To(p, "setup")
        /\ file' = Close(p, IF fd[p] = file.now THEN [file EXCEPT !.pid = p]
                            ELSE file)
        /\ UNCHANGED faults
     \/ Fault /\ To(p, "off") /\ file' = Close(p, file)
  /\ UNCHANGED <<held, running, sessions, loop, quit, socket, starts>>

(* One step of setting up; sysrepo takes the subscriptions to the RPCs of  *)
(* one process only.                                                       *)
SetUpStep(p) == \E i \in 1..Len(SetUp) :
  LET next == SetUp[i]
      taken == next = "rpc" /\ \E q \in Process : "rpc" \in held[q]
  IN /\ pc[p] = "setup" /\ held[p] = Before(i)
     /\ \/ /\ ~taken
           /\ held' = [held EXCEPT ![p] = @ \cup {next}]
           /\ running' = [running EXCEPT ![p] = @ \cup ({next} \cap Thread)]
           /\ socket' = IF next = "unix" THEN p ELSE socket
           /\ UNCHANGED <<pc, faults>>
        \/ /\ taken /\ To(p, "cleanup")
           /\ UNCHANGED <<held, running, socket, faults>>
        \/ /\ Fault /\ To(p, "cleanup")
           /\ UNCHANGED <<held, running, socket>>
     /\ UNCHANGED <<sessions, loop, quit, fd, file, starts>>

StartWorkers(p) ==
  /\ pc[p] = "setup" /\ held[p] = Before(Len(SetUp) + 1)
  /\ running' = [running EXCEPT ![p] = @ \cup Workers]
  /\ To(p, "work")
  /\ UNCHANGED <<held, sessions, loop, quit, fd, file, socket, starts, faults>>

(* A client is accepted by a worker, or connects by call home. *)
Accept(p) ==
  /\ running[p] \cap ({"home"} \cup Workers) # {}
  /\ ~sessions[p]
  /\ sessions' = [sessions EXCEPT ![p] = TRUE]
  /\ UNCHANGED <<pc, held, running, loop, quit, fd, file, socket, starts, faults>>

(* A worker leaves its loop once loop_continue is cleared. *)
WorkerExits(p, w) ==
  /\ w \in running[p] /\ ~loop[p]
  /\ running' = [running EXCEPT ![p] = @ \ {w}]
  /\ UNCHANGED <<pc, held, sessions, loop, quit, fd, file, socket, starts, faults>>

Join(p) ==
  /\ pc[p] = "work" /\ running[p] \cap Workers = {}
  /\ To(p, "cleanup")
  /\ UNCHANGED <<held, running, sessions, loop, quit, fd, file, socket, starts, faults>>

UnlinkPid(p) ==
  /\ pc[p] = "cleanup"
  /\ file' = [file EXCEPT !.now = None, !.pid = None, !.lock = None]
  /\ To(p, "destroy")
  /\ UNCHANGED <<held, running, sessions, loop, quit, fd, socket, starts, faults>>

(* Mutant: taking down the poll structure closes no session. *)
DestroyStepOpen(p) == \E i \in 1..Len(ServerDestroy) :
  LET r == ServerDestroy[i]
  IN /\ pc[p] = "destroy" /\ r \in held[p]
     /\ \A j \in 1..(i - 1) : ServerDestroy[j] \notin held[p]
     /\ held' = [held EXCEPT ![p] = IF r = "connection" THEN {} ELSE @ \ {r}]
     /\ running' = [running EXCEPT ![p] = @ \ {r}]
     /\ socket' = IF r = "unix" THEN None ELSE socket
     /\ UNCHANGED <<pc, sessions, loop, quit, fd, file, starts, faults>>

(* Taking down the poll structure closes the sessions; the UNIX socket is  *)
(* unlinked by its path; the rest goes with the connection.                *)
DestroyStep(p) == \E i \in 1..Len(ServerDestroy) :
  LET r == ServerDestroy[i]
  IN /\ pc[p] = "destroy" /\ r \in held[p]
     /\ \A j \in 1..(i - 1) : ServerDestroy[j] \notin held[p]
     /\ held' = [held EXCEPT ![p] = IF r = "connection" THEN {} ELSE @ \ {r}]
     /\ running' = [running EXCEPT ![p] = @ \ {r}]
     /\ sessions' = [sessions EXCEPT ![p] = @ /\ r # "ps"]
     /\ socket' = IF r = "unix" THEN None ELSE socket
     /\ UNCHANGED <<pc, loop, quit, fd, file, starts, faults>>

Exit(p) ==
  /\ pc[p] = "destroy" /\ held[p] = {}
  /\ To(p, "off")
  /\ UNCHANGED <<held, running, sessions, loop, quit, fd, file, socket, starts, faults>>

(* Mutant: the first signal is remembered only. *)
SignalNoted(p) ==
  /\ pc[p] # "off" /\ ~quit[p]
  /\ quit' = [quit EXCEPT ![p] = TRUE]
  /\ UNCHANGED <<pc, held, running, sessions, loop, fd, file, socket, starts, faults>>

(* The first signal stops the loop of the workers, a second one the        *)
(* process: the kernel closes its files and ends its threads, nothing is   *)
(* unlinked.                                                               *)
Signal(p) ==
  /\ pc[p] # "off"
  /\ IF ~quit[p]
     THEN /\ quit' = [quit EXCEPT ![p] = TRUE]
          /\ loop' = [loop EXCEPT ![p] = FALSE]
          /\ UNCHANGED <<pc, held, running, sessions, fd, file>>
     ELSE /\ To(p, "off")
          /\ held' = [held EXCEPT ![p] = {}]
          /\ running' = [running EXCEPT ![p] = {}]
          /\ sessions' = [sessions EXCEPT ![p] = FALSE]
          /\ fd' = [fd EXCEPT ![p] = None]
          /\ file' = Close(p, file)
          /\ UNCHANGED <<loop, quit>>
  /\ UNCHANGED <<socket, starts, faults>>

Main(p) ==
  \/ LockPid(p) \/ WritePid(p) \/ SetUpStep(p) \/ StartWorkers(p) \/ Join(p)
  \/ UnlinkPid(p) \/ DestroyStep(p) \/ Exit(p)

Next ==
  \E p \in Process :
    \/ OpenPid(p) \/ Main(p) \/ Accept(p) \/ Signal(p)
    \/ \E w \in Workers : WorkerExits(p, w)

(* main() goes on, and a worker is back at the top of its loop after the   *)
(* timeouts of nc_accept and nc_ps_poll.                                   *)
Spec ==
  /\ Init /\ [][Next]_vars
  /\ \A p \in Process :
       /\ WF_vars(Main(p))
       /\ \A w \in Workers : WF_vars(WorkerExits(p, w))

-----------------------------------------------------------------------------
(***************************************************************************)
(* Properties                                                              *)
(***************************************************************************)

(* No thread, neither one of sysrepo's or of call home nor a worker, runs  *)
(* before what it uses is set up or after it is taken down, whichever step *)
(* of server_init or of the subscriptions failed and whenever a signal     *)
(* came (the orders of main and server_destroy).  In particular a worker,  *)
(* the only thread that takes RPCs from sessions, runs only with the NACM  *)
(* rules loaded, although call-home sessions exist before.                 *)
NothingUsedUnready ==
  \A p \in Process : \A t \in running[p] : Uses(t) \subseteq held[p]

(* A process that was signalled ends, wherever the signal reached it       *)
(* (signal_handler, loop_continue).                                        *)
SignalEnds ==
  \A p \in Process : (quit[p] /\ pc[p] # "off") ~> (pc[p] = "off")

(* A process that is not set up completely or is told to stop leaves no    *)
(* session behind: the cleanup closes those that call home made.           *)
NoSessionLeft ==
  \A p \in Process : pc[p] = "off" => ~sessions[p] /\ running[p] = {}
=============================================================================
