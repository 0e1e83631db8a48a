--------------------------- MODULE AgentLifecycle ---------------------------
(***************************************************************************)
(* The agent process from main( ) to its end: start_all and stop_all of    *)
(* agent/application.cpp, the registry of service factories, the listeners *)
(* and the reactor's thread, against clients that connect, ask for         *)
(* services and tell the process to exit, while it starts as well.         *)
(***************************************************************************)
EXTENDS Naturals, Sequences

CONSTANTS Workers,      \* threads of the rpc pool
          Clients,      \* connections that may be made
          Endpoints,    \* the configured listeners are 1..Endpoints
          Nobody

ASSUME LifecycleAssumption ==
  Nobody \notin Workers /\ Endpoints \in Nat

VARIABLES
  at,         \* main: the subsystem it starts next, then what it waits for
  ep,         \* main: the listeners it has started
  open,       \* listeners that accept connections
  services,   \* services_
  slock,      \* services_lock_: a worker that runs a factory, or Nobody
  thread,     \* the reactor's thread_
  clients,    \* open connections
  inst,       \* services each connection holds an instance of
  doing,      \* what each worker does: "idle", a factory, or a step of quit
  made,       \* the service whose factory it runs
  left,       \* the subsystems it has to stop: the first ones of Order
  pools,      \* the pools run
  crashed     \* two threads have joined thread_ at once

registry == <<services, slock>>
sessions == <<clients, inst>>
vars == <<at, ep, open, registry, thread, sessions, doing, made, left, pools, crashed>>

\* Mutant: the listeners are added first.
ListenersFirst == <<"listeners", "logging", "fs", "gpio", "reactor", "multicast">>

\* add_subsystem, in the order of main: the order they start in.
Order == <<"logging", "fs", "gpio", "reactor", "multicast", "listeners">>
Last == Len(Order)
\* Those that register a factory in start and unregister it in stop.
Registering == {"logging", "fs", "gpio"}

Init ==
  /\ at = 1 /\ ep = 0 /\ open = {} /\ services = {"internal"} /\ slock = Nobody
  /\ thread = FALSE /\ clients = {} /\ inst = [c \in Clients |-> {}]
  /\ doing = [w \in Workers |-> "idle"] /\ made = [w \in Workers |-> "none"]
  /\ left = [w \in Workers |-> 0]
  /\ pools = TRUE /\ crashed = FALSE

-----------------------------------------------------------------------------
(* main: start_all, one subsystem after the other *)

Starts(S) == at <= Last /\ Order[at] \in S
Main == UNCHANGED <<sessions, doing, made, left, pools, crashed>>

\* A second factory of one name would throw; the names differ.
RegisterFactory ==
  /\ Starts(Registering) /\ slock = Nobody
  /\ services' = services \cup {Order[at]} /\ at' = at + 1
  /\ UNCHANGED <<ep, open, slock, thread>> /\ Main

StartThread ==
  /\ Starts({"reactor"}) /\ thread' = TRUE /\ at' = at + 1
  /\ UNCHANGED <<ep, open, registry>> /\ Main

StartMulticast ==
  /\ Starts({"multicast"}) /\ at' = at + 1
  /\ UNCHANGED <<ep, open, registry, thread>> /\ Main

\* listeners::impl::start_all: a listener that fails is logged; clients come
\* while the later ones start.
StartListener ==
  /\ Starts({"listeners"})
  /\ IF ep < Endpoints
     THEN ep' = ep + 1 /\ open' \in {open, open \cup {ep + 1}} /\ UNCHANGED at
     ELSE at' = at + 1 /\ UNCHANGED <<ep, open>>
  /\ UNCHANGED <<registry, thread>> /\ Main

\* attach runs the io pool until it is stopped, join_all waits for the workers.
Finish ==
  /\ at = Last + 1 /\ ~pools /\ \A w \in Workers : doing[w] \in {"idle", "ended"}
  /\ at' = Last + 2
  /\ UNCHANGED <<ep, open, registry, thread>> /\ Main

-----------------------------------------------------------------------------
(* Clients, served by the workers *)

Process == UNCHANGED <<at, ep>>

\* Mutant: an accept that was pending when its listener stopped still ends well.
AcceptLate(c) ==
  /\ (open # {} \/ at > Last) /\ pools /\ c \notin clients /\ clients' = clients \cup {c}
  /\ UNCHANGED <<open, registry, thread, inst, doing, made, left, pools, crashed>> /\ Process

Accept(c) ==
  /\ open # {} /\ pools /\ c \notin clients /\ clients' = clients \cup {c}
  /\ UNCHANGED <<open, registry, thread, inst, doing, made, left, pools, crashed>> /\ Process

Leave(c) ==
  /\ c \in clients /\ pools
  /\ clients' = clients \ {c} /\ inst' = [inst EXCEPT ![c] = {}]
  /\ UNCHANGED <<open, registry, thread, doing, made, left, pools, crashed>> /\ Process

\* get_service_by_name runs the factory with services_lock_ held; the instance
\* is kept by the connection.
GetService(w, c, s) ==
  /\ pools /\ doing[w] = "idle" /\ c \in clients /\ slock = Nobody /\ s \in services \ inst[c]
  /\ slock' = w
  /\ doing' = [doing EXCEPT ![w] = "factory"] /\ made' = [made EXCEPT ![w] = s]
  /\ inst' = [inst EXCEPT ![c] = @ \cup {s}]
  /\ UNCHANGED <<open, left, services, thread, clients, pools, crashed>> /\ Process

FactoryEnds(w) ==
  /\ doing[w] = "factory" /\ slock' = Nobody
  /\ doing' = [doing EXCEPT ![w] = "idle"] /\ made' = [made EXCEPT ![w] = "none"]
  /\ UNCHANGED <<open, left, services, thread, sessions, pools, crashed>> /\ Process

-----------------------------------------------------------------------------
(* quit, in the worker that serves exit_process *)

Goto(w, l) == doing' = [doing EXCEPT ![w] = l]

\* Mutant: stop_all takes services_lock_ for all of its work.
ExitProcessLocked(w, c) ==
  /\ pools /\ doing[w] = "idle" /\ "internal" \in inst[c] /\ slock = Nobody /\ slock' = w
  /\ Goto(w, "stop") /\ left' = [left EXCEPT ![w] = Last]
  /\ UNCHANGED <<open, made, services, thread, sessions, pools, crashed>> /\ Process

ExitProcess(w, c) ==
  /\ pools /\ doing[w] = "idle" /\ "internal" \in inst[c]
  /\ Goto(w, "stop") /\ left' = [left EXCEPT ![w] = Last]
  /\ UNCHANGED <<open, made, registry, thread, sessions, pools, crashed>> /\ Process

\* stop_all goes through the subsystems from the last to the first.
Stops(w, S) == doing[w] = "stop" /\ Order[left[w]] \in S
Stopped(w) ==
  /\ left' = [left EXCEPT ![w] = @ - 1]
  /\ Goto(w, IF left[w] = 1 THEN "clear" ELSE "stop")

UnregisterFactory(w) ==
  /\ Stops(w, Registering) /\ slock = Nobody
  /\ services' = services \ {Order[left[w]]} /\ Stopped(w)
  /\ UNCHANGED <<open, made, slock, thread, sessions, pools, crashed>> /\ Process

StopListeners(w) ==
  /\ Stops(w, {"listeners"}) /\ open' = {} /\ Stopped(w)
  /\ UNCHANGED <<registry, made, thread, sessions, pools, crashed>> /\ Process

StopMulticast(w) ==
  /\ Stops(w, {"multicast"}) /\ Stopped(w)
  /\ UNCHANGED <<open, made, registry, thread, sessions, pools, crashed>> /\ Process

\* reactor::impl::stop_thread: nothing guards thread_; a second join while one
\* is waiting, or of a thread_ that was reset meanwhile, is undefined.
StopThread(w) ==
  /\ Stops(w, {"reactor"})
  /\ IF ~thread THEN Stopped(w) /\ UNCHANGED crashed
     ELSE /\ Goto(w, "join") /\ UNCHANGED left
          /\ IF \E v \in Workers : doing[v] = "join" THEN crashed' \in BOOLEAN ELSE UNCHANGED crashed
  /\ UNCHANGED <<open, made, registry, thread, sessions, pools>> /\ Process

\* The reactor's thread has left run_one.
Joined(w) ==
  /\ doing[w] = "join" /\ thread' = FALSE /\ Stopped(w)
  /\ UNCHANGED <<open, made, registry, sessions, pools, crashed>> /\ Process

ClearServices(w) ==
  /\ doing[w] = "clear" /\ slock = Nobody /\ services' = {} /\ Goto(w, "clients")
  /\ UNCHANGED <<open, slock, thread, sessions, made, left, pools, crashed>> /\ Process

\* stop_all_clients and get_clients( )->clear( ): the instances go with them.
StopClients(w) ==
  /\ doing[w] = "clients" /\ clients' = {} /\ inst' = [c \in Clients |-> {}] /\ Goto(w, "pools")
  /\ UNCHANGED <<open, registry, thread, made, left, pools, crashed>> /\ Process

StopPools(w) ==
  /\ doing[w] = "pools" /\ pools' = FALSE /\ Goto(w, "ended")
  /\ UNCHANGED <<open, registry, thread, sessions, made, left, crashed>> /\ Process

Quit(w) ==
  \/ UnregisterFactory(w) \/ StopListeners(w) \/ StopMulticast(w) \/ StopThread(w) \/ Joined(w)
  \/ ClearServices(w) \/ StopClients(w) \/ StopPools(w)

Starting == RegisterFactory \/ StartThread \/ StartMulticast \/ StartListener \/ Finish

Next ==
  /\ ~crashed
  /\ \/ Starting
     \/ \E c \in Clients : Accept(c) \/ Leave(c)
     \/ \E w \in Workers, c \in Clients :
          ExitProcess(w, c) \/ \E s \in services : GetService(w, c, s)
     \/ \E w \in Workers : FactoryEnds(w) \/ Quit(w)

\* main goes on, factories return, and a worker that quits takes its steps; it
\* may wait for services_lock_ again and again while clients are served.
Fairness ==
  /\ WF_vars(~crashed /\ Starting)
  /\ \A w \in Workers : WF_vars(~crashed /\ FactoryEnds(w)) /\ SF_vars(~crashed /\ Quit(w))

Spec == Init /\ [][Next]_vars /\ Fairness

-----------------------------------------------------------------------------
(* Properties *)

Services == Registering \cup {"internal"}

TypeOK ==
  /\ at \in 1..(Last + 2) /\ ep \in 0..Endpoints /\ open \subseteq 1..Endpoints
  /\ services \subseteq Services /\ slock \in Workers \cup {Nobody}
  /\ thread \in BOOLEAN /\ clients \subseteq Clients /\ inst \in [Clients -> SUBSET Services]
  /\ doing \in [Workers -> {"idle", "factory", "stop", "join", "clear", "clients", "pools", "ended"}]
  /\ made \in [Workers -> Services \cup {"none"}] /\ left \in [Workers -> 0..Last]
  /\ pools \in BOOLEAN /\ crashed \in BOOLEAN
  /\ \A w \in Workers : /\ doing[w] = "factory" => made[w] \in Services
                        /\ doing[w] \in {"stop", "join"} => left[w] \in 1..Last

\* A factory runs only while its subsystem has it registered: the stop of the
\* subsystem waits, and every subsystem it was created from is still there.
FactoryIsRegistered ==
  \A w \in Workers : doing[w] = "factory" => slock = w /\ made[w] \in services

\* Once a quit has cleared the registry nothing registers again, also when it
\* came while main was starting: clients only come when the listeners, the last
\* subsystem, are started.
NothingServedAfterClear ==
  (\E w \in Workers : doing[w] \in {"clients", "pools", "ended"}) => services = {}

\* Both: what the registry serves is backed by a subsystem that is started.
RegistryHolds == FactoryIsRegistered /\ NothingServedAfterClear

\* At the end of main no connection is left, unless it came in by a listener
\* that main has started after the quit had stopped them all.
EndLeavesNoClient ==
  at = Last + 2 /\ open = {} => clients = {}

\* exit_process leads to the end of main: no join and no lock of the registry
\* is waited for by who would release it.
ExitEnds == (\E w \in Workers : doing[w] = "stop") ~> (at = Last + 2 \/ crashed)
=============================================================================
