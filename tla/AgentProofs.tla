---------------------------- MODULE AgentProofs -----------------------------
(***************************************************************************)
(* Theorems about the agent's process (AgentLifecycle), the discovery of   *)
(* agents (Discovery) and the I2C and SPI services (Devices), for every    *)
(* value of their constants.  Each theorem is about one of the three, which*)
(* share no name.                                                          *)
(***************************************************************************)
EXTENDS AgentLifecycle, Discovery, Devices, SequenceTheorems, TLAPS

-----------------------------------------------------------------------------
(***************************************************************************)
(* AgentLifecycle.  The inductive invariant is IInv: the type invariant,   *)
(* who holds services_lock_ (Locked), that nobody is served or quits before*)
(* the last factory is registered (Early), NothingServedAfterClear, and who*)
(* ends the connections that are left (Draining).                          *)
(***************************************************************************)

\* The order of the subsystems, an entry at a time.
LEMMA OrderIs ==
  /\ Last = 6 /\ 1..(Last + 2) = 1..8 /\ 0..Last = 0..6
  /\ Order[1] = "logging" /\ Order[2] = "fs" /\ Order[3] = "gpio"
  /\ Order[4] = "reactor" /\ Order[5] = "multicast" /\ Order[6] = "listeners"
BY DEF Last, Order

\* What a worker in the middle of a quit has still to do.
Quitting == {"stop", "join", "clear", "clients"}

\* services_lock_ is held by the worker that runs a factory, and the factory
\* is one that is registered.
Locked ==
  /\ FactoryIsRegistered
  /\ slock # Nobody => doing[slock] = "factory"

\* Nobody connects, and so nobody quits, before main has come to the
\* listeners, when the last factory is registered; a connection that is not
\* open holds nothing.
Early ==
  /\ at < Last => open = {} /\ clients = {} /\ \A w \in Workers : doing[w] = "idle"
  /\ \A c \in Clients \ clients : inst[c] = {}

\* With no listener open, the connections that are left belong to a quit that
\* will end them; and main ends when no worker has anything left to do.
Draining ==
  /\ open = {} /\ clients # {} => \E w \in Workers : doing[w] \in Quitting
  /\ at = Last + 2 => ~pools /\ \A w \in Workers : doing[w] \in {"idle", "ended"}

IInv == TypeOK /\ Locked /\ Early /\ NothingServedAfterClear /\ Draining

-----------------------------------------------------------------------------
(* Each conjunct, preserved by a step of each part of the agent: main,     *)
(* what the clients do, and a worker that quits                            *)

LEMMA Begins == Init => IInv
<1> SUFFICES ASSUME Init PROVE IInv
  OBVIOUS
<1> USE LifecycleAssumption, OrderIs DEF Init
<1>1. TypeOK
  <2>1. at \in 1..(Last + 2) /\ ep \in 0..Endpoints /\ left \in [Workers -> 0..Last]
    OBVIOUS
  <2> QED
    BY <2>1 DEF TypeOK, Services
<1>2. Locked /\ Early /\ NothingServedAfterClear /\ Draining
  BY DEF Locked, FactoryIsRegistered, Early, NothingServedAfterClear, Draining, Quitting
<1> QED
  BY <1>1, <1>2 DEF IInv

\* A subsystem that was stopped leaves the ones before it, or the registry.
LEMMA StoppedTyped ==
  ASSUME TypeOK, NEW w \in Workers, doing[w] \in {"stop", "join"}, Stopped(w)
  PROVE  /\ left' \in [Workers -> 0..Last]
         /\ doing' \in [Workers -> {"idle", "factory", "stop", "join", "clear", "clients",
                                  "pools", "ended"}]
         /\ \A v \in Workers : /\ doing'[v] = "factory" => doing[v] = "factory"
                               /\ doing'[v] \in {"stop", "join"} => left'[v] \in 1..Last
<1>1. left[w] \in 1..6
  BY OrderIs DEF TypeOK
<1>2. left[w] - 1 \in 0..6 /\ (left[w] # 1 => left[w] - 1 \in 1..6)
  BY <1>1
<1> QED
  BY <1>1, <1>2, OrderIs DEF TypeOK, Stopped, Goto

\* main: start_all registers while no worker does anything but wait.
LEMMA StartingPreserves == ASSUME IInv, Starting PROVE IInv'
<1> USE LifecycleAssumption, OrderIs DEF Starts, Main, registry, sessions, Registering, Services
<1>1. CASE RegisterFactory
  <2>1. TypeOK'
    <3>1. at \in 1..6
      BY <1>1 DEF RegisterFactory, IInv, TypeOK
    <3>2. at + 1 \in 1..8
      BY <3>1
    <3>3. at' \in 1..(Last + 2) /\ services' \subseteq Services
      BY <1>1, <3>2 DEF RegisterFactory, IInv, TypeOK
    <3> QED
      BY <1>1, <3>3 DEF RegisterFactory, IInv, TypeOK
  <2>2. Locked'
    BY <1>1 DEF RegisterFactory, IInv, TypeOK, Locked, FactoryIsRegistered
  <2>3. Early'
    BY <1>1 DEF RegisterFactory, IInv, TypeOK, Early
  <2>4. NothingServedAfterClear'
    BY <1>1 DEF RegisterFactory, IInv, TypeOK, Early, Locked, NothingServedAfterClear
  <2>5. Draining'
    BY <1>1 DEF RegisterFactory, IInv, TypeOK, Early, Draining, Quitting
  <2> QED
    BY <2>1, <2>2, <2>3, <2>4, <2>5 DEF IInv
<1>2. CASE StartThread
  <2>1. TypeOK'
    BY <1>2 DEF StartThread, IInv, TypeOK
  <2>2. Locked'
    BY <1>2 DEF StartThread, IInv, TypeOK, Locked, FactoryIsRegistered
  <2>3. Early'
    BY <1>2 DEF StartThread, IInv, TypeOK, Early
  <2>4. NothingServedAfterClear'
    BY <1>2 DEF StartThread, IInv, TypeOK, Early, Locked, NothingServedAfterClear
  <2>5. Draining'
    BY <1>2 DEF StartThread, IInv, TypeOK, Early, Draining, Quitting
  <2> QED
    BY <2>1, <2>2, <2>3, <2>4, <2>5 DEF IInv
<1>3. CASE StartMulticast
  <2>1. TypeOK'
    BY <1>3 DEF StartMulticast, IInv, TypeOK
  <2>2. Locked'
    BY <1>3 DEF StartMulticast, IInv, TypeOK, Locked, FactoryIsRegistered
  <2>3. Early'
    BY <1>3 DEF StartMulticast, IInv, TypeOK, Early
  <2>4. NothingServedAfterClear'
    BY <1>3 DEF StartMulticast, IInv, TypeOK, Early, Locked, NothingServedAfterClear
  <2>5. Draining'
    BY <1>3 DEF StartMulticast, IInv, TypeOK, Early, Draining, Quitting
  <2> QED
    BY <2>1, <2>2, <2>3, <2>4, <2>5 DEF IInv
<1>4. CASE StartListener
  <2>1. TypeOK'
    <3>1. at = 6
      BY <1>4 DEF StartListener, IInv, TypeOK
    <3>2. ep < Endpoints => ep + 1 \in 0..Endpoints /\ ep + 1 \in 1..Endpoints
      BY DEF IInv, TypeOK
    <3>3. at' \in 1..(Last + 2)
      BY <1>4, <3>1 DEF StartListener, IInv, TypeOK
    <3>4. ep' \in 0..Endpoints /\ open' \subseteq 1..Endpoints
      <4>1. CASE ep < Endpoints
        <5>1. ep' = ep + 1 /\ open' \subseteq open \cup {ep + 1}
          BY <1>4, <4>1 DEF StartListener
        <5>2. open \subseteq 1..Endpoints
          BY DEF IInv, TypeOK
        <5> QED
          BY <3>2, <4>1, <5>1, <5>2
      <4>2. CASE ~(ep < Endpoints)
        BY <1>4, <4>2 DEF StartListener, IInv, TypeOK
      <4> QED
        BY <4>1, <4>2
    <3> QED
      BY <1>4, <3>3, <3>4 DEF StartListener, IInv, TypeOK
  <2>2. Locked'
    BY <1>4 DEF StartListener, IInv, TypeOK, Locked, FactoryIsRegistered
  <2>3. Early'
    BY <1>4 DEF StartListener, IInv, TypeOK, Early
  <2>4. NothingServedAfterClear'
    BY <1>4 DEF StartListener, IInv, TypeOK, Early, Locked, NothingServedAfterClear
  <2>5. Draining'
    BY <1>4 DEF StartListener, IInv, TypeOK, Early, Draining, Quitting
  <2> QED
    BY <2>1, <2>2, <2>3, <2>4, <2>5 DEF IInv
<1>5. CASE Finish
  <2>1. TypeOK'
    BY <1>5 DEF Finish, IInv, TypeOK
  <2>2. Locked'
    BY <1>5 DEF Finish, IInv, TypeOK, Locked, FactoryIsRegistered
  <2>3. Early'
    BY <1>5 DEF Finish, IInv, TypeOK, Early
  <2>4. NothingServedAfterClear'
    BY <1>5 DEF Finish, IInv, TypeOK, Early, Locked, NothingServedAfterClear
  <2>5. Draining'
    BY <1>5 DEF Finish, IInv, TypeOK, Early, Draining, Quitting
  <2> QED
    BY <2>1, <2>2, <2>3, <2>4, <2>5 DEF IInv
<1> QED
  BY <1>1, <1>2, <1>3, <1>4, <1>5 DEF Starting

\* The clients: get_service_by_name takes the free lock, and what it serves is
\* registered then; an exit_process leaves the lock alone.
LEMMA ServingPreserves ==
  ASSUME IInv,
         \/ \E c \in Clients : Accept(c) \/ Leave(c)
         \/ \E w \in Workers, c \in Clients :
              ExitProcess(w, c) \/ \E s \in services : GetService(w, c, s)
         \/ \E w \in Workers : FactoryEnds(w)
  PROVE  IInv'
<1> USE LifecycleAssumption, OrderIs DEF registry, sessions, Registering, Services
<1>1. ASSUME NEW c \in Clients, Accept(c) PROVE IInv'
  <2>1. TypeOK'
    BY <1>1 DEF Accept, Process, IInv, TypeOK
  <2>2. Locked'
    BY <1>1 DEF Accept, Process, IInv, TypeOK, Locked, FactoryIsRegistered
  <2>3. Early'
    BY <1>1 DEF Accept, Process, IInv, TypeOK, Early
  <2>4. NothingServedAfterClear'
    BY <1>1 DEF Accept, Process, IInv, TypeOK, Early, Locked, NothingServedAfterClear
  <2>5. Draining'
    BY <1>1 DEF Accept, Process, IInv, TypeOK, Early, Draining, Quitting
  <2> QED
    BY <2>1, <2>2, <2>3, <2>4, <2>5 DEF IInv
<1>2. ASSUME NEW c \in Clients, Leave(c) PROVE IInv'
  <2>1. TypeOK'
    BY <1>2 DEF Leave, Process, IInv, TypeOK
  <2>2. Locked'
    BY <1>2 DEF Leave, Process, IInv, TypeOK, Locked, FactoryIsRegistered
  <2>3. Early'
    BY <1>2 DEF Leave, Process, IInv, TypeOK, Early
  <2>4. NothingServedAfterClear'
    BY <1>2 DEF Leave, Process, IInv, TypeOK, Early, Locked, NothingServedAfterClear
  <2>5. Draining'
    BY <1>2 DEF Leave, Process, IInv, TypeOK, Early, Draining, Quitting
  <2> QED
    BY <2>1, <2>2, <2>3, <2>4, <2>5 DEF IInv
<1>3. ASSUME NEW w \in Workers, NEW c \in Clients, ExitProcess(w, c) PROVE IInv'
  <2>1. TypeOK'
    BY <1>3 DEF ExitProcess, Process, Goto, IInv, TypeOK
  <2>2. Locked'
    BY <1>3 DEF ExitProcess, Process, Goto, IInv, TypeOK, Locked, FactoryIsRegistered
  <2>3. Early'
    BY <1>3 DEF ExitProcess, Process, Goto, IInv, TypeOK, Early
  <2>4. NothingServedAfterClear'
    BY <1>3 DEF ExitProcess, Process, Goto, IInv, TypeOK, Early, Locked, NothingServedAfterClear
  <2>5. Draining'
    BY <1>3 DEF ExitProcess, Process, Goto, IInv, TypeOK, Early, Draining, Quitting
  <2> QED
    BY <2>1, <2>2, <2>3, <2>4, <2>5 DEF IInv
<1>4. ASSUME NEW w \in Workers, NEW c \in Clients, NEW s \in services, GetService(w, c, s) PROVE IInv'
  <2>1. TypeOK'
    BY <1>4 DEF GetService, Process, IInv, TypeOK
  <2>2. Locked'
    BY <1>4 DEF GetService, Process, IInv, TypeOK, Locked, FactoryIsRegistered
  <2>3. Early'
    BY <1>4 DEF GetService, Process, IInv, TypeOK, Early
  <2>4. NothingServedAfterClear'
    BY <1>4 DEF GetService, Process, IInv, TypeOK, Early, Locked, NothingServedAfterClear
  <2>5. Draining'
    BY <1>4 DEF GetService, Process, IInv, TypeOK, Early, Draining, Quitting
  <2> QED
    BY <2>1, <2>2, <2>3, <2>4, <2>5 DEF IInv
<1>5. ASSUME NEW w \in Workers, FactoryEnds(w) PROVE IInv'
  <2>1. TypeOK'
    BY <1>5 DEF FactoryEnds, Process, IInv, TypeOK
  <2>2. Locked'
    BY <1>5 DEF FactoryEnds, Process, IInv, TypeOK, Locked, FactoryIsRegistered
  <2>3. Early'
    BY <1>5 DEF FactoryEnds, Process, IInv, TypeOK, Early
  <2>4. NothingServedAfterClear'
    BY <1>5 DEF FactoryEnds, Process, IInv, TypeOK, Early, Locked, NothingServedAfterClear
  <2>5. Draining'
    BY <1>5 DEF FactoryEnds, Process, IInv, TypeOK, Early, Draining, Quitting
  <2> QED
    BY <2>1, <2>2, <2>3, <2>4, <2>5 DEF IInv
<1> QED
  BY <1>1, <1>2, <1>3, <1>4, <1>5

\* A quit: it takes factories out of the registry only while none runs.
LEMMA QuitPreserves == ASSUME IInv, NEW w \in Workers, Quit(w) PROVE IInv'
<1> USE LifecycleAssumption, OrderIs DEF Process, Goto, registry, sessions, Registering, Services
<1>1. CASE UnregisterFactory(w)
  <2>1. TypeOK'
    BY <1>1, StoppedTyped DEF UnregisterFactory, Stops, IInv, TypeOK
  <2>2. Locked'
    BY <1>1 DEF UnregisterFactory, Stops, Stopped, IInv, TypeOK, Locked, FactoryIsRegistered
  <2>3. Early'
    BY <1>1 DEF UnregisterFactory, Stops, Stopped, IInv, TypeOK, Early
  <2>4. NothingServedAfterClear'
    BY <1>1 DEF UnregisterFactory, Stops, Stopped, IInv, TypeOK, Early, Locked, NothingServedAfterClear
  <2>5. Draining'
    BY <1>1 DEF UnregisterFactory, Stops, Stopped, IInv, TypeOK, Early, Draining, Quitting
  <2> QED
    BY <2>1, <2>2, <2>3, <2>4, <2>5 DEF IInv
<1>2. CASE StopListeners(w)
  <2>1. TypeOK'
    BY <1>2 DEF StopListeners, Stops, Stopped, IInv, TypeOK
  <2>2. Locked'
    BY <1>2 DEF StopListeners, Stops, Stopped, IInv, TypeOK, Locked, FactoryIsRegistered
  <2>3. Early'
    BY <1>2 DEF StopListeners, Stops, Stopped, IInv, TypeOK, Early
  <2>4. NothingServedAfterClear'
    BY <1>2 DEF StopListeners, Stops, Stopped, IInv, TypeOK, Early, Locked, NothingServedAfterClear
  <2>5. Draining'
    BY <1>2 DEF StopListeners, Stops, Stopped, IInv, TypeOK, Early, Draining, Quitting
  <2> QED
    BY <2>1, <2>2, <2>3, <2>4, <2>5 DEF IInv
<1>3. CASE StopMulticast(w)
  <2>1. TypeOK'
    BY <1>3 DEF StopMulticast, Stops, Stopped, IInv, TypeOK
  <2>2. Locked'
    BY <1>3 DEF StopMulticast, Stops, Stopped, IInv, TypeOK, Locked, FactoryIsRegistered
  <2>3. Early'
    BY <1>3 DEF StopMulticast, Stops, Stopped, IInv, TypeOK, Early
  <2>4. NothingServedAfterClear'
    BY <1>3 DEF StopMulticast, Stops, Stopped, IInv, TypeOK, Early, Locked, NothingServedAfterClear
  <2>5. Draining'
    BY <1>3 DEF StopMulticast, Stops, Stopped, IInv, TypeOK, Early, Draining, Quitting
  <2> QED
    BY <2>1, <2>2, <2>3, <2>4, <2>5 DEF IInv
<1>4. CASE StopThread(w)
  <2>1. TypeOK'
    BY <1>4 DEF StopThread, Stops, Stopped, IInv, TypeOK
  <2>2. Locked'
    BY <1>4 DEF StopThread, Stops, Stopped, IInv, TypeOK, Locked, FactoryIsRegistered
  <2>3. Early'
    BY <1>4 DEF StopThread, Stops, Stopped, IInv, TypeOK, Early
  <2>4. NothingServedAfterClear'
    BY <1>4 DEF StopThread, Stops, Stopped, IInv, TypeOK, Early, Locked, NothingServedAfterClear
  <2>5. Draining'
    BY <1>4 DEF StopThread, Stops, Stopped, IInv, TypeOK, Early, Draining, Quitting
  <2> QED
    BY <2>1, <2>2, <2>3, <2>4, <2>5 DEF IInv
<1>5. CASE Joined(w)
  <2>1. TypeOK'
    BY <1>5, StoppedTyped DEF Joined, IInv, TypeOK
  <2>2. Locked'
    BY <1>5 DEF Joined, Stopped, IInv, TypeOK, Locked, FactoryIsRegistered
  <2>3. Early'
    BY <1>5 DEF Joined, Stopped, IInv, TypeOK, Early
  <2>4. NothingServedAfterClear'
    BY <1>5 DEF Joined, Stopped, IInv, TypeOK, Early, Locked, NothingServedAfterClear
  <2>5. Draining'
    BY <1>5 DEF Joined, Stopped, IInv, TypeOK, Early, Draining, Quitting
  <2> QED
    BY <2>1, <2>2, <2>3, <2>4, <2>5 DEF IInv
<1>6. CASE ClearServices(w)
  <2>1. TypeOK'
    BY <1>6 DEF ClearServices, IInv, TypeOK
  <2>2. Locked'
    BY <1>6 DEF ClearServices, IInv, TypeOK, Locked, FactoryIsRegistered
  <2>3. Early'
    BY <1>6 DEF ClearServices, IInv, TypeOK, Early
  <2>4. NothingServedAfterClear'
    BY <1>6 DEF ClearServices, IInv, TypeOK, Early, Locked, NothingServedAfterClear
  <2>5. Draining'
    BY <1>6 DEF ClearServices, IInv, TypeOK, Early, Draining, Quitting
  <2> QED
    BY <2>1, <2>2, <2>3, <2>4, <2>5 DEF IInv
<1>7. CASE StopClients(w)
  <2>1. TypeOK'
    BY <1>7 DEF StopClients, IInv, TypeOK
  <2>2. Locked'
    BY <1>7 DEF StopClients, IInv, TypeOK, Locked, FactoryIsRegistered
  <2>3. Early'
    BY <1>7 DEF StopClients, IInv, TypeOK, Early
  <2>4. NothingServedAfterClear'
    BY <1>7 DEF StopClients, IInv, TypeOK, Early, Locked, NothingServedAfterClear
  <2>5. Draining'
    BY <1>7 DEF StopClients, IInv, TypeOK, Early, Draining, Quitting
  <2> QED
    BY <2>1, <2>2, <2>3, <2>4, <2>5 DEF IInv
<1>8. CASE StopPools(w)
  <2>1. TypeOK'
    BY <1>8 DEF StopPools, IInv, TypeOK
  <2>2. Locked'
    BY <1>8 DEF StopPools, IInv, TypeOK, Locked, FactoryIsRegistered
  <2>3. Early'
    BY <1>8 DEF StopPools, IInv, TypeOK, Early
  <2>4. NothingServedAfterClear'
    BY <1>8 DEF StopPools, IInv, TypeOK, Early, Locked, NothingServedAfterClear
  <2>5. Draining'
    BY <1>8 DEF StopPools, IInv, TypeOK, Early, Draining, Quitting
  <2> QED
    BY <2>1, <2>2, <2>3, <2>4, <2>5 DEF IInv
<1> QED
  BY <1>1, <1>2, <1>3, <1>4, <1>5, <1>6, <1>7, <1>8 DEF Quit

LEMMA StutterPreserves == ASSUME IInv, UNCHANGED vars PROVE IInv'
BY DEF vars, registry, sessions, IInv, TypeOK, Locked, FactoryIsRegistered, Early,
       NothingServedAfterClear, Draining

LEMMA Inductive == Spec => []IInv
<1>1. ASSUME IInv, [Next]_vars PROVE IInv'
  BY <1>1, StartingPreserves, ServingPreserves, QuitPreserves, StutterPreserves DEF Next
<1> QED
  BY <1>1, Begins, PTL DEF Spec

-----------------------------------------------------------------------------
\* The agent's variables have their types, and a worker that stops subsystems
\* has one left to stop.
THEOREM TypeCorrect == Spec => []TypeOK
<1>1. IInv => TypeOK
  BY DEF IInv
<1> QED
  BY <1>1, Inductive, PTL

\* A factory runs only while its subsystem has it registered, and after
\* services_.clear( ) nothing registers again, whenever exit_process came.
THEOREM RegistryStays == Spec => []RegistryHolds
<1>1. IInv => RegistryHolds
  BY DEF IInv, Locked, RegistryHolds
<1> QED
  BY <1>1, Inductive, PTL

\* When main has ended and no listener accepts, stop_all_clients has ended
\* every connection.
THEOREM NoClientAtEnd == Spec => []EndLeavesNoClient
<1>1. IInv => EndLeavesNoClient
  BY DEF IInv, Draining, Quitting, EndLeavesNoClient
<1> QED
  BY <1>1, Inductive, PTL

-----------------------------------------------------------------------------
(* Discovery: the pinger's operations                                      *)

\* The completions that are not handled yet, but for those of the timer.
Unhandled(q) == {i \in DOMAIN q : q[i][1] # "timer"}

PingerTyped == /\ send \in BOOLEAN /\ recvs \in Nat /\ overlap \in BOOLEAN
               /\ done \in Seq(Completions)

\* Of the send, the receives and their completions there is one at most.
OneOperation ==
  ~overlap => /\ recvs \in {0, 1} /\ (send => recvs = 0)
              /\ Unhandled(done) # {} => ~send /\ recvs = 0
              /\ \A i, j \in Unhandled(done) : i = j

LEMMA AppendedCompletion ==
  ASSUME NEW q \in Seq(Completions), NEW e \in Completions
  PROVE  /\ Append(q, e) \in Seq(Completions)
         /\ e[1] = "timer" => Unhandled(Append(q, e)) = Unhandled(q)
         /\ Unhandled(q) = {} => \A i, j \in Unhandled(Append(q, e)) : i = j
<1>1. /\ Len(q) \in Nat /\ DOMAIN q = 1..Len(q) /\ DOMAIN Append(q, e) = 1..(Len(q) + 1)
      /\ \A i \in 1..Len(q) : Append(q, e)[i] = q[i]
      /\ Append(q, e)[Len(q) + 1] = e
  OBVIOUS
<1>2. \A i \in DOMAIN Append(q, e) : i \in DOMAIN q \/ i = Len(q) + 1
  BY <1>1
<1>3. DOMAIN q \subseteq DOMAIN Append(q, e)
  BY <1>1
<1>4. Append(q, e) \in Seq(Completions)
  OBVIOUS
<1>5. e[1] = "timer" => Unhandled(Append(q, e)) = Unhandled(q)
  BY <1>1, <1>2, <1>3 DEF Unhandled
<1>6. Unhandled(q) = {} => \A i, j \in Unhandled(Append(q, e)) : i = j
  BY <1>1, <1>2 DEF Unhandled
<1> QED BY <1>4, <1>5, <1>6

LEMMA HandledCompletion ==
  ASSUME NEW q \in Seq(Completions), q # <<>>
  PROVE  /\ Tail(q) \in Seq(Completions) /\ Head(q) \in Completions
         /\ \A i \in Unhandled(Tail(q)) : i + 1 \in Unhandled(q) /\ i \in Nat \ {0}
         /\ Head(q)[1] # "timer" => 1 \in Unhandled(q)
<1>1. /\ Len(q) \in Nat \ {0} /\ DOMAIN q = 1..Len(q)
      /\ DOMAIN Tail(q) = 1..(Len(q) - 1)
      /\ \A i \in 1..(Len(q) - 1) : Tail(q)[i] = q[i + 1]
      /\ Head(q) = q[1]
  OBVIOUS
<1>2. \A i \in DOMAIN Tail(q) : i + 1 \in DOMAIN q /\ i \in Nat \ {0} /\ Tail(q)[i] = q[i + 1]
  BY <1>1
<1>3. 1 \in DOMAIN q
  BY <1>1
<1> QED BY <1>1, <1>2, <1>3 DEF Unhandled

\* What closing the socket ends with an error.
LEMMA AbortedIs ==
  ASSUME PingerTyped
  PROVE  /\ Aborted \in Seq(Completions)
         /\ Aborted = <<>> <=> ~send /\ recvs = 0
         /\ send /\ recvs = 0 => Aborted = <<<<"send", FALSE>>>>
         /\ ~send /\ recvs = 1 => Aborted = <<<<"recv", FALSE>>>>
<1> DEFINE Reads == [i \in 1..recvs |-> <<"recv", FALSE>>]
           Sent == <<<<"send", FALSE>>>>
<1>1. recvs \in Nat
  BY DEF PingerTyped
<1>2. <<"send", FALSE>> \in Completions /\ <<"recv", FALSE>> \in Completions
  BY DEF Completions
<1>3. Reads \in Seq(Completions) /\ Len(Reads) = recvs
  BY <1>1, <1>2, IsASeq
<1>4. Sent \in Seq(Completions) /\ Len(Sent) = 1 /\ <<>> \in Seq(Completions)
  BY <1>2
<1>5. recvs = 0 => Reads = <<>>
  BY <1>3
<1>6. recvs = 1 => Reads = <<<<"recv", FALSE>>>>
  <2>1. recvs = 1 => Len(Reads) = Len(<<<<"recv", FALSE>>>>)
    BY <1>3
  <2>2. recvs = 1 => \A i \in 1..Len(Reads) : Reads[i] = <<<<"recv", FALSE>>>>[i]
    <3> SUFFICES ASSUME recvs = 1, NEW i \in 1..Len(Reads) PROVE Reads[i] = <<<<"recv", FALSE>>>>[i]
      OBVIOUS
    <3>1. i = 1
      BY <1>3
    <3>2. 1 \in 1..recvs
      OBVIOUS
    <3>3. Reads[1] = <<"recv", FALSE>>
      BY <3>2, Zenon
    <3> QED BY <3>1, <3>3
  <2>3. <<<<"recv", FALSE>>>> \in Seq(Completions)
    BY <1>2
  <2> QED BY <1>3, <2>1, <2>2, <2>3, SeqEqual
<1>7. (send => Aborted = Sent \o Reads) /\ (~send => Aborted = <<>> \o Reads)
  BY Zenon DEF Aborted
<1> HIDE DEF Reads, Sent
<1>8. /\ Sent \o Reads \in Seq(Completions) /\ Sent \o Reads # <<>>
      /\ <<>> \o Reads = Reads /\ (recvs = 0 => Sent \o Reads = Sent)
      /\ Reads = <<>> <=> recvs = 0
  <2>1. Sent \o Reads \in Seq(Completions) /\ Len(Sent \o Reads) = 1 + recvs
    BY <1>3, <1>4, ConcatProperties
  <2>2. <<>> \o Reads = Reads /\ Sent \o <<>> = Sent
    BY <1>3, <1>4, ConcatEmptySeq
  <2>3. Len(Sent \o Reads) # 0
    BY <2>1, <1>1
  <2>4. Sent \o Reads # <<>>
    BY <2>1, <2>3
  <2>5. Reads = <<>> <=> recvs = 0
    BY <1>3
  <2> QED BY <2>1, <2>2, <2>4, <2>5, <1>5
<1>9. CASE send
  BY <1>7, <1>8, <1>9, Zenon DEF Sent
<1>10. CASE ~send
  BY <1>3, <1>6, <1>7, <1>8, <1>10, Zenon
<1> QED BY <1>9, <1>10

\* Closing moves the operation that is pending to the completions.
LEMMA ClosedOperation ==
  ASSUME PingerTyped, OneOperation, NEW q \in Seq(Completions),
         send' = FALSE, recvs' = 0, done' = q \o Aborted, overlap' = overlap,
         ~overlap => /\ Unhandled(q) # {} => ~send /\ recvs = 0
                     /\ \A i, j \in Unhandled(q) : i = j
  PROVE  PingerTyped' /\ OneOperation'
<1>1. PingerTyped'
  <2>1. done' \in Seq(Completions)
    BY AbortedIs
  <2> QED BY <2>1 DEF PingerTyped
<1>2. OneOperation'
  <2> SUFFICES ASSUME ~overlap PROVE \A i, j \in Unhandled(done') : i = j
    BY DEF OneOperation, Unhandled
  <2>1. CASE ~send /\ recvs = 0
    <3>1. done' = q
      BY <2>1, AbortedIs
    <3> QED BY <3>1
  <2>2. CASE send \/ recvs # 0
    <3>1. Unhandled(q) = {}
      BY <2>2 DEF PingerTyped
    <3>2. PICK e \in Completions : Aborted = <<e>>
      <4>1. (send /\ recvs = 0) \/ (~send /\ recvs = 1)
        BY <2>2 DEF OneOperation, PingerTyped
      <4>2. <<"send", FALSE>> \in Completions /\ <<"recv", FALSE>> \in Completions
        BY DEF Completions
      <4> QED BY <4>1, <4>2, AbortedIs
    <3>3. done' = Append(q, e)
      BY <3>2
    <3> QED BY <3>1, <3>3, AppendedCompletion
  <2> QED BY <2>1, <2>2 DEF PingerTyped
<1> QED BY <1>1, <1>2

\* A completion is handled and the next receive starts, or nothing does.
LEMMA HandledOperation ==
  ASSUME PingerTyped, OneOperation, done # <<>>, Head(done)[1] # "timer",
         UNCHANGED <<send, overlap>>,
         \/ recvs' = recvs /\ done' = Tail(done)
         \/ recvs' = recvs + 1 /\ done' = Tail(done)
         \/ recvs' = 0 /\ done' = Append(Tail(done), <<"recv", FALSE>>)
  PROVE  PingerTyped' /\ OneOperation'
<1>1. /\ Tail(done) \in Seq(Completions) /\ <<"recv", FALSE>> \in Completions
      /\ ~overlap => ~send /\ recvs = 0 /\ Unhandled(Tail(done)) = {}
  <2>1. /\ Tail(done) \in Seq(Completions) /\ 1 \in Unhandled(done)
        /\ \A i \in Unhandled(Tail(done)) : i + 1 \in Unhandled(done) /\ i \in Nat \ {0}
    BY HandledCompletion DEF PingerTyped
  <2>2. ~overlap => ~send /\ recvs = 0 /\ \A i \in Unhandled(done) : i = 1
    BY <2>1 DEF OneOperation
  <2>3. ~overlap => \A i \in Unhandled(Tail(done)) : FALSE
    BY <2>1, <2>2
  <2> QED BY <2>1, <2>2, <2>3 DEF Completions
<1>2. /\ Append(Tail(done), <<"recv", FALSE>>) \in Seq(Completions)
      /\ ~overlap => \A i, j \in Unhandled(Append(Tail(done), <<"recv", FALSE>>)) : i = j
  BY <1>1, AppendedCompletion
<1>3. CASE recvs' = recvs /\ done' = Tail(done)
  BY <1>1, <1>3 DEF PingerTyped, OneOperation
<1>4. CASE recvs' = recvs + 1 /\ done' = Tail(done)
  <2>1. recvs' \in Nat /\ (recvs = 0 => recvs' = 1)
    BY <1>4 DEF PingerTyped
  <2> QED BY <2>1, <1>1, <1>4 DEF PingerTyped, OneOperation
<1>5. CASE recvs' = 0 /\ done' = Append(Tail(done), <<"recv", FALSE>>)
  BY <1>1, <1>2, <1>5 DEF PingerTyped, OneOperation
<1> QED BY <1>3, <1>4, <1>5

LEMMA PingerBegins == DiscoveryInit => PingerTyped /\ OneOperation
<1> SUFFICES ASSUME DiscoveryInit PROVE PingerTyped /\ OneOperation
  OBVIOUS
<1>1. done = <<>> /\ recvs = 0 /\ send = FALSE /\ overlap = FALSE
  BY DEF DiscoveryInit
<1>2. done \in Seq(Completions) /\ Unhandled(done) = {}
  BY <1>1 DEF Unhandled
<1> QED BY <1>1, <1>2 DEF PingerTyped, OneOperation

LEMMA PingerStep ==
  ASSUME PingerTyped, OneOperation, [DiscoveryNext]_(discoveryVars) PROVE PingerTyped' /\ OneOperation'
<1>1. CASE AsyncPing
  <2>1. /\ send' \in BOOLEAN /\ recvs' = 0 /\ done' = done \o Aborted
        /\ overlap' = (overlap \/ done' # <<>>)
    BY <1>1 DEF AsyncPing
  <2>2. PingerTyped'
    <3>1. done' \in Seq(Completions)
      BY <2>1, AbortedIs DEF PingerTyped
    <3>2. overlap' \in BOOLEAN
      BY <2>1, Zenon
    <3> QED BY <2>1, <3>1, <3>2 DEF PingerTyped
  <2>3. ~overlap' => done' = <<>>
    BY <2>1, Zenon
  <2>4. done' = <<>> => Unhandled(done') = {}
    BY DEF Unhandled
  <2> QED BY <2>1, <2>2, <2>3, <2>4 DEF OneOperation
<1>2. CASE AsyncPingThrows \/ Stop
  BY <1>2, ClosedOperation DEF AsyncPingThrows, Stop, CloseSocket, PingerTyped, OneOperation
<1>3. CASE HandleTimeout
  <2>1. /\ done # <<>> /\ Head(done)[1] = "timer" /\ send' = FALSE /\ recvs' = 0
        /\ done' = Tail(done) \o Aborted /\ overlap' = overlap
    BY <1>3 DEF HandleTimeout, Completes, CloseSocket
  <2>2. /\ Tail(done) \in Seq(Completions)
        /\ \A i \in Unhandled(Tail(done)) : i + 1 \in Unhandled(done) /\ i \in Nat \ {0}
    BY <2>1, HandledCompletion DEF PingerTyped
  <2>3. ~overlap => /\ Unhandled(Tail(done)) # {} => ~send /\ recvs = 0
                    /\ \A i, j \in Unhandled(Tail(done)) : i = j
    <3> SUFFICES ASSUME ~overlap PROVE /\ Unhandled(Tail(done)) # {} => ~send /\ recvs = 0
                                       /\ \A i, j \in Unhandled(Tail(done)) : i = j
      OBVIOUS
    <3>1. Unhandled(Tail(done)) # {} => Unhandled(done) # {}
      BY <2>2
    <3>2. \A i, j \in Unhandled(Tail(done)) : i + 1 = j + 1 /\ i \in Nat /\ j \in Nat
      BY <2>2 DEF OneOperation
    <3> QED BY <3>1, <3>2 DEF OneOperation
  <2> QED BY <2>1, <2>2, <2>3, ClosedOperation
<1>4. CASE SendEnds \/ RecvEnds
  <2>1. PICK e \in Completions :
          /\ done' = Append(done, e) /\ overlap' = overlap
          /\ \/ (send /\ send' = FALSE /\ recvs' = recvs)
             \/ (send' = send /\ recvs > 0 /\ recvs' = recvs - 1)
    BY <1>4 DEF SendEnds, RecvEnds, Completions
  <2>2. recvs' \in Nat /\ send' \in BOOLEAN
    <3>1. recvs' \in Nat
      BY <2>1 DEF PingerTyped
    <3>2. send' \in BOOLEAN
      BY <2>1, Zenon DEF PingerTyped
    <3> QED BY <3>1, <3>2
  <2>3. ~overlap => Unhandled(done) = {} /\ recvs' = 0 /\ send' = FALSE
    BY <2>1 DEF OneOperation, PingerTyped
  <2>4. /\ done' \in Seq(Completions)
        /\ ~overlap => \A i, j \in Unhandled(done') : i = j
    BY <2>1, <2>3, AppendedCompletion DEF PingerTyped
  <2> QED BY <2>1, <2>2, <2>3, <2>4 DEF PingerTyped, OneOperation
<1>5. CASE TimerEnds
  <2>1. <<"timer", TRUE>> \in Completions
    BY DEF Completions
  <2>2. done' = Append(done, <<"timer", TRUE>>) /\ UNCHANGED <<send, recvs, overlap>>
    BY <1>5 DEF TimerEnds
  <2>3. done' \in Seq(Completions) /\ Unhandled(done') = Unhandled(done)
    BY <2>1, <2>2, AppendedCompletion DEF PingerTyped
  <2> QED BY <2>2, <2>3 DEF PingerTyped, OneOperation
<1>6. CASE HandleSend \/ HandleError \/ HandleRecv
  <2>1. /\ done # <<>> /\ Head(done)[1] # "timer" /\ UNCHANGED <<send, overlap>>
    <3>1. done # <<>> /\ UNCHANGED <<send, overlap>>
      BY <1>6 DEF HandleSend, HandleError, HandleRecv, Completes
    <3>2. \E b \in BOOLEAN : Head(done) \in {<<"send", b>>, <<"recv", b>>}
      BY <1>6, Zenon DEF HandleSend, HandleError, HandleRecv, Completes
    <3> QED BY <3>1, <3>2
  <2>2. \/ recvs' = recvs /\ done' = Tail(done)
        \/ recvs' = recvs + 1 /\ done' = Tail(done)
        \/ recvs' = 0 /\ done' = Append(Tail(done), <<"recv", FALSE>>)
    BY <1>6 DEF HandleSend, HandleError, HandleRecv, Receive
  <2> QED BY <2>1, <2>2, HandledOperation
<1>7. CASE AddListener \/ Agent \/ UNCHANGED discoveryVars
  <2>1. UNCHANGED <<send, recvs, done, overlap>>
    BY <1>7
    DEF AddListener, Agent, StartPoint, Request, HandleReceive, Respond,
        Environment, pinger, discoveryVars
  <2> QED BY <2>1 DEF PingerTyped, OneOperation
<1> QED BY <1>1, <1>2, <1>3, <1>4, <1>5, <1>6, <1>7 DEF DiscoveryNext, Handlers

\* The pinger reads into data_ and from_ by one receive at a time, as long as
\* no ping is started over completions of an earlier one that nobody handled:
\* for any addresses, points, listeners and answers.
THEOREM PingReadsOnce == DiscoverySpec => []OneReceive
<1>1. DiscoveryInit => PingerTyped /\ OneOperation
  BY PingerBegins
<1>2. PingerTyped /\ OneOperation => OneReceive
  BY DEF PingerTyped, OneOperation, OneReceive
<1> QED BY <1>1, <1>2, PingerStep, PTL DEF DiscoverySpec

-----------------------------------------------------------------------------
(* Discovery: the points' answers                                          *)

PointsTyped ==
  /\ added \in 0..Len(Listeners) /\ armed \subseteq started /\ started \subseteq Points
  /\ ready \in Seq(Points) /\ serving \in Points \cup {NoOne}
  /\ from \in [Points -> Pings \cup {0}] /\ lists \in [Points -> SUBSET Offers]
  /\ taken \in [Points -> Seq(Pings)]
  /\ sent \in [Points -> Seq((Pings \cup {NoOne}) \X SUBSET Offers)]

\* A point has a request while it is in the strand, once, and while it is served.
Waits(p) == \E i \in DOMAIN ready : ready[i] = p
Busy(p) == serving = p \/ Waits(p)
Single == /\ \A i, j \in DOMAIN ready : ready[i] = ready[j] => i = j
          /\ \A p \in Points : serving = p => ~Waits(p)

\* It listens again when it has answered; who asked is the last it has taken,
\* and the endpoints it has gathered are those that this asker reaches.
AskerKept(p) ==
  IF Busy(p)
  THEN /\ p \notin armed /\ p \in started
       /\ Len(taken[p]) = Len(sent[p]) + 1 /\ from[p] = taken[p][Len(taken[p])]
       /\ serving = p => lists[p] \subseteq Reachable(Addr[from[p]], Len(Listeners))
  ELSE Len(taken[p]) = Len(sent[p])
Answered(p) ==
  \A k \in DOMAIN sent[p] :
    sent[p][k][1] # NoOne
      => /\ k <= Len(taken[p]) /\ sent[p][k][1] = taken[p][k]
         /\ sent[p][k][2] \subseteq Reachable(Addr[sent[p][k][1]], Len(Listeners))
Answering == \A p \in Points : AskerKept(p) /\ Answered(p)

\* More listeners are reached by more.
LEMMA ReachableGrows ==
  ASSUME Len(Listeners) \in Nat, NEW n \in 0..Len(Listeners), NEW a
  PROVE  /\ Reachable(a, n) \subseteq Reachable(a, Len(Listeners))
         /\ Reachable(a, n) \subseteq Offers
<1>1. 1..n \subseteq 1..Len(Listeners)
  OBVIOUS
<1>2. Ifaces \X (1..n) \subseteq Ifaces \X (1..Len(Listeners))
  BY <1>1
<1> QED BY <1>2 DEF Reachable, Offers

\* A point that a step does not concern stays as it is.
LEMMA OtherPoint ==
  ASSUME NEW p \in Points, AskerKept(p), Answered(p), Busy(p)' <=> Busy(p), (serving = p)' <=> serving = p,
         p \in armed' => p \in armed, started \subseteq started',
         taken'[p] = taken[p], sent'[p] = sent[p], from'[p] = from[p], lists'[p] = lists[p]
  PROVE  AskerKept(p)' /\ Answered(p)'
<1>1. Answered(p)'
  BY DEF Answered
<1>2. AskerKept(p)'
  BY DEF AskerKept
<1> QED BY <1>1, <1>2

\* The strand takes a request, or gives one away.
LEMMA Queued ==
  ASSUME PointsTyped, Single, NEW p \in Points, ready' = Append(ready, p), ~Waits(p)
  PROVE  /\ ready' \in Seq(Points) /\ Waits(p)'
         /\ \A x \in Points \ {p} : Waits(x)' <=> Waits(x)
         /\ \A i, j \in DOMAIN ready' : ready'[i] = ready'[j] => i = j
<1>1. /\ Len(ready) \in Nat /\ DOMAIN ready = 1..Len(ready) /\ DOMAIN ready' = 1..(Len(ready) + 1)
      /\ \A i \in DOMAIN ready : ready'[i] = ready[i]
      /\ ready'[Len(ready) + 1] = p /\ ready' \in Seq(Points)
  BY DEF PointsTyped
<1>2. /\ DOMAIN ready' = DOMAIN ready \cup {Len(ready) + 1} /\ Len(ready) + 1 \notin DOMAIN ready
  BY <1>1
<1>4. \A i, j \in DOMAIN ready' : ready'[i] = ready'[j] => i = j
  BY <1>1, <1>2 DEF Waits, Single
<1>5. Waits(p)' /\ \A x \in Points \ {p} : Waits(x)' <=> Waits(x)
  BY <1>1, <1>2 DEF Waits
<1> QED BY <1>1, <1>4, <1>5

LEMMA Taken ==
  ASSUME PointsTyped, Single, ready # <<>>, ready' = Tail(ready), NEW p, Head(ready) = p
  PROVE  /\ ready' \in Seq(Points) /\ Waits(p) /\ ~Waits(p)'
         /\ \A x \in Points \ {p} : Waits(x)' <=> Waits(x)
         /\ \A i, j \in DOMAIN ready' : ready'[i] = ready'[j] => i = j
<1>1. /\ Len(ready) \in Nat \ {0} /\ DOMAIN ready = 1..Len(ready) /\ DOMAIN ready' = 1..(Len(ready) - 1)
      /\ \A i \in 1..(Len(ready) - 1) : ready'[i] = ready[i + 1]
      /\ ready[1] = p /\ ready' \in Seq(Points)
  BY DEF PointsTyped
<1>2. \A i \in DOMAIN ready' : i + 1 \in DOMAIN ready /\ ready'[i] = ready[i + 1] /\ i + 1 # 1 /\ i \in Nat
  BY <1>1
<1>3. 1 \in DOMAIN ready /\ \A i \in DOMAIN ready : i # 1 => i - 1 \in DOMAIN ready' /\ ready'[i - 1] = ready[i]
  BY <1>1
<1>4. Waits(p) /\ ~Waits(p)'
  <2>1. \A i \in DOMAIN ready' : ready[i + 1] # ready[1]
    BY <1>2, <1>3 DEF Single
  <2> QED BY <1>1, <1>2, <1>3, <2>1 DEF Waits
<1>5. \A x \in Points \ {p} : Waits(x)' <=> Waits(x)
  BY <1>1, <1>2, <1>3 DEF Waits
<1>6. \A i, j \in DOMAIN ready' : ready'[i] = ready'[j] => i = j
  <2> SUFFICES ASSUME NEW i \in DOMAIN ready', NEW j \in DOMAIN ready', ready'[i] = ready'[j] PROVE i = j
    OBVIOUS
  <2>1. i + 1 = j + 1 /\ i \in Nat /\ j \in Nat
    BY <1>2 DEF Single
  <2> QED BY <2>1
<1> QED BY <1>1, <1>4, <1>5, <1>6

PointsInv == PointsTyped /\ Single /\ Answering

LEMMA RequestStep ==
  ASSUME PointsInv, NEW p \in Points, Request(p) PROVE PointsInv'
<1> USE DEF PointsInv
<1>1. /\ p \in armed /\ armed' = armed \ {p} /\ UNCHANGED <<serving, lists, sent, started, added>>
  BY DEF Request, Environment
<1>2. CASE UNCHANGED <<from, taken, ready>>
  <2>1. PointsTyped' /\ Single'
    BY <1>1, <1>2 DEF PointsTyped, Single, Waits
  <2>2. ASSUME NEW x \in Points PROVE AskerKept(x)' /\ Answered(x)'
    <3>1. Busy(x)' <=> Busy(x)
      BY <1>1, <1>2 DEF Busy, Waits
    <3> QED BY <1>1, <1>2, <3>1, OtherPoint DEF Answering
  <2> QED BY <2>1, <2>2 DEF Answering
<1>3. ASSUME NEW n \in Pings, from' = [from EXCEPT ![p] = n], ready' = Append(ready, p),
             taken' = [taken EXCEPT ![p] = Append(taken[p], n)]
      PROVE  PointsInv'
  <2>1. /\ ~Busy(p) /\ Len(taken[p]) = Len(sent[p]) /\ p \in started
    BY <1>1 DEF Answering, AskerKept, PointsTyped
  <2>2. /\ ready' \in Seq(Points) /\ Waits(p)'
        /\ \A x \in Points \ {p} : Waits(x)' <=> Waits(x)
        /\ \A i, j \in DOMAIN ready' : ready'[i] = ready'[j] => i = j
    BY <1>3, <2>1, Queued DEF Busy
  <2>3. /\ taken[p] \in Seq(Pings) /\ taken'[p] = Append(taken[p], n) /\ from'[p] = n
        /\ \A x \in Points \ {p} : taken'[x] = taken[x] /\ from'[x] = from[x]
    BY <1>3 DEF PointsTyped
  <2>4. /\ Append(taken[p], n) \in Seq(Pings) /\ Len(taken[p]) \in Nat
        /\ Len(taken'[p]) = Len(taken[p]) + 1 /\ taken'[p][Len(taken[p]) + 1] = n
        /\ \A k \in 1..Len(taken[p]) : taken'[p][k] = taken[p][k]
    BY <2>3
  <2>5. PointsTyped'
    <3>1. from' \in [Points -> Pings \cup {0}] /\ taken' \in [Points -> Seq(Pings)]
      BY <1>3, <2>4 DEF PointsTyped
    <3> QED BY <1>1, <2>2, <3>1 DEF PointsTyped
  <2>6. Single'
    <3>1. serving' # p
      BY <1>1, <2>1 DEF Busy
    <3>2. \A x \in Points : serving' = x => ~Waits(x)'
      BY <1>1, <2>2, <3>1 DEF Single
    <3> QED BY <2>2, <3>2 DEF Single
  <2>7. AskerKept(p)' /\ Answered(p)'
    <3>1. Busy(p)' /\ p \notin armed' /\ p \in started' /\ serving' # p /\ sent' = sent
      BY <1>1, <2>1, <2>2 DEF Busy
    <3>2. AskerKept(p)'
      BY <2>1, <2>3, <2>4, <3>1 DEF AskerKept
    <3>3. DOMAIN sent[p] = 1..Len(sent[p]) /\ Len(sent[p]) \in Nat
      BY DEF PointsTyped
    <3>4. Answered(p)'
      <4> SUFFICES ASSUME NEW k \in DOMAIN sent[p], sent[p][k][1] # NoOne
                   PROVE  /\ k <= Len(taken'[p]) /\ sent[p][k][1] = taken'[p][k]
                          /\ sent[p][k][2] \subseteq Reachable(Addr[sent[p][k][1]], Len(Listeners))
        BY <3>1 DEF Answered
      <4>1. /\ k \in 1..Len(taken[p]) /\ sent[p][k][1] = taken[p][k]
            /\ sent[p][k][2] \subseteq Reachable(Addr[sent[p][k][1]], Len(Listeners))
        BY <2>1, <3>3 DEF Answering, Answered
      <4>2. k <= Len(taken'[p])
        BY <4>1, <2>4
      <4> QED BY <4>1, <4>2, <2>4
    <3> QED BY <3>2, <3>4
  <2>8. ASSUME NEW x \in Points \ {p} PROVE AskerKept(x)' /\ Answered(x)'
    <3>1. Busy(x)' <=> Busy(x)
      BY <1>1, <2>2 DEF Busy
    <3> QED BY <1>1, <2>3, <3>1, OtherPoint DEF Answering
  <2> QED BY <2>5, <2>6, <2>7, <2>8 DEF Answering
<1> QED BY <1>2, <1>3 DEF Request

LEMMA HandleReceiveStep ==
  ASSUME PointsInv, NEW p \in Points, HandleReceive(p) PROVE PointsInv'
<1> USE DEF PointsInv
<1>1. /\ ready # <<>> /\ Head(ready) = p /\ ready' = Tail(ready) /\ serving = NoOne /\ serving' = p
      /\ lists' = [lists EXCEPT ![p] = Reachable(Addr[from[p]], added)]
      /\ UNCHANGED <<armed, from, taken, sent, started, added>>
  BY DEF HandleReceive, Environment
<1>2. /\ Reachable(Addr[from[p]], added) \subseteq Offers
      /\ Reachable(Addr[from[p]], added) \subseteq Reachable(Addr[from[p]], Len(Listeners))
  BY ReachableGrows, DiscoveryAssumption DEF PointsTyped
<1>3. /\ ready' \in Seq(Points) /\ Waits(p) /\ ~Waits(p)'
      /\ \A x \in Points \ {p} : Waits(x)' <=> Waits(x)
      /\ \A i, j \in DOMAIN ready' : ready'[i] = ready'[j] => i = j
  BY <1>1, Taken
<1>4. /\ lists' \in [Points -> SUBSET Offers] /\ lists'[p] = Reachable(Addr[from[p]], added)
      /\ \A x \in Points \ {p} : lists'[x] = lists[x]
  BY <1>1, <1>2 DEF PointsTyped
<1>5. PointsTyped'
  BY <1>1, <1>3, <1>4 DEF PointsTyped
<1>6. Single'
  BY <1>1, <1>3 DEF Single
<1>7. AskerKept(p)' /\ Answered(p)'
  <2>1. Busy(p) /\ Busy(p)'
    BY <1>1, <1>3 DEF Busy
  <2>2. AskerKept(p)'
    BY <1>1, <1>2, <1>4, <2>1 DEF Answering, AskerKept
  <2> QED BY <1>1, <2>2 DEF Answering, Answered
<1>8. ASSUME NEW x \in Points \ {p} PROVE AskerKept(x)' /\ Answered(x)'
  <2>1. serving # x /\ serving' # x
    BY <1>1, DiscoveryAssumption
  <2>2. Busy(x)' <=> Busy(x)
    BY <1>3, <2>1 DEF Busy
  <2> QED BY <1>1, <1>4, <2>1, <2>2, OtherPoint DEF Answering
<1> QED BY <1>5, <1>6, <1>7, <1>8 DEF Answering

LEMMA RespondStep ==
  ASSUME PointsInv, NEW p \in Points, Respond(p) PROVE PointsInv'
<1> USE DEF PointsInv
<1> DEFINE Replies == (Pings \cup {NoOne}) \X SUBSET Offers
<1>1. /\ serving = p /\ serving' = NoOne /\ armed' = armed \cup {p} /\ from' = [from EXCEPT ![p] = 0]
      /\ UNCHANGED <<ready, lists, taken, started, added>>
  BY DEF Respond, Environment
<1>2. /\ Busy(p) /\ ~Waits(p) /\ p \in started
      /\ Len(taken[p]) = Len(sent[p]) + 1 /\ from[p] = taken[p][Len(taken[p])]
      /\ lists[p] \subseteq Reachable(Addr[from[p]], Len(Listeners))
  BY <1>1 DEF Busy, Single, Answering, AskerKept
<1>3. /\ taken[p] \in Seq(Pings) /\ sent[p] \in Seq(Replies) /\ lists[p] \in SUBSET Offers
      /\ Len(sent[p]) \in Nat
  BY DEF PointsTyped
<1>4. from[p] \in Pings
  BY <1>2, <1>3
<1>5. PICK a \in Replies : /\ sent' = [sent EXCEPT ![p] = Append(sent[p], a)]
                           /\ a = <<from[p], lists[p]>> \/ a = <<NoOne, {}>>
  BY <1>3, <1>4 DEF Respond
<1>6. /\ sent'[p] = Append(sent[p], a) /\ \A x \in Points \ {p} : sent'[x] = sent[x] /\ from'[x] = from[x]
      /\ sent' \in [Points -> Seq(Replies)] /\ from' \in [Points -> Pings \cup {0}]
  BY <1>1, <1>3, <1>5 DEF PointsTyped
<1>7. /\ Len(sent'[p]) = Len(sent[p]) + 1 /\ DOMAIN sent'[p] = 1..(Len(sent[p]) + 1)
      /\ DOMAIN sent[p] = 1..Len(sent[p])
      /\ sent'[p][Len(sent[p]) + 1] = a /\ \A k \in 1..Len(sent[p]) : sent'[p][k] = sent[p][k]
  BY <1>3, <1>6
<1>8. PointsTyped'
  BY <1>1, <1>2, <1>6 DEF PointsTyped
<1>9. NoOne \notin Points
  BY DiscoveryAssumption
<1>10. Single'
  BY <1>1, <1>9 DEF Single, Waits
<1>11. AskerKept(p)'
  <2>1. ~Busy(p)'
    BY <1>1, <1>2, <1>9 DEF Busy, Waits
  <2> QED BY <1>1, <1>2, <1>7, <2>1 DEF AskerKept
<1>12. Answered(p)'
  <2> SUFFICES ASSUME NEW k \in DOMAIN sent'[p], sent'[p][k][1] # NoOne
               PROVE  /\ k <= Len(taken[p]) /\ sent'[p][k][1] = taken[p][k]
                      /\ sent'[p][k][2] \subseteq Reachable(Addr[sent'[p][k][1]], Len(Listeners))
    BY <1>1 DEF Answered
  <2>1. CASE k \in 1..Len(sent[p])
    <3>1. k \in DOMAIN sent[p] /\ sent'[p][k] = sent[p][k]
      BY <2>1, <1>7
    <3>2. Answered(p)
      BY DEF Answering
    <3> QED BY <3>1, <3>2 DEF Answered
  <2>2. CASE k = Len(sent[p]) + 1
    <3>1. sent'[p][k] = <<from[p], lists[p]>>
      BY <2>2, <1>5, <1>7
    <3>2. k = Len(taken[p])
      BY <2>2, <1>2
    <3>3. k <= Len(taken[p])
      BY <3>2, <2>2, <1>3
    <3> QED BY <3>1, <3>2, <3>3, <1>2
  <2> QED BY <2>1, <2>2, <1>3, <1>7
<1>13. ASSUME NEW x \in Points \ {p} PROVE AskerKept(x)' /\ Answered(x)'
  <2>1. serving # x /\ serving' # x /\ (x \in armed' => x \in armed)
    BY <1>1, <1>9
  <2>2. Busy(x)' <=> Busy(x)
    BY <1>1, <2>1 DEF Busy, Waits
  <2> QED BY <1>1, <1>6, <2>1, <2>2, OtherPoint DEF Answering
<1> QED BY <1>8, <1>10, <1>11, <1>12, <1>13 DEF Answering

LEMMA PointsBegin == DiscoveryInit => PointsInv
<1> SUFFICES ASSUME DiscoveryInit PROVE PointsInv
  OBVIOUS
<1>1. /\ added = 0 /\ started = {} /\ armed = {} /\ ready = <<>> /\ serving = NoOne
      /\ from = [p \in Points |-> 0] /\ lists = [p \in Points |-> {}]
      /\ taken = [p \in Points |-> <<>>] /\ sent = [p \in Points |-> <<>>]
  BY DEF DiscoveryInit
<1>2. PointsTyped
  BY <1>1, DiscoveryAssumption DEF PointsTyped
<1>3. \A p \in Points : ~Busy(p)
  BY <1>1, DiscoveryAssumption DEF Busy, Waits
<1>4. Single /\ Answering
  BY <1>1, <1>3 DEF Single, Busy, Answering, AskerKept, Answered
<1> QED BY <1>2, <1>4 DEF PointsInv

LEMMA PointsStep ==
  ASSUME PointsInv, [DiscoveryNext]_(discoveryVars) PROVE PointsInv'
<1> USE DEF PointsInv
<1>1. ASSUME UNCHANGED <<armed, started, ready, serving, from, lists, taken, sent>>, added' \in 0..Len(Listeners)
      PROVE  PointsInv'
  <2>1. PointsTyped' /\ Single'
    BY <1>1 DEF PointsTyped, Single, Waits
  <2>2. ASSUME NEW x \in Points PROVE AskerKept(x)' /\ Answered(x)'
    <3>1. Busy(x)' <=> Busy(x)
      BY <1>1 DEF Busy, Waits
    <3> QED BY <1>1, <3>1, OtherPoint DEF Answering
  <2> QED BY <2>1, <2>2 DEF Answering
<1>2. CASE UNCHANGED agent
  BY <1>1, <1>2 DEF agent, PointsTyped
<1>3. CASE AddListener
  <2>1. added' \in 0..Len(Listeners)
    BY <1>3, DiscoveryAssumption DEF AddListener, PointsTyped
  <2> QED BY <1>1, <1>3, <2>1 DEF AddListener
<1>4. ASSUME NEW p \in Points, StartPoint(p) PROVE PointsInv'
  <2>1. /\ p \notin started /\ started' = started \cup {p} /\ armed' = armed \cup {p}
        /\ UNCHANGED <<ready, serving, from, lists, taken, sent, added>>
    BY <1>4 DEF StartPoint
  <2>2. PointsTyped' /\ Single'
    BY <2>1 DEF PointsTyped, Single, Waits
  <2>3. \A x \in Points : Busy(x)' <=> Busy(x)
    BY <2>1 DEF Busy, Waits
  <2>4. AskerKept(p)' /\ Answered(p)'
    <3>1. ~Busy(p)
      BY <2>1 DEF Answering, AskerKept
    <3> QED BY <2>1, <2>3, <3>1 DEF Answering, AskerKept, Answered
  <2>5. ASSUME NEW x \in Points \ {p} PROVE AskerKept(x)' /\ Answered(x)'
    BY <2>1, <2>3, OtherPoint DEF Answering
  <2> QED BY <2>2, <2>4, <2>5 DEF Answering
<1>5. CASE Agent
  BY <1>4, <1>5, RequestStep, HandleReceiveStep, RespondStep DEF Agent
<1>6. CASE \/ AsyncPing \/ AsyncPingThrows \/ Stop \/ SendEnds \/ RecvEnds \/ TimerEnds
           \/ Handlers
  <2>1. UNCHANGED agent
    BY <1>6
    DEF AsyncPing, AsyncPingThrows, Stop, SendEnds, RecvEnds, TimerEnds,
        Handlers, HandleSend, HandleError, HandleRecv, HandleTimeout
  <2> QED BY <1>2, <2>1
<1>7. CASE UNCHANGED discoveryVars
  BY <1>2, <1>7 DEF discoveryVars
<1> QED BY <1>3, <1>5, <1>6, <1>7 DEF DiscoveryNext

\* The k-th answer of a point goes to who sent its k-th request, and lists only
\* endpoints that this asker reaches: for any points, interfaces, listeners,
\* and requests that come, are lost or fail while the listeners are added.
THEOREM AskersAnswered == DiscoverySpec => []AnswersAreAsked
<1>1. DiscoveryInit => PointsInv
  BY PointsBegin
<1>2. PointsInv /\ [DiscoveryNext]_(discoveryVars) => PointsInv'
  BY PointsStep
<1>3. PointsInv => AnswersAreAsked
  BY DEF PointsInv, Answering, Answered, AnswersAreAsked
<1> QED BY <1>1, <1>2, <1>3, PTL DEF DiscoverySpec

-----------------------------------------------------------------------------
(* Discovery: the types of the pinger and of the network                   *)

\* Nothing is pending or was told before the first ping.
Begun ==
  ping = 0 => sock = 0 /\ send = FALSE /\ recvs = 0 /\ timer = FALSE /\ done = <<>>

NetTyped ==
  /\ ping \in 0..MaxPings /\ sock \in 0..ping /\ ended \subseteq 1..ping
  /\ timer \in BOOLEAN /\ grown \in BOOLEAN
  /\ asks \subseteq (1..ping) \X Points /\ answers \subseteq Pings \X Points \X SUBSET Offers

\* Who a point answers has asked it.
LEMMA AskerIsKnown ==
  ASSUME PointsInv, NEW p \in Points, serving = p
  PROVE  from[p] \in Pings /\ lists[p] \in SUBSET Offers
<1>1. /\ Len(taken[p]) = Len(sent[p]) + 1 /\ from[p] = taken[p][Len(taken[p])]
  BY DEF PointsInv, Answering, AskerKept, Busy
<1>2. taken[p] \in Seq(Pings) /\ Len(sent[p]) \in Nat /\ lists[p] \in SUBSET Offers
  BY DEF PointsInv, PointsTyped
<1> QED BY <1>1, <1>2

LEMMA NetStep ==
  ASSUME PingerTyped, PointsInv, Begun, NetTyped, [DiscoveryNext]_(discoveryVars)
  PROVE  Begun' /\ NetTyped'
<1>0. MaxPings \in Nat
  BY DiscoveryAssumption DEF MaxPings
<1>1. CASE AsyncPing
  <2>1. /\ ping < MaxPings /\ ping' = ping + 1 /\ sock' = ping'
        /\ ended' \subseteq ended \cup {ping'} /\ UNCHANGED <<timer, grown, answers>>
    BY <1>1 DEF AsyncPing, agent
  <2>2. asks' \subseteq asks \cup ({ping'} \X Points)
    BY <1>1, Zenon DEF AsyncPing
  <2>3. ping' \in 1..MaxPings /\ 1..ping \subseteq 1..ping'
    BY <1>0, <2>1 DEF NetTyped
  <2>4. asks' \subseteq (1..ping') \X Points
    BY <2>2, <2>3 DEF NetTyped
  <2> QED BY <2>1, <2>3, <2>4 DEF Begun, NetTyped
<1>2. CASE AsyncPingThrows \/ Stop
  <2>1. sock # 0 /\ sock' = 0 /\ UNCHANGED <<ping, timer, ended, asks, answers, grown>>
    BY <1>2 DEF AsyncPingThrows, Stop, CloseSocket, network, agent
  <2>2. ping # 0
    BY <2>1 DEF Begun
  <2> QED BY <2>1, <2>2 DEF Begun, NetTyped
<1>3. CASE SendEnds \/ RecvEnds \/ TimerEnds
  <2>1. ping # 0
    <3>1. send \/ recvs > 0 \/ timer
      BY <1>3 DEF SendEnds, RecvEnds, TimerEnds
    <3> QED BY <3>1 DEF Begun
  <2>2. UNCHANGED <<ping, sock, ended, asks, grown>> /\ answers' \subseteq answers /\ timer' \in BOOLEAN
    BY <1>3 DEF SendEnds, RecvEnds, TimerEnds, network, agent, NetTyped
  <2> QED BY <2>1, <2>2 DEF Begun, NetTyped
<1>4. CASE Handlers
  <2>1. ping # 0
    BY <1>4 DEF Handlers, HandleSend, HandleError, HandleRecv, HandleTimeout, Completes, Begun
  <2>2. UNCHANGED <<ping, asks, answers, grown>> /\ sock' \in {sock, 0} /\ timer' \in {timer, TRUE}
        /\ ended' \subseteq ended \cup {ping}
    BY <1>4
    DEF Handlers, HandleSend, HandleError, HandleRecv, HandleTimeout, Receive, CloseSocket,
        network, agent
  <2>3. ping \in 1..ping /\ ping' \in 0..MaxPings /\ sock' \in 0..ping'
    BY <1>0, <2>1, <2>2 DEF NetTyped
  <2>4. ended' \subseteq 1..ping'
    BY <2>2, <2>3 DEF NetTyped
  <2>5. timer' \in BOOLEAN /\ grown' \in BOOLEAN
    BY <2>2, Zenon DEF NetTyped
  <2> QED BY <2>1, <2>2, <2>3, <2>4, <2>5 DEF Begun, NetTyped
<1>5. CASE AddListener
  BY <1>5 DEF AddListener, pinger, network, Begun, NetTyped
<1>6. ASSUME NEW p \in Points, StartPoint(p) \/ Request(p) \/ HandleReceive(p) \/ Respond(p)
      PROVE  Begun' /\ NetTyped'
  <2>1. UNCHANGED <<ping, sock, send, recvs, timer, done, ended, grown>> /\ asks' \subseteq asks
    BY <1>6 DEF StartPoint, Request, HandleReceive, Respond, Environment, pinger, network
  <2>2. \/ answers' = answers
        \/ serving = p /\ answers' = answers \cup {<<from[p], p, lists[p]>>}
    BY <1>6 DEF StartPoint, Request, HandleReceive, Respond, network
  <2>3. answers' \subseteq Pings \X Points \X SUBSET Offers
    BY <2>2, AskerIsKnown DEF NetTyped
  <2> QED BY <2>1, <2>3 DEF Begun, NetTyped
<1>7. CASE UNCHANGED discoveryVars
  BY <1>7 DEF discoveryVars, pinger, network, agent, Begun, NetTyped
<1> QED BY <1>1, <1>2, <1>3, <1>4, <1>5, <1>6, <1>7 DEF DiscoveryNext, Agent

\* For any addresses, points and listeners the variables of the pinger, the
\* network and the points keep their types: a request on its way is of a ping
\* that was started, an answer of a request that was taken.
THEOREM DiscoveryTypeCorrect == DiscoverySpec => []DiscoveryTypeOK
<1>1. DiscoveryInit => PingerTyped /\ OneOperation
  BY PingerBegins
<1>2. DiscoveryInit => PointsInv
  BY PointsBegin
<1>3. DiscoveryInit => Begun /\ NetTyped
  <2>1. MaxPings \in Nat
    BY DiscoveryAssumption DEF MaxPings
  <2>2. DiscoveryInit => Begun
    BY DEF DiscoveryInit, Begun
  <2>3. DiscoveryInit => /\ ping = 0 /\ sock = 0 /\ ended = {} /\ timer = FALSE /\ grown = FALSE
                         /\ asks = {} /\ answers = {}
    BY DEF DiscoveryInit
  <2>4. DiscoveryInit => ping \in 0..MaxPings /\ sock \in 0..ping
    BY <2>1, <2>3
  <2> QED BY <2>2, <2>3, <2>4 DEF NetTyped
<1>4. PingerTyped /\ PointsInv /\ NetTyped => DiscoveryTypeOK
  BY DEF PingerTyped, PointsInv, PointsTyped, NetTyped, DiscoveryTypeOK
<1> QED BY <1>1, <1>2, <1>3, <1>4, PingerStep, PointsStep, NetStep, PTL DEF DiscoverySpec

-----------------------------------------------------------------------------
(***************************************************************************)
(* Devices.  The inductive invariant is DevicesInv: the types              *)
(* (DevicesTypeOK and Typed), how far each call has come (Phases), that an *)
(* open is alone with its handle (OpensAlone), that the address a running  *)
(* call works with is still the one it found (Aimed), and the properties.  *)
(***************************************************************************)

Addresses == Slaves \cup {NoSlave}
Setups == [mode : Modes, speed : Speeds]
Transaction == [n : Nat, v : Nat, at : Addresses]
CallType ==
    [op : I2COps \cup SpiOps \cup Opens \cup {"setup", "close", "none"},
     h : Handles \cup {"none"}, arg : Addresses \cup Setups, len : 0..MaxLen,
     done : Seq(Transaction), aim : Addresses, moved : BOOLEAN, gone : BOOLEAN,
     res : {"none", "ok", "error"}, reply : Seq(Int)]

\* What a call is made of, and what a setup of either service carries.
Typed ==
    /\ call \in [Calls -> CallType]
    /\ \A c \in Calls : LET k == call[c] IN pc[c] # "idle" =>
        /\ k.h \in Handles
        /\ k.h \in I2C => k.arg \in Addresses
        /\ k.h \in SPI /\ k.op \in Opens \cup {"setup"} => k.arg \in Setups

\* Nothing is made before the call runs, only opens have an address and an entry to
\* make, and a call that runs has an answer for each item it made, in their order.
Phases ==
    \A c \in Calls : LET k == call[c] IN
        /\ pc[c] = "idle" => k = Idle
        /\ pc[c] \in {"sent", "address", "insert"} => k.done = <<>> /\ k.reply = <<>>
        /\ pc[c] \in {"address", "insert"} => k.op \in Opens
        /\ pc[c] = "run" => k.op \notin Opens \cup {"close"} /\ Len(k.reply) = Len(k.done)
        /\ \A i \in DOMAIN k.done : k.done[i].n = i

\* While a handle is opened no other call has it, no close is on its way for it, and
\* it is mapped only when the open has ended well.
OpensAlone ==
    /\ \A c \in Calls : LET k == call[c] IN
        (pc[c] # "idle" /\ k.op \in Opens) =>
            /\ proxy[k.h] = IF k.gone THEN "lost" ELSE "opening"
            /\ \A d \in Calls : pc[d] # "idle" /\ call[d].h = k.h => d = c
            /\ k.h \in mapped => pc[c] = "told" /\ k.res = "ok"
    /\ \A h \in Handles : proxy[h] = "none" =>
            h \notin mapped /\ \A c \in Calls : pc[c] # "idle" => call[c].h # h
    /\ \A h \in closing : proxy[h] = "closed"

\* The descriptor of a running call keeps the address that the call found, unless a
\* setup of the same handle came between.
Aimed ==
    \A c \in Calls : LET k == call[c] IN
        (pc[c] = "run" /\ k.op # "setup" /\ k.h \in I2C /\ ~k.moved) => slave[k.h] = k.aim

\* The first half of DescriptorsHeld, for one handle at a time.
Held(h) ==
    \/ h \in mapped
    \/ \E c \in Calls : call[c].h = h /\ \/ pc[c] = "run" /\ h \in I2C
                                         \/ pc[c] \in {"address", "insert"}
FdsHeld == \A h \in Handles : h \in fds <=> Held(h)
Closing == \A h \in mapped : proxy[h] = "closed" => h \in closing

DevicesInv ==
    /\ DevicesTypeOK /\ Typed /\ Phases /\ OpensAlone /\ Aimed
    /\ OneSlave /\ FdsHeld /\ Closing /\ ToldAsMade

-----------------------------------------------------------------------------
(* What the operators of the module do to the calls                        *)

LEMMA OpsApart ==
  (I2COps \cup SpiOps) \cap (Opens \cup {"setup", "close", "none"}) = {}
BY DevicesAssumption DEF Opens

Steps == {"idle", "sent", "address", "insert", "run", "told"}

\* A step of one call: it stays on the handle and the operation it was made for.
StepOf(c) ==
    /\ pc' \in [Calls -> Steps] /\ call' \in [Calls -> CallType]
    /\ \A x \in Calls \ {c} : pc'[x] = pc[x] /\ call'[x] = call[x]
    /\ call'[c].op = call[c].op /\ call'[c].h = call[c].h /\ call'[c].arg = call[c].arg
    /\ call'[c].len = call[c].len

\* The transactions that were made stay as they are.
SameItems(c) ==
    call'[c].done = call[c].done /\ call'[c].aim = call[c].aim /\ call'[c].moved = call[c].moved

LEMMA EmptyReply ==
  /\ <<>> \in Seq(Int) /\ <<>> \in Seq(Transaction) /\ Len(<<>>) = 0
  /\ DOMAIN <<>> = {} /\ 0 \in 0..MaxLen
BY DevicesAssumption

\* The answer: the reply is given up with an error.
LEMMA TellEffect ==
  ASSUME DevicesTypeOK, Typed, NEW c \in Calls, NEW res \in {"ok", "error"}, Tell(c, res)
  PROVE  /\ StepOf(c) /\ SameItems(c) /\ pc'[c] = "told"
         /\ call'[c].gone = call[c].gone /\ call'[c].res = res
         /\ call'[c].reply = IF res = "ok" THEN call[c].reply ELSE <<>>
<1>1. call[c] \in CallType /\ DOMAIN call = Calls
  BY DEF Typed
<1>2. call' = [call EXCEPT ![c] = [call[c] EXCEPT !.res = res,
                                   !.reply = IF res = "ok" THEN call[c].reply ELSE <<>>]]
  BY <1>1 DEF Tell, CallType
<1>3. [call[c] EXCEPT !.res = res, !.reply = IF res = "ok" THEN call[c].reply ELSE <<>>] \in CallType
  BY <1>1, EmptyReply DEF CallType
<1>4. pc' \in [Calls -> Steps] /\ pc'[c] = "told" /\ \A x \in Calls \ {c} : pc'[x] = pc[x]
  BY DEF Tell, DevicesTypeOK, Steps
<1> DEFINE k == [call[c] EXCEPT !.res = res, !.reply = IF res = "ok" THEN call[c].reply ELSE <<>>]
<1>5. /\ k.op = call[c].op /\ k.h = call[c].h /\ k.arg = call[c].arg /\ k.len = call[c].len
      /\ k.done = call[c].done /\ k.aim = call[c].aim /\ k.moved = call[c].moved
      /\ k.gone = call[c].gone /\ k.res = res
      /\ k.reply = IF res = "ok" THEN call[c].reply ELSE <<>>
  BY <1>1 DEF CallType
<1> HIDE DEF k
<1>6. call' = [call EXCEPT ![c] = k] /\ k \in CallType /\ call \in [Calls -> CallType]
  BY <1>2, <1>3 DEF k, Typed
<1> QED
  BY <1>4, <1>5, <1>6 DEF StepOf, SameItems

\* What an answer preserves, when it says what was made.
LEMMA ToldKeeps ==
  ASSUME DevicesInv, NEW c \in Calls, NEW res \in {"ok", "error"},
         pc[c] \in {"sent", "address", "insert", "run"}, Tell(c, res),
         UNCHANGED <<proxy, closing, slave>>,
         \/ mapped' \subseteq mapped
         \/ call[c].op \in Opens /\ res = "ok" /\ mapped' = mapped \cup {call[c].h},
         call[c].op \notin Opens \cup {"close", "setup"} =>
           /\ res = "ok" => Len(call[c].done) = call[c].len /\ Len(call[c].reply) = call[c].len
           /\ res = "error" /\ call[c].len > 0 => Len(call[c].done) < call[c].len
  PROVE  Typed' /\ Phases' /\ OpensAlone' /\ Aimed' /\ OneSlave' /\ ToldAsMade'
<1>1. /\ StepOf(c) /\ SameItems(c) /\ pc'[c] = "told"
      /\ call'[c].gone = call[c].gone /\ call'[c].res = res
      /\ call'[c].reply = IF res = "ok" THEN call[c].reply ELSE <<>>
  BY TellEffect DEF DevicesInv
<1>2. Typed'
  BY <1>1 DEF DevicesInv, Typed, StepOf
<1>3. Phases'
  BY <1>1, EmptyReply DEF DevicesInv, Phases, StepOf, SameItems
<1>4. OpensAlone'
  BY <1>1 DEF DevicesInv, Typed, OpensAlone, StepOf
<1>5. Aimed' /\ OneSlave'
  BY <1>1 DEF DevicesInv, Aimed, OneSlave, StepOf, SameItems
<1>6. ToldAsMade'
  <2>1. \A i \in DOMAIN call'[c].done : call'[c].done[i].n = i
    BY <1>1 DEF DevicesInv, Phases, SameItems
  <2> QED
    BY <1>1, <2>1 DEF DevicesInv, ToldAsMade, StepOf, SameItems
<1> QED
  BY <1>2, <1>3, <1>4, <1>5, <1>6

-----------------------------------------------------------------------------
(* The steps of the client *)

LEMMA CallsBegin == DevicesInit => DevicesInv
<1> SUFFICES ASSUME DevicesInit PROVE DevicesInv
  OBVIOUS
<1> USE DevicesAssumption DEF DevicesInit
<1>1. DevicesTypeOK
  <2>1. \A c \in Calls : call[c].len = 0 /\ call[c].done = <<>>
    BY DEF Idle
  <2>2. \A c \in Calls : call[c].len \in 0..MaxLen /\ Len(call[c].done) <= call[c].len
    <3>1. 0 \in 0..MaxLen /\ Len(<<>>) <= 0
      BY EmptyReply
    <3> QED
      BY <2>1, <3>1
  <2>3. config \in [SPI -> [mode : Nat, speed : Nat]]
    OBVIOUS
  <2> QED
    BY <2>2, <2>3 DEF DevicesTypeOK
<1>2. Typed
  BY EmptyReply DEF Typed, CallType, Idle, Addresses
<1>3. Phases /\ OpensAlone /\ Aimed /\ OneSlave /\ ToldAsMade
  BY DEF Phases, OpensAlone, Aimed, OneSlave, ToldAsMade, Idle
<1>4. FdsHeld /\ Closing
  BY DEF FdsHeld, Held, Closing
<1> QED
  BY <1>1, <1>2, <1>3, <1>4 DEF DevicesInv

LEMMA OpenPreserves ==
  ASSUME DevicesInv, NEW c \in Calls, NEW h \in Handles, NEW op \in Opens, NEW arg,
         h \in I2C => arg \in Addresses, h \in SPI => arg \in Setups,
         Open(c, h, op, arg)
  PROVE  DevicesInv'
<1> USE DevicesAssumption, OpsApart DEF agentside
<1>0. /\ call'[c] = [Idle EXCEPT !.op = op, !.h = h, !.arg = arg, !.len = 0]
      /\ call'[c] \in CallType /\ call' \in [Calls -> CallType]
      /\ \A x \in Calls \ {c} : pc'[x] = pc[x] /\ call'[x] = call[x]
      /\ call'[c].done = <<>> /\ call'[c].reply = <<>> /\ call'[c].len = 0
      /\ call'[c].op = op /\ call'[c].h = h /\ call'[c].arg = arg /\ ~call'[c].gone
      /\ call'[c].aim = NoSlave /\ pc[c] = "idle" /\ pc'[c] = "sent" /\ pc' \in [Calls -> Steps]
  <2>1. [Idle EXCEPT !.op = op, !.h = h, !.arg = arg, !.len = 0] \in CallType
    BY EmptyReply DEF CallType, Idle, Addresses, Handles
  <2>2. call' = [call EXCEPT ![c] = [Idle EXCEPT !.op = op, !.h = h, !.arg = arg, !.len = 0]]
    BY DEF Open, Begin
  <2> QED
    BY <2>1, <2>2 DEF Open, Begin, Idle, DevicesInv, Typed, DevicesTypeOK, Steps
<1>1. DevicesTypeOK'
  BY <1>0 DEF Open, Begin, DevicesInv, DevicesTypeOK
<1>2. Typed'
  BY <1>0 DEF Open, Begin, DevicesInv, Typed
<1>3. Phases'
  BY <1>0 DEF Open, Begin, DevicesInv, Phases
<1>4. OpensAlone'
  BY <1>0 DEF Open, Begin, Steps, DevicesInv, DevicesTypeOK, Typed, Phases, OpensAlone, CallType, Handles, Opens, Idle
<1>5. Aimed'
  BY <1>0 DEF Open, Begin, DevicesInv, Aimed
<1>6. OneSlave'
  BY <1>0 DEF Open, Begin, DevicesInv, OneSlave
<1>7. FdsHeld'
  <2>1. UNCHANGED <<fds, mapped>> /\ ~(pc[c] \in {"run", "address", "insert"}) /\ ~(pc'[c] \in {"run", "address", "insert"})
    BY <1>0 DEF Open, Begin, agentside
  <2>2. \A x \in Calls \ {c} : pc'[x] = pc[x] /\ call'[x].h = call[x].h
    BY <1>0
  <2> QED
    BY <2>1, <2>2 DEF DevicesInv, FdsHeld, Held
<1>8. Closing'
  BY <1>0 DEF Open, Begin, DevicesInv, Closing
<1>9. ToldAsMade'
  BY <1>0 DEF Open, Begin, DevicesInv, ToldAsMade
<1> QED
  BY <1>1, <1>2, <1>3, <1>4, <1>5, <1>6, <1>7, <1>8, <1>9 DEF DevicesInv

LEMMA CallPreserves ==
  ASSUME DevicesInv, NEW c \in Calls, NEW h \in Handles, NEW op \in I2COps \cup SpiOps \cup {"setup", "close"},
         NEW arg, h \in I2C => arg \in Addresses, op = "setup" /\ h \in SPI => arg \in Setups,
         op # "setup" => arg = NoSlave, NEW len \in 0..MaxLen,
         Call(c, h, op, arg, len)
  PROVE  DevicesInv'
<1> USE DevicesAssumption, OpsApart DEF agentside
<1>0. /\ call'[c] = [Idle EXCEPT !.op = op, !.h = h, !.arg = arg, !.len = len]
      /\ call'[c] \in CallType /\ call' \in [Calls -> CallType]
      /\ \A x \in Calls \ {c} : pc'[x] = pc[x] /\ call'[x] = call[x]
      /\ call'[c].done = <<>> /\ call'[c].reply = <<>> /\ call'[c].len = len
      /\ call'[c].op = op /\ call'[c].h = h /\ call'[c].arg = arg /\ ~call'[c].gone
      /\ call'[c].aim = NoSlave /\ pc[c] = "idle" /\ pc'[c] = "sent" /\ pc' \in [Calls -> Steps]
  <2>1. [Idle EXCEPT !.op = op, !.h = h, !.arg = arg, !.len = len] \in CallType
    BY EmptyReply DEF CallType, Idle, Addresses, Handles
  <2>2. call' = [call EXCEPT ![c] = [Idle EXCEPT !.op = op, !.h = h, !.arg = arg, !.len = len]]
    BY DEF Call, Begin
  <2> QED
    BY <2>1, <2>2 DEF Call, Begin, Idle, DevicesInv, Typed, DevicesTypeOK, Steps
<1>1. DevicesTypeOK'
  BY <1>0 DEF Call, Begin, DevicesInv, DevicesTypeOK
<1>2. Typed'
  <2>1. op \notin Opens
    BY DEF Opens
  <2> QED
    BY <1>0, <2>1 DEF Call, Begin, DevicesInv, Typed, Handles
<1>3. Phases'
  BY <1>0 DEF Call, Begin, DevicesInv, Phases
<1>4. OpensAlone'
  BY <1>0 DEF Call, Begin, Steps, DevicesInv, DevicesTypeOK, Typed, Phases, OpensAlone, CallType, Handles, Opens, Idle
<1>5. Aimed'
  BY <1>0 DEF Call, Begin, DevicesInv, Aimed
<1>6. OneSlave'
  BY <1>0 DEF Call, Begin, DevicesInv, OneSlave
<1>7. FdsHeld'
  <2>1. UNCHANGED <<fds, mapped>> /\ ~(pc[c] \in {"run", "address", "insert"}) /\ ~(pc'[c] \in {"run", "address", "insert"})
    BY <1>0 DEF Call, Begin, agentside
  <2>2. \A x \in Calls \ {c} : pc'[x] = pc[x] /\ call'[x].h = call[x].h
    BY <1>0
  <2> QED
    BY <2>1, <2>2 DEF DevicesInv, FdsHeld, Held
<1>8. Closing'
  BY <1>0 DEF Call, Begin, DevicesInv, Closing
<1>9. ToldAsMade'
  BY <1>0 DEF Call, Begin, DevicesInv, ToldAsMade
<1> QED
  BY <1>1, <1>2, <1>3, <1>4, <1>5, <1>6, <1>7, <1>8, <1>9 DEF DevicesInv

LEMMA DestroyPreserves ==
  ASSUME DevicesInv, NEW h \in Handles, Destroy(h)
  PROVE  DevicesInv'
<1> USE DevicesAssumption, OpsApart DEF agentside
<1>1. DevicesTypeOK'
  BY DEF Destroy, Uses, DevicesInv, DevicesTypeOK
<1>2. Typed'
  BY DEF Destroy, Uses, DevicesInv, Typed
<1>3. Phases'
  BY DEF Destroy, Uses, DevicesInv, Phases
<1>4. OpensAlone'
  BY DEF Destroy, Uses, DevicesInv, DevicesTypeOK, Typed, Phases, OpensAlone, CallType, Handles, Opens, Idle
<1>5. Aimed'
  BY DEF Destroy, Uses, DevicesInv, Aimed
<1>6. OneSlave'
  BY DEF Destroy, Uses, DevicesInv, OneSlave
<1>7. FdsHeld'
  BY DEF Destroy, Uses, DevicesInv, FdsHeld, Held
<1>8. Closing'
  BY DEF Destroy, Uses, DevicesInv, Closing
<1>9. ToldAsMade'
  BY DEF Destroy, Uses, DevicesInv, ToldAsMade
<1> QED
  BY <1>1, <1>2, <1>3, <1>4, <1>5, <1>6, <1>7, <1>8, <1>9 DEF DevicesInv

LEMMA ReturnPreserves ==
  ASSUME DevicesInv, NEW c \in Calls, Return(c)
  PROVE  DevicesInv'
<1> USE DevicesAssumption, OpsApart DEF agentside
<1>0. /\ call'[c] = Idle /\ pc[c] = "told" /\ pc'[c] = "idle" /\ pc' \in [Calls -> Steps]
      /\ \A x \in Calls \ {c} : pc'[x] = pc[x] /\ call'[x] = call[x]
      /\ UNCHANGED <<mapped, fds>>
      /\ call'[c].done = <<>> /\ call'[c].len = 0
  BY DEF Return, DevicesInv, Typed, DevicesTypeOK, Steps, Idle
<1>1. DevicesTypeOK'
  <2>1. proxy' \in [Handles -> {"none", "opening", "open", "closed", "lost"}]
    BY DEF Return, DevicesInv, DevicesTypeOK
  <2>2. \A x \in Calls : call'[x].len \in 0..MaxLen /\ Len(call'[x].done) <= call'[x].len
    BY <1>0, EmptyReply DEF DevicesInv, DevicesTypeOK
  <2> QED
    BY <1>0, <2>1, <2>2 DEF Return, DevicesInv, DevicesTypeOK, Steps
<1>2. Typed'
  BY <1>0, EmptyReply DEF Return, Steps, DevicesInv, DevicesTypeOK, Typed, CallType, Addresses, Setups, Idle
<1>3. Phases'
  BY <1>0, EmptyReply DEF Return, DevicesInv, Phases
<1>4. OpensAlone'
  BY <1>0, EmptyReply DEF Return, DevicesInv, OpensAlone
<1>5. Aimed'
  BY <1>0, EmptyReply DEF Return, DevicesInv, Aimed
<1>6. OneSlave'
  BY <1>0, EmptyReply DEF Return, DevicesInv, OneSlave
<1>7. FdsHeld'
  BY <1>0 DEF DevicesInv, FdsHeld, Held
<1>8. Closing'
  BY <1>0, EmptyReply DEF Return, Steps, DevicesInv, DevicesTypeOK, Typed, Phases, OpensAlone, Handles, Closing, Opens
<1>9. ToldAsMade'
  BY <1>0, EmptyReply DEF Return, DevicesInv, ToldAsMade
<1> QED
  BY <1>1, <1>2, <1>3, <1>4, <1>5, <1>6, <1>7, <1>8, <1>9 DEF DevicesInv

LEMMA GiveUpPreserves ==
  ASSUME DevicesInv, NEW c \in Calls, GiveUp(c)
  PROVE  DevicesInv'
<1> USE DevicesAssumption, OpsApart DEF agentside
<1>0. /\ StepOf(c) /\ SameItems(c) /\ UNCHANGED pc
      /\ call'[c].gone = TRUE /\ call'[c].res = call[c].res /\ call'[c].reply = call[c].reply
  <2>1. call[c] \in CallType /\ call' = [call EXCEPT ![c] = [call[c] EXCEPT !.gone = TRUE]]
    BY DEF GiveUp, DevicesInv, Typed
  <2>2. [call[c] EXCEPT !.gone = TRUE] \in CallType
    BY <2>1 DEF CallType
  <2> QED
    BY <2>1, <2>2 DEF GiveUp, StepOf, SameItems, Steps, DevicesInv, DevicesTypeOK, Typed, CallType
<1>1. DevicesTypeOK'
  BY <1>0 DEF GiveUp, StepOf, SameItems, DevicesInv, DevicesTypeOK
<1>2. Typed'
  BY <1>0 DEF GiveUp, StepOf, SameItems, DevicesInv, Typed
<1>3. Phases'
  BY <1>0 DEF GiveUp, StepOf, SameItems, DevicesInv, Phases
<1>4. OpensAlone'
  BY <1>0 DEF GiveUp, StepOf, SameItems, DevicesInv, DevicesTypeOK, Typed, Phases, OpensAlone, CallType, Handles, Opens, Idle
<1>5. Aimed'
  BY <1>0 DEF GiveUp, StepOf, SameItems, DevicesInv, Aimed
<1>6. OneSlave'
  BY <1>0 DEF GiveUp, StepOf, SameItems, DevicesInv, OneSlave
<1>7. FdsHeld'
  BY <1>0 DEF GiveUp, StepOf, SameItems, DevicesInv, FdsHeld, Held
<1>8. Closing'
  BY <1>0 DEF GiveUp, StepOf, SameItems, DevicesInv, Closing
<1>9. ToldAsMade'
  BY <1>0 DEF GiveUp, StepOf, SameItems, DevicesInv, ToldAsMade
<1> QED
  BY <1>1, <1>2, <1>3, <1>4, <1>5, <1>6, <1>7, <1>8, <1>9 DEF DevicesInv

-----------------------------------------------------------------------------
(* The steps of the agent *)

\* What the conjuncts about the calls need of an open that goes on.
LEMMA OpenGoesOn ==
  ASSUME DevicesInv, NEW c \in Calls, pc[c] \in {"sent", "address"}, call[c].op \in Opens,
         NEW l \in {"insert", "address"}, pc' = [pc EXCEPT ![c] = l],
         UNCHANGED <<call, proxy, closing, mapped>>,
         \A h \in I2C \ {call[c].h} : slave'[h] = slave[h]
  PROVE  /\ pc' \in [Calls -> Steps]
         /\ Typed' /\ Phases' /\ OpensAlone' /\ Aimed' /\ OneSlave' /\ ToldAsMade'
<1>1. pc' \in [Calls -> Steps] /\ pc'[c] = l /\ \A x \in Calls \ {c} : pc'[x] = pc[x]
  BY DEF DevicesInv, DevicesTypeOK, Steps
<1>2. Typed' /\ Phases' /\ OpensAlone'
  BY <1>1 DEF DevicesInv, Typed, Phases, OpensAlone
<1>3. Aimed'
  <2>1. \A x \in Calls \ {c} : pc[x] # "idle" => call[x].h # call[c].h
    BY DEF DevicesInv, OpensAlone
  <2> QED
    BY <1>1, <2>1 DEF DevicesInv, Aimed
<1>4. OneSlave' /\ ToldAsMade'
  BY <1>1 DEF DevicesInv, OneSlave, ToldAsMade
<1> QED
  BY <1>1, <1>2, <1>3, <1>4

LEMMA OpenBusPreserves == ASSUME DevicesInv, NEW c \in Calls, OpenBus(c) PROVE DevicesInv'
<1> USE DEF OpenBus
<1>h. call[c].h \in Handles /\ call[c].h \notin mapped /\ proxy[call[c].h] # "closed"
  BY DEF DevicesInv, Typed, OpensAlone
<1>1. CASE /\ fds' = fds \cup {call[c].h} /\ UNCHANGED call
           /\ pc' = [pc EXCEPT ![c] = IF call[c].op = "open" THEN "insert" ELSE "address"]
  <2> DEFINE l == IF call[c].op = "open" THEN "insert" ELSE "address"
  <2>1. /\ pc' \in [Calls -> Steps]
        /\ Typed' /\ Phases' /\ OpensAlone' /\ Aimed' /\ OneSlave' /\ ToldAsMade'
    <3>1. l \in {"insert", "address"} /\ pc' = [pc EXCEPT ![c] = l]
      BY <1>1
    <3> HIDE DEF l
    <3> QED
      BY <3>1, <1>1, OpenGoesOn
  <2>2. DevicesTypeOK'
    BY <1>1, <2>1, <1>h DEF DevicesInv, DevicesTypeOK, Steps
  <2>3. FdsHeld' /\ Closing'
    BY <1>1, <1>h DEF DevicesInv, DevicesTypeOK, FdsHeld, Held, Closing
  <2> QED
    BY <2>1, <2>2, <2>3 DEF DevicesInv
<1>2. CASE Tell(c, "error") /\ UNCHANGED fds
  <2>1. Typed' /\ Phases' /\ OpensAlone' /\ Aimed' /\ OneSlave' /\ ToldAsMade'
    BY <1>2, ToldKeeps
  <2>2. StepOf(c) /\ SameItems(c) /\ pc'[c] = "told"
    BY <1>2, TellEffect DEF DevicesInv
  <2>3. DevicesTypeOK'
    BY <1>2, <2>2 DEF DevicesInv, DevicesTypeOK, StepOf, SameItems, Steps
  <2>4. FdsHeld' /\ Closing'
    BY <1>2, <2>2 DEF DevicesInv, FdsHeld, Held, StepOf, Closing
  <2> QED
    BY <2>1, <2>3, <2>4 DEF DevicesInv
<1> QED
  BY <1>1, <1>2

\* What a setup leaves of the address and the configuration.
LEMMA AppliedEffect ==
  ASSUME DevicesInv, NEW c \in Calls, pc[c] # "idle", call[c].op \in Opens \cup {"setup"},
         NEW res \in {"ok", "error"}, Applied(call[c].h, call[c].arg, res)
  PROVE  /\ slave' \in [I2C -> Addresses] /\ config' \in [SPI -> [mode : Nat, speed : Nat]]
         /\ \A h \in I2C \ {call[c].h} : slave'[h] = slave[h]
         /\ res = "error" => slave' = slave
<1> USE DevicesAssumption
<1>0. call[c].h \in Handles /\ slave \in [I2C -> Addresses] /\ config \in [SPI -> [mode : Nat, speed : Nat]]
  BY DEF DevicesInv, Typed, DevicesTypeOK, Addresses
<1>1. CASE call[c].h \in I2C
  <2>1. call[c].arg \in Addresses
    BY <1>1 DEF DevicesInv, Typed
  <2> QED
    BY <1>0, <1>1, <2>1 DEF Applied, Address
<1>2. CASE call[c].h \notin I2C
  <2>1. call[c].h \in SPI
    BY <1>0, <1>2 DEF Handles
  <2>2. call[c].arg.mode \in Nat /\ call[c].arg.speed \in Nat
    <3>1. call[c].arg \in [mode : Modes, speed : Speeds]
      BY <2>1 DEF DevicesInv, Typed, Setups
    <3>2. Modes \subseteq Nat /\ Speeds \subseteq Nat
      OBVIOUS
    <3> QED
      BY <3>1, <3>2
  <2>3. call[c].arg.speed % 4 \in Nat
    BY <2>2
  <2>4. slave' = slave /\ Configure(call[c].h, call[c].arg, res)
    BY <1>2 DEF Applied
  <2>5. config' \in [SPI -> [mode : Nat, speed : Nat]]
    BY <1>0, <2>1, <2>2, <2>3, <2>4 DEF Configure
  <2> QED
    BY <1>0, <2>4, <2>5
<1> QED
  BY <1>1, <1>2

LEMMA OpenSetupPreserves == ASSUME DevicesInv, NEW c \in Calls, OpenSetup(c) PROVE DevicesInv'
<1>0. /\ pc[c] = "address" /\ call[c].op \in Opens
      /\ UNCHANGED <<proxy, closing, mapped, broken>>
  BY DEF OpenSetup, DevicesInv, Phases
<1>h. call[c].h \in Handles /\ call[c].h \notin mapped /\ proxy[call[c].h] # "closed"
  BY <1>0 DEF DevicesInv, Typed, OpensAlone
<1>1. PICK res \in {"ok", "error"} :
        /\ Applied(call[c].h, call[c].arg, res)
        /\ IF res = "ok" THEN pc' = [pc EXCEPT ![c] = "insert"] /\ UNCHANGED <<fds, call>>
           ELSE Tell(c, "error") /\ fds' = fds \ {call[c].h}
  BY DEF OpenSetup
<1>2. /\ slave' \in [I2C -> Addresses] /\ config' \in [SPI -> [mode : Nat, speed : Nat]]
      /\ \A h \in I2C \ {call[c].h} : slave'[h] = slave[h]
      /\ res = "error" => slave' = slave
  BY <1>0, <1>1, AppliedEffect
<1>3. CASE res = "ok"
  <2>1. /\ pc' \in [Calls -> Steps]
        /\ Typed' /\ Phases' /\ OpensAlone' /\ Aimed' /\ OneSlave' /\ ToldAsMade'
    BY <1>0, <1>1, <1>2, <1>3, OpenGoesOn
  <2>2. DevicesTypeOK'
    BY <1>0, <1>1, <1>2, <1>3, <2>1 DEF DevicesInv, DevicesTypeOK, Steps, Addresses
  <2>3. FdsHeld' /\ Closing'
    BY <1>0, <1>1, <1>3 DEF DevicesInv, DevicesTypeOK, FdsHeld, Held, Closing
  <2> QED
    BY <2>1, <2>2, <2>3 DEF DevicesInv
<1>4. CASE res = "error"
  <2>1. Typed' /\ Phases' /\ OpensAlone' /\ Aimed' /\ OneSlave' /\ ToldAsMade'
    BY <1>0, <1>1, <1>2, <1>4, ToldKeeps
  <2>2. StepOf(c) /\ SameItems(c) /\ pc'[c] = "told"
    BY <1>1, <1>4, TellEffect DEF DevicesInv
  <2>3. DevicesTypeOK'
    BY <1>0, <1>1, <1>2, <1>4, <2>2 DEF DevicesInv, DevicesTypeOK, StepOf, SameItems, Steps, Addresses
  <2>4. \A x \in Calls \ {c} : pc[x] # "idle" => call[x].h # call[c].h
    BY <1>0 DEF DevicesInv, OpensAlone
  <2>5. FdsHeld' /\ Closing'
    BY <1>0, <1>1, <1>4, <1>h, <2>2, <2>4 DEF DevicesInv, FdsHeld, Held, StepOf, Closing
  <2> QED
    BY <2>1, <2>3, <2>5 DEF DevicesInv
<1> QED
  BY <1>3, <1>4

LEMMA InsertPreserves == ASSUME DevicesInv, NEW c \in Calls, Insert(c) PROVE DevicesInv'
<1>0. /\ pc[c] = "insert" /\ call[c].op \in Opens /\ mapped' = mapped \cup {call[c].h}
      /\ Tell(c, "ok") /\ UNCHANGED <<proxy, closing, fds, slave, config, broken>>
  BY DEF Insert, DevicesInv, Phases
<1>1. Typed' /\ Phases' /\ OpensAlone' /\ Aimed' /\ OneSlave' /\ ToldAsMade'
  BY <1>0, ToldKeeps
<1>2. StepOf(c) /\ SameItems(c) /\ pc'[c] = "told"
  BY <1>0, TellEffect DEF DevicesInv
<1>h. call[c].h \in Handles /\ call[c].h \notin mapped /\ proxy[call[c].h] # "closed"
  BY <1>0 DEF DevicesInv, Typed, OpensAlone
<1>3. DevicesTypeOK'
  BY <1>0, <1>2, <1>h DEF DevicesInv, DevicesTypeOK, StepOf, SameItems, Steps
<1>4. FdsHeld' /\ Closing'
  BY <1>0, <1>2, <1>h DEF DevicesInv, FdsHeld, Held, StepOf, Closing
<1> QED
  BY <1>1, <1>3, <1>4 DEF DevicesInv

LEMMA FindPreserves == ASSUME DevicesInv, NEW c \in Calls, Find(c) PROVE DevicesInv'
<1>0. /\ pc[c] = "sent" /\ call[c].op \notin Opens \cup {"close"} /\ call[c].h \in Handles
      /\ call[c].done = <<>> /\ call[c].reply = <<>>
      /\ UNCHANGED <<proxy, closing, mapped, fds, slave, config, broken>>
  BY DEF Find, DevicesInv, Typed, Phases, agentside
<1>1. CASE call[c].h \in mapped
  <2> DEFINE aim == IF call[c].h \in I2C /\ call[c].op # "setup" THEN slave[call[c].h] ELSE call[c].aim
  <2>1. aim \in Addresses
    BY DEF DevicesInv, Typed, DevicesTypeOK, CallType, Addresses
  <2>2. pc' = [pc EXCEPT ![c] = "run"] /\ call' = [call EXCEPT ![c] = [call[c] EXCEPT !.aim = aim]]
    BY <1>1 DEF Find, DevicesInv, Typed, CallType
  <2> HIDE DEF aim
  <2>3. call[c] \in CallType /\ [call[c] EXCEPT !.aim = aim] \in CallType
    BY <2>1 DEF DevicesInv, Typed, CallType
  <2>4. /\ StepOf(c) /\ pc'[c] = "run" /\ call'[c].done = <<>> /\ call'[c].reply = <<>>
        /\ call'[c].aim = aim
        /\ call'[c].gone = call[c].gone /\ call'[c].res = call[c].res
    BY <1>0, <2>2, <2>3 DEF DevicesInv, DevicesTypeOK, Typed, StepOf, CallType, Steps
  <2>5. DevicesTypeOK'
    BY <1>0, <2>4 DEF DevicesInv, DevicesTypeOK, StepOf, Steps
  <2>6. Typed' /\ Phases'
    BY <1>0, <2>4, EmptyReply DEF DevicesInv, Typed, Phases, StepOf
  <2>7. OpensAlone' /\ FdsHeld' /\ Closing'
    BY <1>0, <1>1, <2>4 DEF DevicesInv, Typed, OpensAlone, FdsHeld, Held, Closing, StepOf
  <2>8. Aimed' /\ OneSlave' /\ ToldAsMade'
    BY <1>0, <2>4, EmptyReply DEF DevicesInv, Aimed, OneSlave, ToldAsMade, StepOf, aim
  <2> QED
    BY <2>5, <2>6, <2>7, <2>8 DEF DevicesInv
<1>2. CASE call[c].h \notin mapped
  <2>1. Tell(c, "error")
    BY <1>2 DEF Find
  <2>2. Typed' /\ Phases' /\ OpensAlone' /\ Aimed' /\ OneSlave' /\ ToldAsMade'
    BY <1>0, <2>1, ToldKeeps, EmptyReply
  <2>3. StepOf(c) /\ SameItems(c) /\ pc'[c] = "told"
    BY <2>1, TellEffect DEF DevicesInv
  <2>4. DevicesTypeOK'
    BY <1>0, <2>3 DEF DevicesInv, DevicesTypeOK, StepOf, SameItems, Steps
  <2>5. FdsHeld' /\ Closing'
    BY <1>0, <2>3 DEF DevicesInv, FdsHeld, Held, StepOf, Closing
  <2> QED
    BY <2>2, <2>4, <2>5 DEF DevicesInv
<1> QED
  BY <1>1, <1>2

\* A descriptor that leaves the map stays while an I2C call has it.
LEMMA EraseKeeps ==
  ASSUME DevicesInv, NEW e \in Handles, Erase(e),
         \A x \in Calls : call'[x].h = call[x].h,
         \A x \in Calls : \/ pc'[x] = pc[x]
                          \/ pc[x] = "sent" /\ pc'[x] = "told"
  PROVE  FdsHeld'
<1>1. \A x \in Calls : pc[x] \in {"address", "insert"} => call[x].h \notin mapped
  BY DEF DevicesInv, OpensAlone, Phases
<1>2. \A h \in Handles : Held(h)' <=>
        \/ h \in mapped /\ h # e
        \/ h \in I2C /\ Holds(h) # {}
        \/ \E x \in Calls : call[x].h = h /\ pc[x] \in {"address", "insert"}
  BY DEF Held, Erase, Holds
<1>3. \A h \in Handles : h \in fds <=> Held(h)
  BY DEF DevicesInv, FdsHeld
<1>4. ASSUME NEW h \in Handles, h # e PROVE h \in fds' <=> Held(h)'
  BY <1>2, <1>3, <1>4 DEF Erase, Held, Holds
<1>5. e \in fds' <=> Held(e)'
  <2>1. CASE e \in mapped /\ (e \in SPI \/ Holds(e) = {})
    <3>1. e \notin fds'
      BY <2>1 DEF Erase
    <3>2. e \in I2C => Holds(e) = {}
      BY <2>1, DevicesAssumption
    <3> QED
      BY <1>1, <1>2, <2>1, <3>1, <3>2
  <2>2. CASE ~(e \in mapped /\ (e \in SPI \/ Holds(e) = {}))
    <3>1. fds' = fds /\ (e \in mapped => e \in I2C /\ Holds(e) # {})
      BY <2>2 DEF Erase, Handles
    <3> QED
      BY <1>2, <1>3, <3>1 DEF Held, Holds
  <2> QED
    BY <2>1, <2>2
<1> QED
  BY <1>4, <1>5 DEF FdsHeld

LEMMA ClosePreserves == ASSUME DevicesInv, NEW c \in Calls, Close(c) PROVE DevicesInv'
<1>0. /\ pc[c] = "sent" /\ call[c].op = "close" /\ call[c].h \in Handles
      /\ Erase(call[c].h) /\ Tell(c, "ok") /\ UNCHANGED <<proxy, closing, broken>>
  BY DEF Close, DevicesInv, Typed
<1>1. UNCHANGED <<slave, config>> /\ mapped' \subseteq mapped
  BY <1>0 DEF Erase
<1>2. Typed' /\ Phases' /\ OpensAlone' /\ Aimed' /\ OneSlave' /\ ToldAsMade'
  BY <1>0, <1>1, ToldKeeps
<1>3. StepOf(c) /\ SameItems(c) /\ pc'[c] = "told"
  BY <1>0, TellEffect DEF DevicesInv
<1>4. DevicesTypeOK'
  BY <1>0, <1>3 DEF Erase, DevicesInv, DevicesTypeOK, StepOf, SameItems, Steps
<1>5. \A x \in Calls : pc[x] \in {"address", "insert"} => call[x].h \notin mapped
  BY DEF DevicesInv, OpensAlone, Phases
<1>6. FdsHeld'
  BY <1>0, <1>3, EraseKeeps DEF StepOf
<1>7. Closing'
  BY <1>0 DEF Erase, DevicesInv, Closing
<1> QED
  BY <1>2, <1>4, <1>6, <1>7 DEF DevicesInv

\* A call that has run lets its descriptor go when nobody else has it.
LEMMA LetGoKeeps ==
  ASSUME DevicesInv, NEW c \in Calls, pc[c] = "run", LetGo(c), UNCHANGED mapped,
         \A x \in Calls : call'[x].h = call[x].h,
         \A x \in Calls \ {c} : pc'[x] = pc[x],
         pc'[c] = "told"
  PROVE  FdsHeld' /\ fds' \subseteq Handles
<1>1. \A x \in Calls : pc[x] \in {"address", "insert"} => call[x].h # call[c].h
  BY DEF DevicesInv, Phases, OpensAlone
<1>2. \A h \in Handles : h \in fds <=> Held(h)
  BY DEF DevicesInv, FdsHeld
<1>3. ASSUME NEW h \in Handles, h # call[c].h PROVE h \in fds' <=> Held(h)'
  BY <1>2, <1>3 DEF LetGo, Held
<1>4. ASSUME call[c].h \in Handles PROVE call[c].h \in fds' <=> Held(call[c].h)'
  <2>1. Held(call[c].h)' <=> call[c].h \in mapped \/ (call[c].h \in I2C /\ Holds(call[c].h) # {c})
    BY <1>1 DEF Held, Holds
  <2>2. CASE call[c].h \in I2C \ mapped /\ Holds(call[c].h) = {c}
    BY <2>1, <2>2 DEF LetGo
  <2>3. CASE ~(call[c].h \in I2C \ mapped /\ Holds(call[c].h) = {c})
    <3>1. fds' = fds
      BY <2>3 DEF LetGo
    <3>2. call[c].h \in fds <=> call[c].h \in mapped \/ call[c].h \in I2C
      BY <1>1, <1>2, <1>4 DEF Held
    <3> QED
      BY <2>1, <2>3, <3>1, <3>2
  <2> QED
    BY <2>2, <2>3
<1>5. call[c].h \in Handles
  BY DEF DevicesInv, Typed
<1>6. fds' \subseteq Handles
  BY DEF LetGo, DevicesInv, DevicesTypeOK
<1> QED
  BY <1>3, <1>4, <1>5, <1>6 DEF FdsHeld

LEMMA SetupPreserves == ASSUME DevicesInv, NEW c \in Calls, Setup(c) PROVE DevicesInv'
<1>0. /\ pc[c] = "run" /\ call[c].op = "setup" /\ call[c].h \in Handles
      /\ UNCHANGED <<proxy, closing>>
  BY DEF Setup, DevicesInv, Typed
<1>1. CASE call[c].h \notin fds
  <2>1. UNCHANGED <<proxy, closing, mapped, fds, slave, config, pc, call>> /\ broken' = TRUE
    BY <1>1 DEF Setup, agentside
  <2> QED
    BY <2>1 DEF DevicesInv, DevicesTypeOK, Typed, Phases, OpensAlone, Aimed, OneSlave, FdsHeld, Held, Closing,
                ToldAsMade
<1>2. CASE call[c].h \in fds
  <2>1. PICK res \in {"ok", "error"} :
          /\ Applied(call[c].h, call[c].arg, res)
          /\ pc' = [pc EXCEPT ![c] = "told"]
          /\ call' = [x \in Calls |->
                        IF x = c THEN [call[c] EXCEPT !.res = res]
                        ELSE IF x \in Holds(call[c].h) /\ call[x].op # "setup"
                        THEN [call[x] EXCEPT !.moved = TRUE]
                        ELSE call[x]]
    BY <1>2 DEF Setup
  <2>2. LetGo(c) /\ UNCHANGED <<mapped, broken>>
    BY <1>2 DEF Setup
  <2>3. /\ slave' \in [I2C -> Addresses] /\ config' \in [SPI -> [mode : Nat, speed : Nat]]
        /\ \A h \in I2C \ {call[c].h} : slave'[h] = slave[h]
    BY <1>0, <2>1, AppliedEffect
  <2>4. pc' \in [Calls -> Steps] /\ pc'[c] = "told" /\ \A x \in Calls \ {c} : pc'[x] = pc[x]
    BY <2>1 DEF DevicesInv, DevicesTypeOK, Steps
  <2>5. call' \in [Calls -> CallType]
    <3>1. \A x \in Calls : call[x] \in CallType
      BY DEF DevicesInv, Typed
    <3>2. [call[c] EXCEPT !.res = res] \in CallType
      BY <3>1 DEF CallType
    <3>3. \A k \in CallType : [k EXCEPT !.moved = TRUE] \in CallType
      BY DEF CallType
    <3> QED
      BY <2>1, <3>1, <3>2, <3>3
  <2>6. \A x \in Calls :
          /\ call'[x].op = call[x].op /\ call'[x].h = call[x].h /\ call'[x].arg = call[x].arg
          /\ call'[x].len = call[x].len /\ call'[x].done = call[x].done /\ call'[x].aim = call[x].aim
          /\ call'[x].gone = call[x].gone /\ call'[x].reply = call[x].reply
          /\ x # c => call'[x].res = call[x].res
          /\ pc[x] # "run" => call'[x] = call[x]
          /\ call[x].moved => call'[x].moved
    BY <1>0, <2>1 DEF DevicesInv, Typed, CallType, Holds
  <2>7. \A x \in Calls \ {c} : pc[x] = "run" /\ call[x].h = call[c].h /\ call[x].op # "setup"
                               => call'[x].moved
    BY <2>1 DEF DevicesInv, Typed, CallType, Holds
  <2>8. DevicesTypeOK'
    BY <1>0, <2>2, <2>3, <2>4, <2>6, LetGoKeeps DEF DevicesInv, DevicesTypeOK, Steps, Addresses, Setup
  <2>9. Typed' /\ Phases'
    BY <1>0, <2>4, <2>5, <2>6 DEF DevicesInv, Typed, Phases
  <2>10. OpensAlone' /\ Closing'
    BY <1>0, <2>2, <2>4, <2>6 DEF DevicesInv, OpensAlone, Closing, Phases
  <2>11. Aimed'
    BY <1>0, <2>3, <2>4, <2>6, <2>7 DEF DevicesInv, Aimed
  <2>12. OneSlave' /\ ToldAsMade'
    BY <1>0, <2>4, <2>6 DEF DevicesInv, OneSlave, ToldAsMade
  <2>13. FdsHeld'
    BY <1>0, <2>2, <2>4, <2>6, LetGoKeeps
  <2> QED
    BY <2>8, <2>9, <2>10, <2>11, <2>12, <2>13 DEF DevicesInv
<1> QED
  BY <1>1, <1>2

\* A call that has made its items, or failed at one, is answered.
LEMMA RunEnds ==
  ASSUME DevicesInv, NEW c \in Calls, pc[c] = "run", NEW res \in {"ok", "error"}, Tell(c, res), LetGo(c),
         UNCHANGED <<proxy, closing, mapped, slave, config>>, broken' \in BOOLEAN,
         res = "ok" => Len(call[c].done) = call[c].len,
         res = "error" => Len(call[c].done) < call[c].len
  PROVE  DevicesInv'
<1>1. Len(call[c].reply) = Len(call[c].done)
  BY DEF DevicesInv, Phases
<1>2. Typed' /\ Phases' /\ OpensAlone' /\ Aimed' /\ OneSlave' /\ ToldAsMade'
  BY <1>1, ToldKeeps
<1>3. StepOf(c) /\ SameItems(c) /\ pc'[c] = "told"
  BY TellEffect DEF DevicesInv
<1>4. FdsHeld' /\ fds' \subseteq Handles
  BY <1>3, LetGoKeeps DEF StepOf
<1>5. DevicesTypeOK'
  BY <1>3, <1>4 DEF DevicesInv, DevicesTypeOK, StepOf, SameItems, Steps
<1>6. Closing'
  BY DEF DevicesInv, Closing
<1> QED
  BY <1>2, <1>4, <1>5, <1>6 DEF DevicesInv

LEMMA ListEndsPreserves == ASSUME DevicesInv, NEW c \in Calls, ListEnds(c) PROVE DevicesInv'
BY RunEnds DEF ListEnds, DevicesInv, DevicesTypeOK

LEMMA ItemPreserves == ASSUME DevicesInv, NEW c \in Calls, Item(c) PROVE DevicesInv'
<1> USE DevicesAssumption
<1>0. /\ pc[c] = "run" /\ call[c].op # "setup" /\ Len(call[c].done) < call[c].len
      /\ call[c].h \in Handles /\ UNCHANGED <<proxy, closing, mapped, slave, config>>
  BY DEF Item, DevicesInv, Typed
<1>1. CASE call[c].h \notin fds
  <2>1. UNCHANGED <<fds, pc, call>> /\ broken' = TRUE
    BY <1>1 DEF Item
  <2> QED
    BY <1>0, <2>1 DEF DevicesInv, DevicesTypeOK, Typed, Phases, OpensAlone, Aimed, OneSlave, FdsHeld, Held, Closing,
                ToldAsMade
<1>2. CASE ItemFails(c) /\ UNCHANGED broken
  BY <1>0, <1>2, RunEnds DEF ItemFails, DevicesInv, DevicesTypeOK
<1>3. ASSUME NEW v \in Values, ItemMade(c, v), broken' \in BOOLEAN PROVE DevicesInv'
  <2> DEFINE k == call[c]  m == Made(k, v)  r == Kept(k.op, v)
  <2>1. k \in CallType /\ k.done \in Seq(Transaction) /\ k.reply \in Seq(Int) /\ k.len \in 0..MaxLen
    BY DEF DevicesInv, Typed, CallType
  <2>2. m \in Transaction /\ m.n = Len(k.done) + 1 /\ m.at = (IF k.h \in I2C THEN slave[k.h] ELSE NoSlave)
    BY <2>1 DEF Made, Transaction, Addresses, DevicesInv, DevicesTypeOK
  <2>3. r \in Int
    BY DEF Kept
  <2>4. call' = [call EXCEPT ![c] = [k EXCEPT !.done = Append(k.done, m), !.reply = Append(k.reply, r)]]
        /\ UNCHANGED <<fds, pc>>
    BY <1>3, <2>1 DEF ItemMade, DevicesInv, Typed, CallType
  <2> HIDE DEF m, r
  <2>5. /\ Append(k.done, m) \in Seq(Transaction) /\ Append(k.reply, r) \in Seq(Int)
        /\ Len(Append(k.done, m)) = Len(k.done) + 1 /\ Len(Append(k.reply, r)) = Len(k.reply) + 1
        /\ \A i \in DOMAIN Append(k.done, m) :
             \/ i \in DOMAIN k.done /\ Append(k.done, m)[i] = k.done[i]
             \/ i = Len(k.done) + 1 /\ Append(k.done, m)[i] = m
    BY <2>1, <2>2, <2>3
  <2>6. [k EXCEPT !.done = Append(k.done, m), !.reply = Append(k.reply, r)] \in CallType
    BY <2>1, <2>5 DEF CallType
  <2>7. /\ StepOf(c) /\ call'[c].done = Append(k.done, m) /\ call'[c].reply = Append(k.reply, r)
        /\ call'[c].aim = k.aim /\ call'[c].moved = k.moved /\ call'[c].gone = k.gone
        /\ call'[c].res = k.res /\ UNCHANGED <<fds, pc>>
    BY <2>1, <2>4, <2>6 DEF StepOf, DevicesInv, Typed, DevicesTypeOK, CallType, Steps
  <2>8. DevicesTypeOK'
    <3>1. Len(call'[c].done) <= call'[c].len
      BY <1>0, <2>1, <2>5, <2>7 DEF StepOf
    <3>2. \A x \in Calls : call'[x].len \in 0..MaxLen /\ Len(call'[x].done) <= call'[x].len
      BY <2>1, <2>7, <3>1 DEF DevicesInv, DevicesTypeOK, StepOf
    <3>3. UNCHANGED <<proxy, closing, mapped, fds, slave, config, pc>> /\ broken' \in BOOLEAN
      BY <1>0, <1>3, <2>7
    <3> QED
      BY <3>2, <3>3 DEF DevicesInv, DevicesTypeOK
  <2>9. Typed'
    BY <1>0, <2>7 DEF DevicesInv, Typed, StepOf
  <2>10. Phases'
    <3>1. \A i \in DOMAIN call'[c].done : call'[c].done[i].n = i
      BY <2>2, <2>5, <2>7 DEF DevicesInv, Phases
    <3>2. Len(call'[c].reply) = Len(call'[c].done)
      BY <1>0, <2>5, <2>7 DEF DevicesInv, Phases
    <3>3. UNCHANGED pc /\ call'[c].op = k.op /\ \A x \in Calls \ {c} : call'[x] = call[x]
      BY <2>7 DEF StepOf
    <3> HIDE DEF k
    <3>4. pc[c] = "run" /\ k.op \notin Opens \cup {"close"}
      BY <1>0 DEF DevicesInv, Phases, k
    <3>5. Phases
      BY DEF DevicesInv
    <3>6. \A x \in Calls : pc'[x] = pc[x] /\ (x = c \/ call'[x] = call[x])
      BY <3>3
    <3> QED
      BY <3>1, <3>2, <3>3, <3>4, <3>5, <3>6 DEF Phases
  <2>11. OpensAlone' /\ FdsHeld' /\ Closing'
    BY <1>0, <2>7 DEF DevicesInv, OpensAlone, FdsHeld, Held, Closing, StepOf
  <2>12. Aimed' /\ ToldAsMade'
    BY <1>0, <2>7 DEF DevicesInv, Aimed, ToldAsMade, StepOf
  <2>13. OneSlave'
    <3>1. ASSUME k.h \in I2C, ~k.moved PROVE \A i \in DOMAIN call'[c].done : call'[c].done[i].at = k.aim
      <4>1. slave[k.h] = k.aim
        BY <1>0, <3>1 DEF DevicesInv, Aimed
      <4> QED
        BY <2>2, <2>5, <2>7, <3>1, <4>1 DEF DevicesInv, OneSlave
    <3>2. call'[c].h = k.h /\ call'[c].moved = k.moved /\ call'[c].aim = k.aim
      BY <2>7 DEF StepOf
    <3>3. \A x \in Calls : x = c \/ call'[x] = call[x]
      BY <2>7 DEF StepOf
    <3> QED
      BY <3>1, <3>2, <3>3 DEF DevicesInv, OneSlave
  <2> QED
    BY <2>8, <2>9, <2>10, <2>11, <2>12, <2>13 DEF DevicesInv
<1> QED
  BY <1>0, <1>1, <1>2, <1>3 DEF Item

LEMMA CloseArrivesPreserves ==
  ASSUME DevicesInv, NEW h \in Handles, CloseArrives(h)
  PROVE  DevicesInv'
<1> USE DevicesAssumption, OpsApart DEF agentside
<1>1. DevicesTypeOK'
  BY DEF CloseArrives, Erase, Holds, DevicesInv, DevicesTypeOK
<1>2. Typed'
  BY DEF CloseArrives, Erase, Holds, DevicesInv, Typed
<1>3. Phases'
  BY DEF CloseArrives, Erase, Holds, DevicesInv, Phases
<1>4. OpensAlone'
  BY DEF CloseArrives, Erase, Holds, DevicesInv, OpensAlone
<1>5. Aimed'
  BY DEF CloseArrives, Erase, Holds, DevicesInv, Aimed
<1>6. OneSlave'
  BY DEF CloseArrives, Erase, Holds, DevicesInv, OneSlave
<1>7. FdsHeld'
  BY EraseKeeps DEF CloseArrives
<1>8. Closing'
  BY DEF CloseArrives, Erase, Holds, DevicesInv, Closing
<1>9. ToldAsMade'
  BY DEF CloseArrives, Erase, Holds, DevicesInv, ToldAsMade
<1> QED
  BY <1>1, <1>2, <1>3, <1>4, <1>5, <1>6, <1>7, <1>8, <1>9 DEF DevicesInv

-----------------------------------------------------------------------------
(* Every step                                                              *)

LEMMA ClientPreserves == ASSUME DevicesInv, Client PROVE DevicesInv'
<1> USE DevicesAssumption, EmptyReply
<1>1. ASSUME NEW h \in Handles, Destroy(h) PROVE DevicesInv'
  BY <1>1, DestroyPreserves
<1>2. ASSUME NEW c \in Calls, NEW h \in I2C,
             \/ Open(c, h, "open", NoSlave)
             \/ \E a \in Slaves : Open(c, h, "open_setup", a) \/ Call(c, h, "setup", a, 0)
             \/ \E op \in I2COps : \E n \in Lengths(op) : Call(c, h, op, NoSlave, n)
      PROVE  DevicesInv'
  <2>1. h \in Handles /\ h \notin SPI
    BY DEF Handles
  <2>2. CASE Open(c, h, "open", NoSlave)
    BY <2>1, <2>2, OpenPreserves DEF Opens, Addresses
  <2>3. ASSUME NEW a \in Slaves, Open(c, h, "open_setup", a) PROVE DevicesInv'
    BY <2>1, <2>3, OpenPreserves DEF Opens, Addresses
  <2>4. ASSUME NEW a \in Slaves, Call(c, h, "setup", a, 0) PROVE DevicesInv'
    BY <2>1, <2>4, CallPreserves DEF Addresses
  <2>5. ASSUME NEW op \in I2COps, NEW n \in Lengths(op), Call(c, h, op, NoSlave, n) PROVE DevicesInv'
    <3>1. n \in 0..MaxLen
      BY DEF Lengths
    <3>2. op # "setup"
      BY OpsApart
    <3> QED
      BY <2>1, <2>5, <3>1, <3>2, CallPreserves DEF Addresses
  <2> QED
    BY <1>2, <2>2, <2>3, <2>4, <2>5
<1>3. ASSUME NEW c \in Calls, NEW h \in SPI,
             \/ \E m \in Modes, s \in Speeds :
                  LET a == [mode |-> m, speed |-> s] IN
                  \/ Open(c, h, IF s = 0 THEN "open" ELSE "open_setup", a)
                  \/ Call(c, h, "setup", a, 0)
             \/ \E op \in SpiOps : \E n \in Lengths(op) : Call(c, h, op, NoSlave, n)
             \/ Call(c, h, "close", NoSlave, 0)
      PROVE  DevicesInv'
  <2>1. h \in Handles /\ h \notin I2C
    BY DEF Handles
  <2>2. ASSUME NEW m \in Modes, NEW s \in Speeds,
               Open(c, h, IF s = 0 THEN "open" ELSE "open_setup", [mode |-> m, speed |-> s])
        PROVE  DevicesInv'
    <3>1. [mode |-> m, speed |-> s] \in Setups
      BY DEF Setups
    <3>2. (IF s = 0 THEN "open" ELSE "open_setup") \in Opens
      BY DEF Opens
    <3> QED
      BY <2>1, <2>2, <3>1, <3>2, OpenPreserves
  <2>3. ASSUME NEW m \in Modes, NEW s \in Speeds, Call(c, h, "setup", [mode |-> m, speed |-> s], 0)
        PROVE  DevicesInv'
    <3>1. [mode |-> m, speed |-> s] \in Setups
      BY DEF Setups
    <3> QED
      BY <2>1, <2>3, <3>1, CallPreserves
  <2>4. ASSUME NEW op \in SpiOps, NEW n \in Lengths(op), Call(c, h, op, NoSlave, n) PROVE DevicesInv'
    <3>1. n \in 0..MaxLen
      BY DEF Lengths
    <3>2. op # "setup"
      BY OpsApart
    <3> QED
      BY <2>1, <2>4, <3>1, <3>2, CallPreserves
  <2>5. CASE Call(c, h, "close", NoSlave, 0)
    BY <2>1, <2>5, CallPreserves
  <2> QED
    BY <1>3, <2>2, <2>3, <2>4, <2>5
<1>4. ASSUME NEW c \in Calls, GiveUp(c) PROVE DevicesInv'
  BY <1>4, GiveUpPreserves
<1> QED
  BY <1>1, <1>2, <1>3, <1>4 DEF Client

LEMMA CallsStutter == ASSUME DevicesInv, UNCHANGED devicesVars PROVE DevicesInv'
BY DEF devicesVars, DevicesInv, DevicesTypeOK, Typed, Phases, OpensAlone, Aimed, OneSlave, FdsHeld, Held, Closing,
       ToldAsMade

LEMMA DevicesInductive == DevicesSpec => []DevicesInv
<1>1. ASSUME DevicesInv, [DevicesNext]_devicesVars PROVE DevicesInv'
  <2>1. ASSUME NEW c \in Calls, Serve(c) PROVE DevicesInv'
    BY <1>1, <2>1, OpenBusPreserves, OpenSetupPreserves, InsertPreserves, FindPreserves, ClosePreserves,
       SetupPreserves, ItemPreserves, ListEndsPreserves, ReturnPreserves DEF Serve
  <2>2. ASSUME NEW h \in Handles, CloseArrives(h) PROVE DevicesInv'
    BY <1>1, <2>2, CloseArrivesPreserves
  <2> QED
    BY <1>1, <2>1, <2>2, ClientPreserves, CallsStutter DEF DevicesNext
<1> QED
  BY <1>1, CallsBegin, PTL DEF DevicesSpec

-----------------------------------------------------------------------------
\* The proxies, the maps, the descriptors and the calls have their types, and no list
\* makes more transactions than it was given.
THEOREM CallsTypeCorrect == DevicesSpec => []DevicesTypeOK
<1>1. DevicesInv => DevicesTypeOK
  BY DEF DevicesInv
<1> QED
  BY <1>1, DevicesInductive, PTL

\* A list of an I2C handle goes to one slave, whatever other handles of the bus are set
\* to between its transactions.
THEOREM ListGoesToOneSlave == DevicesSpec => []OneSlave
<1>1. DevicesInv => OneSlave
  BY DEF DevicesInv
<1> QED
  BY <1>1, DevicesInductive, PTL

\* A descriptor is open exactly as long as the map, a running I2C call or an open that
\* goes on has it; a close is on its way for each mapped device whose proxy was destroyed.
THEOREM DescriptorsStay == DevicesSpec => []DescriptorsHeld
<1>1. DevicesInv => DescriptorsHeld
  <2> SUFFICES ASSUME DevicesInv PROVE DescriptorsHeld
    OBVIOUS
  <2>1. mapped \subseteq Handles /\ fds \subseteq Handles /\ I2C \subseteq Handles
    BY DEF DevicesInv, DevicesTypeOK, Handles
  <2>2. \A x \in Calls : pc[x] \in {"address", "insert"} => call[x].h \in Handles
    BY DEF DevicesInv, Typed
  <2>3. \A h \in Handles : h \in fds <=>
          \/ h \in mapped
          \/ h \in {i \in I2C : Holds(i) # {}}
          \/ h \in {call[c].h : c \in {x \in Calls : pc[x] \in {"address", "insert"}}}
    BY DEF DevicesInv, FdsHeld, Held, Holds
  <2>4. fds = mapped \cup {h \in I2C : Holds(h) # {}}
                     \cup {call[c].h : c \in {x \in Calls : pc[x] \in {"address", "insert"}}}
    BY <2>1, <2>2, <2>3
  <2> QED
    BY <2>4 DEF DevicesInv, Closing, DescriptorsHeld
<1> QED
  BY <1>1, DevicesInductive, PTL

\* What the caller of a list is told: "ok" when every item was made, once and in order,
\* with an answer for each; an error when the items that were made are the first ones.
THEOREM CallerIsTold == DevicesSpec => []ToldAsMade
<1>1. DevicesInv => ToldAsMade
  BY DEF DevicesInv
<1> QED
  BY <1>1, DevicesInductive, PTL
=============================================================================
