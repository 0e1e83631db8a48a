----------------------------- MODULE GpioEvents -----------------------------
(***************************************************************************)
(* Value change events of GPIO pins: the per-client service of             *)
(* agent/subsys-gpio.cpp (handles), the registry of shared pin helpers     *)
(* (devices_), and agent/gpio-helper.cpp (connections_, the value file,    *)
(* the reactor handler and the strand that sends to the subscribers).      *)
(*                                                                         *)
(* The reactor is used through what it promises, EventDispatch.  A handle  *)
(* is driven by one thread at a time, as the client's gpio_impl drives it: *)
(* its pc is the thread that serves its current call.                      *)
(***************************************************************************)
EXTENDS Naturals, Sequences, FiniteSets

CONSTANTS Pins, Clients,
          Handles,        \* results of next_op_id, never used twice
          Helpers,        \* gpio_helper objects that may be created
          Fds,            \* descriptor numbers
          MaxEvents,      \* bound on the events the reactor dispatches
          NoClient, NoHandle, NoHelper, NoFd, Strand

ASSUME ConstantsAssumption ==
  /\ NoClient \notin Clients /\ NoHandle \notin Handles
  /\ NoHelper \notin Helpers /\ NoFd \notin Fds
  /\ Strand \notin Handles /\ Strand # NoHandle
  /\ MaxEvents \in Nat

VARIABLES
  online,   \* client_: the connections that cli.lock( ) still finds
  pc,       \* the call in progress on each handle, or its life
  owner,    \* the client a handle was opened by
  hOf,      \* gpio_: the helper a handle stands for
  glock,    \* gpio_lock_ of each client's gpio_impl, held by a close
  devices,  \* devices_: the helper last created for each pin
  fd,       \* value_fd_ of each helper
  arg,      \* the number a call passes to the reactor
  conns,    \* connections_ of each helper: the subscribed handles
  clock,    \* connections_lock_ of each helper
  file,     \* descriptor table: the helper that opened each number
  watched,  \* numbers in the reactor's epoll set
  reg,      \* the reactor's registrations
  firing,   \* the reactor's running callback
  queue,    \* disp_: posted send_to_all, helper and tick
  tick,     \* events dispatched so far
  last,     \* tick of the last event sent to each handle
  sub,      \* what each client was told of its register_for_change
  lost,     \* history: numbers that an overlapping open took from value_fd_
  crashed   \* the process was killed by a use of a destroyed helper

service == <<online, pc, owner, hOf, glock, sub, arg>>
helper == <<devices, fd, lost, conns, clock>>
kernel == <<file, watched>>
events == <<queue, tick, last>>
vars == <<service, helper, kernel, reg, firing, events, crashed>>

NotFiring == <<NoFd, NoHelper>>
Reactor == INSTANCE EventDispatch
             WITH Callbacks <- Helpers, NoCb <- NoHelper, Nothing <- NotFiring

Init ==
  /\ online = Clients
  /\ pc = [h \in Handles |-> "unused"]
  /\ owner = [h \in Handles |-> NoClient]
  /\ hOf = [h \in Handles |-> NoHelper]
  /\ glock = [c \in Clients |-> NoHandle]
  /\ devices = [p \in Pins |-> NoHelper]
  /\ fd = [x \in Helpers |-> NoFd] /\ lost = {}
  /\ arg = [h \in Handles |-> NoFd]
  /\ conns = [x \in Helpers |-> {}]
  /\ clock = [x \in Helpers |-> NoHandle]
  /\ file = [n \in Fds |-> NoHelper] /\ watched = {}
  /\ Reactor!Init
  /\ queue = << >> /\ tick = 0 /\ last = [h \in Handles |-> 0]
  /\ sub = [h \in Handles |-> "none"]
  /\ crashed = FALSE

\* A shared_ptr to helper x is held by a handle or by a call on it.
Holds(h, x) == hOf[h] = x /\ pc[h] \notin {"unused", "closed"}
Alive(x) == \E h \in Handles : Holds(h, x)

Goto(h, label) == pc' = [pc EXCEPT ![h] = label]
Close(n) == /\ file' = [file EXCEPT ![n] = NoHelper]
            /\ watched' = watched \ {n}

(***************************************************************************)
(* open: find or create the pin's helper, then open its value file unless  *)
(* value_fd_ is set.  The check and the assignment take no lock: an open   *)
(* that overlaps takes the place of the number another call has stored.    *)
(***************************************************************************)
OpenPin(h, c, p) ==
  /\ pc[h] = "unused" /\ c \in online
  /\ owner' = [owner EXCEPT ![h] = c]
  /\ Goto(h, "opening")
  /\ \/ /\ devices[p] # NoHelper /\ Alive(devices[p])
        /\ hOf' = [hOf EXCEPT ![h] = devices[p]]
        /\ UNCHANGED devices
     \/ /\ devices[p] = NoHelper \/ ~Alive(devices[p])
        /\ \E x \in Helpers :
             /\ \A k \in Handles : hOf[k] # x
             /\ hOf' = [hOf EXCEPT ![h] = x]
             /\ devices' = [devices EXCEPT ![p] = x]
  /\ UNCHANGED <<online, glock, sub, arg, fd, lost, conns, clock, kernel, reg, firing, events, crashed>>

OpenShared(h) ==
  /\ pc[h] = "opening" /\ fd[hOf[h]] # NoFd
  /\ Goto(h, "idle")
  /\ UNCHANGED <<online, owner, hOf, glock, sub, arg, helper, kernel, reg, firing, events, crashed>>

OpenChecked(h) ==
  /\ pc[h] = "opening" /\ fd[hOf[h]] = NoFd
  /\ Goto(h, "openValue")
  /\ UNCHANGED <<online, owner, hOf, glock, sub, arg, helper, kernel, reg, firing, events, crashed>>

OpenValue(h, n) ==
  /\ pc[h] = "openValue" /\ file[n] = NoHelper
  /\ file' = [file EXCEPT ![n] = hOf[h]]
  /\ fd' = [fd EXCEPT ![hOf[h]] = n]
  /\ lost' = IF fd[hOf[h]] \in {NoFd, n} THEN lost ELSE lost \cup {<<fd[hOf[h]], hOf[h]>>}
  /\ Goto(h, "idle")
  /\ UNCHANGED <<online, owner, hOf, glock, sub, arg, devices, conns, clock, watched, reg, firing, events, crashed>>

\* The last reference goes: ~impl closes value_fd_, whatever it is by now.
Release(h) ==
  /\ Goto(h, "closed")
  /\ LET x == hOf[h] IN
     IF (\A k \in Handles \ {h} : ~Holds(k, x)) /\ fd[x] # NoFd
       THEN Close(fd[x])
       ELSE UNCHANGED kernel

\* Exporting, setting up or opening the value file throws.
OpenFails(h) ==
  /\ pc[h] \in {"opening", "openValue"}
  /\ Release(h)
  /\ UNCHANGED <<online, owner, hOf, glock, sub, arg, helper, reg, firing, events, crashed>>

(***************************************************************************)
(* register_for_change.                                                    *)
(***************************************************************************)
\* gpio_by_index waits for gpio_lock_ and releases it.
Begin(h, label) ==
  /\ pc[h] = "idle"
  /\ owner[h] \in online /\ glock[owner[h]] = NoHandle
  /\ Goto(h, label)

RegisterBegin(h) ==
  /\ Begin(h, "regWait")
  /\ sub' = [sub EXCEPT ![h] = "asked"]
  /\ UNCHANGED <<online, owner, hOf, glock, arg, helper, kernel, reg, firing, events, crashed>>

AddConnection(h) == conns' = [conns EXCEPT ![hOf[h]] = @ \cup {h}]
Lock(h) == clock' = [clock EXCEPT ![hOf[h]] = h]
Unlock(h) == clock' = [clock EXCEPT ![hOf[h]] = NoHandle]
Pass(h, n) == arg' = [arg EXCEPT ![h] = n]
Granted(h) == sub' = [sub EXCEPT ![h] = "granted"]

\* Others are subscribed: the pin is taken to be in the reactor.
RegisterShared(h) ==
  /\ pc[h] = "regWait" /\ clock[hOf[h]] = NoHandle /\ conns[hOf[h]] # {}
  /\ AddConnection(h)
  /\ Granted(h)
  /\ Goto(h, "idle")
  /\ UNCHANGED <<online, owner, hOf, glock, arg, devices, fd, lost, clock, kernel, reg, firing, events, crashed>>

\* The first subscriber: add_fd is called with connections_lock_ held, with
\* the number value_fd( ) returns by now.
RegisterFirst(h) ==
  /\ pc[h] = "regWait" /\ clock[hOf[h]] = NoHandle /\ conns[hOf[h]] = {}
  /\ AddConnection(h)
  /\ Lock(h) /\ Pass(h, fd[hOf[h]])
  /\ Goto(h, "addFd")
  /\ UNCHANGED <<online, owner, hOf, glock, sub, devices, fd, lost, kernel, reg, firing, events, crashed>>

AddFd(h) ==
  LET x == hOf[h]  n == arg[h] IN
  /\ pc[h] = "addFd"
  /\ Reactor!Register(n, x)
  /\ \/ /\ reg[n] = NoHelper /\ file[n] # NoHelper \* EPOLL_CTL_ADD
        /\ watched' = watched \cup {n}
        /\ Granted(h)
     \/ /\ reg[n] # NoHelper /\ n \in watched     \* EPOLL_CTL_MOD
        /\ Granted(h)
        /\ UNCHANGED watched
     \/ /\ reg[n] # NoHelper /\ n \notin watched  \* EPOLL_CTL_MOD throws
        /\ UNCHANGED <<sub, watched>>
  /\ Unlock(h) /\ Pass(h, NoFd)
  /\ Goto(h, "idle")
  /\ UNCHANGED <<online, owner, hOf, glock, devices, fd, lost, conns, file, events, crashed>>

\* EPOLL_CTL_ADD fails (the number is closed, or cannot be watched): the new
\* reaction closes it, add_fd throws, and the connection stays behind.
AddFdFails(h) ==
  LET n == arg[h] IN
  /\ pc[h] = "addFd" /\ firing = NotFiring /\ reg[n] = NoHelper
  /\ Close(n)
  /\ Unlock(h) /\ Pass(h, NoFd)
  /\ Goto(h, "idle")
  /\ UNCHANGED <<online, owner, hOf, glock, sub, devices, fd, lost, conns, reg, firing, events, crashed>>

(***************************************************************************)
(* unregister, close and the destructor of the client's gpio_impl all call *)
(* del_reactor_action: it leaves connections_, and whoever leaves it empty *)
(* calls del_fd with connections_lock_ held.                               *)
(***************************************************************************)
UnregisterBegin(h) ==
  /\ Begin(h, "unregWait")
  /\ UNCHANGED <<online, owner, hOf, glock, sub, arg, helper, kernel, reg, firing, events, crashed>>

\* close keeps gpio_lock_ until it returns.
CloseBegin(h) ==
  /\ Begin(h, "closeWait")
  /\ glock' = [glock EXCEPT ![owner[h]] = h]
  /\ UNCHANGED <<online, owner, hOf, sub, arg, helper, kernel, reg, firing, events, crashed>>

\* The connection is lost: from now on cli.lock( ) fails.
Disconnect(c) ==
  /\ c \in online
  /\ online' = online \ {c}
  /\ UNCHANGED <<pc, owner, hOf, glock, sub, arg, helper, kernel, reg, firing, events, crashed>>

HandlesOf(c) == {h \in Handles : owner[h] = c /\ pc[h] # "closed"}
Rest == {"idle", "dropped"}

\* Mutant: the destructor does not delete the reactor actions.
DropBeginSkips(h) ==
  /\ pc[h] = "idle" /\ owner[h] \notin online
  /\ \A k \in HandlesOf(owner[h]) : pc[k] \in Rest
  /\ Goto(h, "dropped")
  /\ UNCHANGED <<online, owner, hOf, glock, sub, arg, helper, kernel, reg, firing, events, crashed>>

\* ~gpio_impl, when no call of the client is in progress, one handle at a time.
DropBegin(h) ==
  /\ pc[h] = "idle" /\ owner[h] \notin online
  /\ \A k \in HandlesOf(owner[h]) : pc[k] \in Rest
  /\ Goto(h, "closeWait")
  /\ UNCHANGED <<online, owner, hOf, glock, sub, arg, helper, kernel, reg, firing, events, crashed>>

Leaving(h) == pc[h] \in {"unregWait", "closeWait"}
AfterLeave(h) == IF pc[h] \in {"unregWait", "unregDel"} THEN "idle" ELSE "closeEnd"
DelConnection(h) == conns' = [conns EXCEPT ![hOf[h]] = @ \ {h}]
Forget(h) == sub' = [sub EXCEPT ![h] = "none"]

LeaveOthers(h) ==
  /\ Leaving(h) /\ clock[hOf[h]] = NoHandle /\ conns[hOf[h]] \ {h} # {}
  /\ DelConnection(h)
  /\ Forget(h)
  /\ Goto(h, AfterLeave(h))
  /\ UNCHANGED <<online, owner, hOf, glock, arg, devices, fd, lost, clock, kernel, reg, firing, events, crashed>>

\* Mutant: del_fd is left out when the handle was not in connections_.
LeaveLastIfMember(h) ==
  LET x == hOf[h] IN
  /\ Leaving(h) /\ clock[x] = NoHandle /\ conns[x] \ {h} = {}
  /\ DelConnection(h)
  /\ IF h \in conns[x]
       THEN /\ Lock(h) /\ Pass(h, fd[x])
            /\ watched' = watched \ {fd[x]}
            /\ Goto(h, IF pc[h] = "unregWait" THEN "unregDel" ELSE "closeDel")
       ELSE /\ Goto(h, AfterLeave(h))
            /\ UNCHANGED <<arg, clock, watched>>
  /\ UNCHANGED <<online, owner, hOf, glock, sub, devices, fd, lost, file, reg, firing, events, crashed>>

\* del_fd takes the number out of epoll, then waits for the reactor.
LeaveLast(h) ==
  LET x == hOf[h] IN
  /\ Leaving(h) /\ clock[x] = NoHandle /\ conns[x] \ {h} = {}
  /\ DelConnection(h)
  /\ Lock(h) /\ Pass(h, fd[x])
  /\ watched' = watched \ {fd[x]}
  /\ Goto(h, IF pc[h] = "unregWait" THEN "unregDel" ELSE "closeDel")
  /\ UNCHANGED <<online, owner, hOf, glock, sub, devices, fd, lost, file, reg, firing, events, crashed>>

\* An entry that is erased closes its number; value_fd_ keeps it.
DelFd(h) ==
  LET n == arg[h] IN
  /\ pc[h] \in {"unregDel", "closeDel"}
  /\ Reactor!Unregister(n)
  /\ IF reg[n] # NoHelper THEN Close(n) ELSE UNCHANGED kernel
  /\ Unlock(h) /\ Pass(h, NoFd)
  /\ Forget(h)
  /\ Goto(h, AfterLeave(h))
  /\ UNCHANGED <<online, owner, hOf, glock, devices, fd, lost, conns, events, crashed>>

\* gpio_.erase, by a close that holds gpio_lock_.
CloseEnd(h) ==
  /\ pc[h] = "closeEnd" /\ glock[owner[h]] = h
  /\ glock' = [glock EXCEPT ![owner[h]] = NoHandle]
  /\ Release(h)
  /\ UNCHANGED <<online, owner, hOf, sub, arg, helper, reg, firing, events, crashed>>

\* The destructor goes on to the next handle, and then destroys the map.
DropEnd(h) ==
  /\ pc[h] = "closeEnd" /\ glock[owner[h]] # h
  /\ Goto(h, "dropped")
  /\ UNCHANGED <<online, owner, hOf, glock, sub, arg, helper, kernel, reg, firing, events, crashed>>

DropMap(h) ==
  /\ pc[h] = "dropped"
  /\ \A k \in HandlesOf(owner[h]) : pc[k] = "dropped"
  /\ Release(h)
  /\ UNCHANGED <<online, owner, hOf, glock, sub, arg, helper, reg, firing, events, crashed>>

(***************************************************************************)
(* The reactor thread: reactor_handler, with react_lock_ held.             *)
(***************************************************************************)
Event(n) ==
  /\ tick < MaxEvents
  /\ Reactor!Fire(n)
  /\ tick' = tick + 1
  /\ UNCHANGED <<service, helper, kernel, queue, last, crashed>>

\* Mutant: posted to the pool, where a later event may overtake.
HandlerPostsUnordered ==
  LET x == firing[2] IN
  /\ Reactor!Keep /\ Alive(x)
  /\ conns[x] # {} /\ file[fd[x]] # NoHelper
  /\ queue' = <<<<x, tick>>>> \o queue
  /\ UNCHANGED <<service, helper, kernel, tick, last, crashed>>

\* connections_.empty( ) is read without its lock.
HandlerPosts ==
  LET x == firing[2] IN
  /\ Reactor!Keep /\ Alive(x)
  /\ conns[x] # {} /\ file[fd[x]] # NoHelper
  /\ queue' = Append(queue, <<x, tick>>)
  /\ UNCHANGED <<service, helper, kernel, tick, last, crashed>>

\* Nobody is subscribed, or the value cannot be read (the pin was unexported).
HandlerRefuses ==
  /\ Reactor!Drop /\ Alive(firing[2])
  /\ Close(firing[1])
  /\ UNCHANGED <<service, helper, events, crashed>>

\* The handler's this is gone: it may find anything there, or kill the process.
HandlerDestroyed ==
  /\ firing # NotFiring /\ ~Alive(firing[2])
  /\ \/ crashed' = TRUE /\ UNCHANGED <<reg, firing, queue, kernel>>
     \/ Reactor!Keep /\ queue' = Append(queue, <<firing[2], tick>>) /\ UNCHANGED <<kernel, crashed>>
     \/ Reactor!Drop /\ Close(firing[1]) /\ UNCHANGED <<queue, crashed>>
  /\ UNCHANGED <<service, helper, tick, last>>

\* Mutant: connections_.empty( ) is read with connections_lock_ held.
HandlerLocks == firing # NotFiring /\ clock[firing[2]] = NoHandle /\ (HandlerPosts \/ HandlerRefuses \/ HandlerDestroyed)

Handler == HandlerPosts \/ HandlerRefuses \/ HandlerDestroyed

(***************************************************************************)
(* The strand: send_to_all, with connections_lock_ held.                   *)
(***************************************************************************)
Target == Head(queue)[1]

SendBegin ==
  /\ queue # << >> /\ Alive(Target) /\ clock[Target] = NoHandle
  /\ clock' = [clock EXCEPT ![Target] = Strand]
  /\ UNCHANGED <<service, devices, fd, lost, conns, kernel, reg, firing, events, crashed>>

\* Subscribers whose connection is gone are erased.
SendEnd ==
  /\ queue # << >> /\ clock[Target] = Strand
  /\ LET reached == {h \in conns[Target] : owner[h] \in online} IN
     /\ conns' = [conns EXCEPT ![Target] = reached]
     /\ last' = [h \in Handles |-> IF h \in reached THEN Head(queue)[2] ELSE last[h]]
  /\ clock' = [clock EXCEPT ![Target] = NoHandle]
  /\ queue' = Tail(queue)
  /\ UNCHANGED <<service, devices, fd, lost, kernel, reg, firing, tick, crashed>>

\* The posted this is gone: what it finds there may be nothing, or kill it.
SendDestroyed ==
  /\ queue # << >> /\ ~Alive(Target)
  /\ queue' = Tail(queue)
  /\ crashed' \in BOOLEAN
  /\ UNCHANGED <<service, helper, kernel, reg, firing, tick, last>>

CallStep(h) ==
  \/ OpenShared(h) \/ OpenChecked(h) \/ OpenFails(h) \/ \E n \in Fds : OpenValue(h, n)
  \/ RegisterShared(h) \/ RegisterFirst(h) \/ AddFd(h) \/ AddFdFails(h)
  \/ LeaveOthers(h) \/ LeaveLast(h) \/ DelFd(h) \/ CloseEnd(h) \/ DropEnd(h) \/ DropMap(h)
StrandStep == SendBegin \/ SendEnd \/ SendDestroyed

Next ==
  /\ ~crashed
  /\ \/ \E h \in Handles, c \in Clients, p \in Pins : OpenPin(h, c, p)
     \/ \E h \in Handles : RegisterBegin(h) \/ UnregisterBegin(h) \/ CloseBegin(h)
                           \/ DropBegin(h) \/ CallStep(h)
     \/ \E c \in Clients : Disconnect(c)
     \/ \E n \in Fds : Event(n)
     \/ Handler
     \/ StrandStep

Spec == Init /\ [][Next]_vars

\* Threads run; one that waits for a lock is not passed over for ever.
Fairness ==
  /\ \A h \in Handles : SF_vars(~crashed /\ CallStep(h))
  /\ WF_vars(~crashed /\ Handler)
  /\ SF_vars(~crashed /\ StrandStep)
FairSpec == Spec /\ Fairness

-----------------------------------------------------------------------------
(***************************************************************************)
(* Properties.                                                             *)
(***************************************************************************)
Opened == {"idle", "regWait", "addFd", "unregWait", "unregDel",
           "closeWait", "closeDel", "closeEnd", "dropped"}
Passing == {"addFd", "unregDel", "closeDel"}
Calls == {"opening", "openValue", "regWait", "addFd", "unregWait", "unregDel",
          "closeWait", "closeDel", "closeEnd"}

TypeOK ==
  /\ online \in SUBSET Clients
  /\ pc \in [Handles -> Opened \cup {"unused", "opening", "openValue", "closed"}]
  /\ owner \in [Handles -> Clients \cup {NoClient}]
  /\ hOf \in [Handles -> Helpers \cup {NoHelper}]
  /\ glock \in [Clients -> Handles \cup {NoHandle}]
  /\ devices \in [Pins -> Helpers \cup {NoHelper}]
  /\ fd \in [Helpers -> Fds \cup {NoFd}]
  /\ arg \in [Handles -> Fds \cup {NoFd}]
  /\ lost \in SUBSET (Fds \X Helpers)
  /\ conns \in [Helpers -> SUBSET Handles]
  /\ clock \in [Helpers -> Handles \cup {NoHandle, Strand}]
  /\ file \in [Fds -> Helpers \cup {NoHelper}]
  /\ watched \in SUBSET Fds
  /\ reg \in [Fds -> Helpers \cup {NoHelper}]
  /\ firing \in (Fds \X Helpers) \cup {NotFiring}
  /\ tick \in 0..MaxEvents
  /\ queue \in Seq(Helpers \X (1..MaxEvents))
  /\ last \in [Handles -> 0..MaxEvents]
  /\ sub \in [Handles -> {"none", "asked", "granted"}]
  /\ crashed \in BOOLEAN
  /\ \A h \in Handles :
       /\ pc[h] = "unused" <=> hOf[h] = NoHelper
       /\ pc[h] = "unused" <=> owner[h] = NoClient
       /\ pc[h] \in Opened => fd[hOf[h]] \in Fds
       /\ pc[h] \in Passing => arg[h] \in Fds

\* connections_ holds callbacks bound to a raw gpio_impl: each belongs to a
\* handle that is still open, and on this helper, through every order of
\* close, disconnect and destruction.
SubscribersAreOpen ==
  \A x \in Helpers : \A h \in conns[x] :
     hOf[h] = x /\ pc[h] \notin {"unused", "opening", "openValue", "dropped", "closed"}

\* reactor_handler is bound to a raw helper: while the reactor can call it the
\* helper exists, even where dead subscribers were erased by the strand, and
\* where a closed number was reopened by another helper and registered again.
\* The only handlers that outlive their helper are those registered under a
\* number that an overlapping open of the pin has replaced in value_fd_, for
\* no later del_fd can name it.
HandlerOfLiveHelper ==
  /\ \A n \in Fds :
       reg[n] # NoHelper => (Alive(reg[n]) /\ fd[reg[n]] = n) \/ <<n, reg[n]>> \in lost
  /\ firing # NotFiring => Alive(firing[2]) \/ firing \in lost

\* An event is sent only to a handle whose client has asked for events and has
\* not been told that they stopped, and events reach it in their order.
SentAsSubscribed ==
  [][\A h \in Handles : last'[h] # last[h] => sub[h] # "none" /\ last'[h] > last[h]]_vars

\* Every call returns: gpio_lock_, connections_lock_ and react_lock_ are never
\* waited for in a circle by calls, the reactor thread and the strand.
CallsReturn == \A h \in Handles : (pc[h] \in Calls) ~> (pc[h] \notin Calls \/ crashed)

\* Two things that the code does not do, each broken in a few steps.
\*
\* gpio-helper.cpp:220, "reactor runs handler; handler runs user's callback":
\* what the handler posts runs on a helper that exists.
PostedHelperExists == \A i \in DOMAIN queue : Alive(queue[i][1])

\* gpio.proto:93, register_for_change is the "change value signal": a handle
\* whose registration was answered is on a helper that the reactor watches.
GrantedIsWatched ==
  \A h \in Handles :
    (sub[h] = "granted" /\ pc[h] = "idle") => reg[fd[hOf[h]]] = hOf[h]
=============================================================================
