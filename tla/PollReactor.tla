---------------------------- MODULE PollReactor ----------------------------
(***************************************************************************)
(* The agent's event reactor: agent/poll-reactor.cpp (the epoll set and    *)
(* the react_ map under react_lock_) driven by the thread and the start    *)
(* and stop of agent/subsys-reactor.cpp.  Any number of RPC threads add    *)
(* and delete descriptors while the reactor thread waits, dispatches and   *)
(* stops.  The kernel side is the descriptor table (open), the epoll set   *)
(* (interest) and the events not yet returned by epoll_wait (ready).       *)
(***************************************************************************)
EXTENDS Naturals, FiniteSets

CONSTANTS Fds,          \* descriptor numbers the kernel hands out
          Threads,      \* threads of the agent's pools, calling add_fd, del_fd
          Callbacks,    \* reaction_callback objects
          SelfDeleting, \* callbacks that call the reactor's own del_fd
          NoCb, NoFd,   \* no registration, no descriptor
          Reactor, Free \* the owners of react_lock_ that are no pool thread

ASSUME ConstantsAssumption ==
  /\ SelfDeleting \subseteq Callbacks
  /\ NoCb \notin Callbacks
  /\ NoFd \notin Fds
  /\ Reactor \notin Threads /\ Free \notin Threads /\ Reactor # Free

VARIABLES
  open,      \* descriptors that are open in the process
  interest,  \* poll_fd_: the descriptors in the epoll set
  ready,     \* watched descriptors with an event epoll_wait has not returned
  lost,      \* closed by their owner since they were last added to epoll
  react,     \* react_: the callback of each registered descriptor
  lock,      \* react_lock_
  pc,        \* where each pool thread is in add_fd or del_fd
  arg,       \* ... the fd it was called with
  cbArg,     \* ... the cb it was called with
  phase,     \* where the reactor thread is in run_one
  cur,       \* rcvd.data.fd of the event being dispatched
  running,   \* the callback being called
  life,      \* thread_: off, on, or stop_thread waiting in join
  stopReady  \* stop_event_ has an event epoll_wait has not returned

kernel == <<open, interest, ready, lost>>
client == <<pc, arg, cbArg>>
worker == <<phase, cur, running>>
vars == <<kernel, react, lock, client, worker, life, stopReady>>

Registered(fd) == react[fd] # NoCb

Init ==
  /\ open = {} /\ interest = {} /\ ready = {} /\ lost = {}
  /\ react = [fd \in Fds |-> NoCb]
  /\ lock = Free
  /\ pc = [t \in Threads |-> "idle"]
  /\ arg = [t \in Threads |-> NoFd]
  /\ cbArg = [t \in Threads |-> NoCb]
  /\ phase = "off" /\ cur = NoFd /\ running = NoCb
  /\ life = "off" /\ stopReady = FALSE

(***************************************************************************)
(* The kernel.  close() takes a descriptor out of the epoll set with it.   *)
(***************************************************************************)
Close(fd) ==
  /\ open' = open \ {fd}
  /\ interest' = interest \ {fd}
  /\ ready' = ready \ {fd}

EpollDel(fd) ==
  /\ interest' = interest \ {fd}
  /\ ready' = ready \ {fd}

\* open() of a device, a file or a value file of a pin.
OpenFd(fd) ==
  /\ fd \notin open
  /\ open' = open \cup {fd}
  /\ UNCHANGED <<interest, ready, lost, react, lock, client, worker, life, stopReady>>

\* The destructor of the owner (gpio_helper, file::impl) closes a descriptor
\* that may still be registered.
OwnerClose(fd) ==
  /\ fd \in open
  /\ Close(fd)
  /\ lost' = lost \cup {fd}
  /\ UNCHANGED <<react, lock, client, worker, life, stopReady>>

KernelEvent(fd) ==
  /\ fd \in interest \ ready
  /\ ready' = ready \cup {fd}
  /\ UNCHANGED <<open, interest, lost, react, lock, client, worker, life, stopReady>>

(***************************************************************************)
(* add_fd, called by a pool thread.                                        *)
(***************************************************************************)
Goto(t, label) == pc' = [pc EXCEPT ![t] = label]

Return(t) ==
  /\ Goto(t, "idle")
  /\ arg' = [arg EXCEPT ![t] = NoFd]
  /\ cbArg' = [cbArg EXCEPT ![t] = NoCb]

AddLock(t, fd, cb) ==
  /\ pc[t] = "idle" /\ lock = Free
  /\ lock' = t
  /\ Goto(t, "addCtl")
  /\ arg' = [arg EXCEPT ![t] = fd]
  /\ cbArg' = [cbArg EXCEPT ![t] = cb]
  /\ UNCHANGED <<kernel, react, worker, life, stopReady>>

\* Not in react_ and EPOLL_CTL_ADD succeeds.
AddNew(t) ==
  /\ pc[t] = "addCtl" /\ ~Registered(arg[t])
  /\ arg[t] \in open \ interest
  /\ interest' = interest \cup {arg[t]}
  /\ lost' = lost \ {arg[t]}
  /\ Goto(t, "addInsert")
  /\ UNCHANGED <<open, ready, react, lock, arg, cbArg, worker, life, stopReady>>

\* Mutant: the error path of add_fd does not unlock.
AddFailsLocked(t) ==
  /\ pc[t] = "addCtl" /\ ~Registered(arg[t])
  /\ Close(arg[t])
  /\ Return(t)
  /\ UNCHANGED <<lost, react, lock, worker, life, stopReady>>

\* EPOLL_CTL_ADD fails (EBADF, EEXIST, or EPERM for a file that cannot be
\* polled): errno_assert throws, and new_react, which owns a file_keeper,
\* closes the descriptor on the way out.
AddFails(t) ==
  /\ pc[t] = "addCtl" /\ ~Registered(arg[t])
  /\ Close(arg[t])
  /\ lock' = Free
  /\ Return(t)
  /\ UNCHANGED <<lost, react, worker, life, stopReady>>

AddInsert(t) ==
  /\ pc[t] = "addInsert"
  /\ react' = [react EXCEPT ![arg[t]] = cbArg[t]]
  /\ lock' = Free
  /\ Return(t)
  /\ UNCHANGED <<kernel, worker, life, stopReady>>

\* Already in react_: call_ is replaced first, so it is replaced even when
\* EPOLL_CTL_MOD then fails and add_fd throws.
AddModify(t) ==
  /\ pc[t] = "addCtl" /\ Registered(arg[t])
  /\ react' = [react EXCEPT ![arg[t]] = cbArg[t]]
  /\ lock' = Free
  /\ Return(t)
  /\ UNCHANGED <<kernel, worker, life, stopReady>>

(***************************************************************************)
(* del_fd, called by a pool thread: EPOLL_CTL_DEL before react_lock_.      *)
(***************************************************************************)
DelCtl(t, fd) ==
  /\ pc[t] = "idle"
  /\ EpollDel(fd)
  /\ Goto(t, "delErase")
  /\ arg' = [arg EXCEPT ![t] = fd]
  /\ UNCHANGED <<open, lost, react, lock, cbArg, worker, life, stopReady>>

\* react_.erase: the entry's file_keeper closes the descriptor.
Erase(fd) ==
  /\ react' = [react EXCEPT ![fd] = NoCb]
  /\ IF Registered(fd) THEN Close(fd) ELSE UNCHANGED <<open, interest, ready>>
  /\ UNCHANGED lost

\* Mutant: the entry does not own its descriptor, so erasing closes nothing.
DelEraseLeavesOpen(t) ==
  /\ pc[t] = "delErase" /\ lock = Free
  /\ react' = [react EXCEPT ![arg[t]] = NoCb]
  /\ Return(t)
  /\ UNCHANGED <<kernel, lock, worker, life, stopReady>>

DelErase(t) ==
  /\ pc[t] = "delErase" /\ lock = Free
  /\ Erase(arg[t])
  /\ Return(t)
  /\ UNCHANGED <<lock, worker, life, stopReady>>

(***************************************************************************)
(* The reactor thread: run_one and make_callback.                          *)
(***************************************************************************)
EpollReturn(fd) ==
  /\ phase = "wait" /\ fd \in ready
  /\ ready' = ready \ {fd}
  /\ phase' = "dispatch" /\ cur' = fd
  /\ UNCHANGED <<open, interest, lost, react, lock, client, running, life, stopReady>>

\* The stop event: run_one returns 0 and reactor_thread returns.
StopReturn ==
  /\ phase = "wait" /\ stopReady
  /\ stopReady' = FALSE
  /\ phase' = "exited"
  /\ UNCHANGED <<kernel, react, lock, client, cur, running, life>>

\* Mutant: the callback is looked up under the lock, and called after it.
DispatchFoundUnlocks ==
  /\ phase = "dispatch" /\ lock = Free /\ Registered(cur)
  /\ phase' = "calling" /\ running' = react[cur]
  /\ UNCHANGED <<kernel, react, lock, client, cur, life, stopReady>>

\* The fd is looked up again under the lock: whoever is registered by now.
DispatchFound ==
  /\ phase = "dispatch" /\ lock = Free /\ Registered(cur)
  /\ lock' = Reactor
  /\ phase' = "calling" /\ running' = react[cur]
  /\ UNCHANGED <<kernel, react, client, cur, life, stopReady>>

DispatchNotFound ==
  /\ phase = "dispatch" /\ lock = Free /\ ~Registered(cur)
  /\ EpollDel(cur)
  /\ phase' = "wait" /\ cur' = NoFd
  /\ UNCHANGED <<open, lost, react, lock, client, running, life, stopReady>>

BackToWait ==
  /\ lock' = Free
  /\ phase' = "wait" /\ cur' = NoFd /\ running' = NoCb

\* The callback returns true, or throws (reactor_thread logs and goes on).
CallbackKeeps ==
  /\ phase = "calling"
  /\ BackToWait
  /\ UNCHANGED <<kernel, react, client, life, stopReady>>

\* The callback returns false: del_fd_unsafe under the lock already held.
CallbackDrops ==
  /\ phase = "calling"
  /\ Erase(cur)
  /\ BackToWait
  /\ UNCHANGED <<client, life, stopReady>>

\* The callback calls del_fd for its own descriptor: EPOLL_CTL_DEL, then it
\* waits for the non-recursive react_lock_ that its own thread holds.
CallbackSelfDeletes ==
  /\ phase = "calling" /\ running \in SelfDeleting
  /\ EpollDel(cur)
  /\ phase' = "stuck"
  /\ UNCHANGED <<open, lost, react, lock, client, cur, running, life, stopReady>>

(***************************************************************************)
(* start_thread and stop_thread of subsys-reactor.cpp.                     *)
(***************************************************************************)
StartThread ==
  /\ life = "off"
  /\ life' = "on" /\ phase' = "wait"
  /\ UNCHANGED <<kernel, react, lock, client, cur, running, stopReady>>

\* Mutant: the stop event is a notification only a waiting thread can see.
StopThreadNotifies ==
  /\ life = "on"
  /\ life' = "joining" /\ stopReady' = (phase = "wait")
  /\ UNCHANGED <<kernel, react, lock, client, worker>>

StopThread ==
  /\ life = "on"
  /\ life' = "joining" /\ stopReady' = TRUE
  /\ UNCHANGED <<kernel, react, lock, client, worker>>

Join ==
  /\ life = "joining" /\ phase = "exited"
  /\ life' = "off" /\ phase' = "off"
  /\ UNCHANGED <<kernel, react, lock, client, cur, running, stopReady>>

ClientStep(t) ==
  \/ AddNew(t) \/ AddFails(t) \/ AddInsert(t) \/ AddModify(t) \/ DelErase(t)

ReactorStep ==
  \/ StopReturn \/ DispatchFound \/ DispatchNotFound
  \/ CallbackKeeps \/ CallbackDrops \/ CallbackSelfDeletes

Next ==
  \/ \E fd \in Fds : OpenFd(fd) \/ OwnerClose(fd) \/ KernelEvent(fd) \/ EpollReturn(fd)
  \/ \E t \in Threads, fd \in Fds, cb \in Callbacks : AddLock(t, fd, cb)
  \/ \E t \in Threads, fd \in Fds : DelCtl(t, fd)
  \/ \E t \in Threads : ClientStep(t)
  \/ ReactorStep
  \/ StartThread \/ StopThread \/ Join

\* A thread that can run does; a thread waiting for react_lock_, and an event
\* in the kernel's first-in first-out ready list, is not passed over for ever.
Fairness ==
  /\ \A t \in Threads : SF_vars(ClientStep(t))
  /\ \A fd \in Fds : SF_vars(EpollReturn(fd))
  /\ SF_vars(StopReturn)
  /\ SF_vars(DispatchFound \/ DispatchNotFound)
  /\ WF_vars(CallbackKeeps \/ CallbackDrops \/ CallbackSelfDeletes)
  /\ WF_vars(Join)

Spec == Init /\ [][Next]_vars
FairSpec == Spec /\ Fairness
-----------------------------------------------------------------------------
(***************************************************************************)
(* Properties.                                                             *)
(***************************************************************************)
TypeOK ==
  /\ open \in SUBSET Fds /\ interest \in SUBSET Fds
  /\ ready \in SUBSET Fds /\ lost \in SUBSET Fds
  /\ react \in [Fds -> Callbacks \cup {NoCb}]
  /\ lock \in Threads \cup {Reactor, Free}
  /\ pc \in [Threads -> {"idle", "addCtl", "addInsert", "delErase"}]
  /\ arg \in [Threads -> Fds \cup {NoFd}]
  /\ cbArg \in [Threads -> Callbacks \cup {NoCb}]
  /\ phase \in {"off", "wait", "dispatch", "calling", "stuck", "exited"}
  /\ cur \in IF phase \in {"dispatch", "calling", "stuck"} THEN Fds ELSE {NoFd}
  /\ running \in IF phase \in {"calling", "stuck"} THEN Callbacks ELSE {NoCb}
  /\ life \in {"off", "on", "joining"}
  /\ stopReady \in BOOLEAN

Adding(fd) == \E t \in Threads : pc[t] = "addInsert" /\ arg[t] = fd
Deleting(fd) == \E t \in Threads : pc[t] = "delErase" /\ arg[t] = fd

\* No orphan: a descriptor in the epoll set is in react_, or is about to be
\* put there by the thread that holds the lock, however add_fd, del_fd (whose
\* epoll_ctl runs outside the lock) and callbacks that return false interleave.
\* An orphan would be an event that make_callback can only throw away.
NoOrphanWatch == \A fd \in interest : Registered(fd) \/ Adding(fd)

\* No dead registration: a descriptor in react_ is in the epoll set, except
\* where its owner closed the number under the reactor, or a del_fd that has
\* done its epoll_ctl is on its way to erase the entry.
WatchedUnlessLost ==
  \A fd \in Fds : Registered(fd) =>
     fd \in interest \/ fd \in lost \/ Deleting(fd) \/ (phase = "stuck" /\ cur = fd)

\* react_ and the epoll set agree, but for what a thread has in hand.
EpollAgrees == NoOrphanWatch /\ WatchedUnlessLost

\* make_callback calls through an iterator into react_: while the callback
\* runs, its entry is still there, unchanged, whatever the pool threads do.
CallbackIsRegistered ==
  phase \in {"calling", "stuck"} => lock = Reactor /\ react[cur] = running

\* The reactor keeps its promise to those who register with it: see
\* EventDispatch.  A running callback is one that cur names, the rest of the
\* dispatch (the wait for react_lock_) is invisible.
NotFiring == <<NoFd, NoCb>>
Firing == IF phase \in {"calling", "stuck"} THEN <<cur, running>> ELSE NotFiring
Dispatch == INSTANCE EventDispatch
              WITH Nothing <- NotFiring, reg <- react, firing <- Firing
ImplementsDispatch == Dispatch!Spec

\* stop_thread returns: once it has written stop_event_ the reactor thread
\* gets to see it, behind any event, callback or lock, and the join ends,
\* unless a callback deleted its own descriptor and waits for itself.
StopCompletes == (life = "joining") ~> (life = "off" \/ phase = "stuck")

\* An event of a watched descriptor is taken up, unless the reactor is being
\* stopped first: no dispatch blocks for ever on the pool threads' locking,
\* but for that same wait.
EventHandled ==
  \A fd \in Fds : (fd \in ready /\ life = "on")
                     ~> (fd \notin ready \/ life # "on" \/ phase = "stuck")
=============================================================================
