------------------------- MODULE PollReactorProofs -------------------------
(***************************************************************************)
(* Theorems about PollReactor, for any set of descriptors, pool threads    *)
(* and callbacks.  The inductive invariant is IInv: the type invariant,    *)
(* who may hold react_lock_ (Locking), and the two halves of the agreement *)
(* between react_ and the epoll set (NoOrphanWatch, and WatchedUnlessLost  *)
(* extended to the entry that add_fd is about to insert).                  *)
(***************************************************************************)
EXTENDS PollReactor, TLAPS

\* react_lock_ is held exactly inside add_fd and during a callback; arguments
\* are set while a call is in progress; add_fd inserts only what is not there;
\* the reactor thread exists exactly when thread_ does.
Locking ==
  /\ \A t \in Threads :
       /\ pc[t] \in {"addCtl", "addInsert"} <=> lock = t
       /\ pc[t] # "idle" => arg[t] \in Fds
       /\ pc[t] \in {"addCtl", "addInsert"} => cbArg[t] \in Callbacks
       /\ pc[t] = "addInsert" => ~Registered(arg[t])
  /\ lock = Reactor <=> phase \in {"calling", "stuck"}
  /\ life = "off" <=> phase = "off"

\* WatchedUnlessLost, and the same for the entry add_fd is inserting.
Watched ==
  \A fd \in Fds : Registered(fd) \/ Adding(fd) =>
     fd \in interest \/ fd \in lost \/ Deleting(fd) \/ (phase = "stuck" /\ cur = fd)

IInv == TypeOK /\ Locking /\ NoOrphanWatch /\ Watched /\ CallbackIsRegistered
-----------------------------------------------------------------------------
\* Types and lock ownership are preserved together.
LEMMA TypedAndLocked == Spec => [](TypeOK /\ Locking)
<1> USE ConstantsAssumption
<1>1. Init => TypeOK /\ Locking
  BY DEF Init, TypeOK, Locking, Registered
<1>2. TypeOK /\ Locking /\ [Next]_vars => TypeOK' /\ Locking'
  <2> SUFFICES ASSUME TypeOK, Locking, [Next]_vars PROVE TypeOK' /\ Locking'
    OBVIOUS
  <2>1. ASSUME NEW fd \in Fds, OpenFd(fd) PROVE TypeOK' /\ Locking'
    BY <2>1, TypeOK, Locking DEF OpenFd, TypeOK, Locking, Registered, kernel, client, worker
  <2>2. ASSUME NEW fd \in Fds, OwnerClose(fd) PROVE TypeOK' /\ Locking'
    BY <2>2, TypeOK, Locking DEF OwnerClose, Close, TypeOK, Locking, Registered, kernel, client, worker
  <2>3. ASSUME NEW fd \in Fds, KernelEvent(fd) PROVE TypeOK' /\ Locking'
    BY <2>3, TypeOK, Locking DEF KernelEvent, TypeOK, Locking, Registered, kernel, client, worker
  <2>4. ASSUME NEW fd \in Fds, EpollReturn(fd) PROVE TypeOK' /\ Locking'
    BY <2>4, TypeOK, Locking DEF EpollReturn, TypeOK, Locking, Registered, kernel, client, worker
  <2>5. ASSUME NEW t \in Threads, NEW fd \in Fds, NEW cb \in Callbacks, AddLock(t, fd, cb) PROVE TypeOK' /\ Locking'
    BY <2>5, TypeOK, Locking DEF AddLock, Goto, TypeOK, Locking, Registered, kernel, client, worker
  <2>6. ASSUME NEW t \in Threads, NEW fd \in Fds, DelCtl(t, fd) PROVE TypeOK' /\ Locking'
    BY <2>6, TypeOK, Locking DEF DelCtl, EpollDel, Goto, TypeOK, Locking, Registered, kernel, client, worker
  <2>7. ASSUME NEW t \in Threads, AddNew(t) PROVE TypeOK' /\ Locking'
    BY <2>7, TypeOK, Locking DEF AddNew, Goto, TypeOK, Locking, Registered, kernel, client, worker
  <2>8. ASSUME NEW t \in Threads, AddFails(t) PROVE TypeOK' /\ Locking'
    BY <2>8, TypeOK, Locking DEF AddFails, Close, Goto, Return, TypeOK, Locking, Registered, kernel, client, worker
  <2>9. ASSUME NEW t \in Threads, AddInsert(t) PROVE TypeOK' /\ Locking'
    BY <2>9, TypeOK, Locking DEF AddInsert, Goto, Return, TypeOK, Locking, Registered, kernel, client, worker
  <2>10. ASSUME NEW t \in Threads, AddModify(t) PROVE TypeOK' /\ Locking'
    BY <2>10, TypeOK, Locking DEF AddModify, Goto, Return, TypeOK, Locking, Registered, kernel, client, worker
  <2>11. ASSUME NEW t \in Threads, DelErase(t) PROVE TypeOK' /\ Locking'
    BY <2>11, TypeOK, Locking DEF DelErase, Erase, Close, Goto, Return, TypeOK, Locking, Registered, kernel, client, worker
  <2>12. CASE StopReturn
    BY <2>12, TypeOK, Locking DEF StopReturn, TypeOK, Locking, Registered, kernel, client, worker
  <2>13. CASE DispatchFound
    BY <2>13, TypeOK, Locking DEF DispatchFound, TypeOK, Locking, Registered, kernel, client, worker
  <2>14. CASE DispatchNotFound
    BY <2>14, TypeOK, Locking DEF DispatchNotFound, EpollDel, TypeOK, Locking, Registered, kernel, client, worker
  <2>15. CASE CallbackKeeps
    BY <2>15, TypeOK, Locking DEF CallbackKeeps, BackToWait, TypeOK, Locking, Registered, kernel, client, worker
  <2>16. CASE CallbackDrops
    BY <2>16, TypeOK, Locking DEF CallbackDrops, BackToWait, Erase, Close, TypeOK, Locking, Registered, kernel, client, worker
  <2>17. CASE CallbackSelfDeletes
    BY <2>17, TypeOK, Locking DEF CallbackSelfDeletes, EpollDel, TypeOK, Locking, Registered, kernel, client, worker
  <2>18. CASE StartThread
    BY <2>18, TypeOK, Locking DEF StartThread, TypeOK, Locking, Registered, kernel, client, worker
  <2>19. CASE StopThread
    BY <2>19, TypeOK, Locking DEF StopThread, TypeOK, Locking, Registered, kernel, client, worker
  <2>20. CASE Join
    BY <2>20, TypeOK, Locking DEF Join, TypeOK, Locking, Registered, kernel, client, worker
  <2>21. CASE UNCHANGED vars
    BY <2>21, TypeOK, Locking DEF vars, TypeOK, Locking, Registered, kernel, client, worker
  <2> QED
    BY <2>1, <2>2, <2>3, <2>4, <2>5, <2>6, <2>7, <2>8, <2>9, <2>10, <2>11, <2>12, <2>13, <2>14, <2>15, <2>16, <2>17, <2>18, <2>19, <2>20, <2>21
    DEF Next, ClientStep, ReactorStep
<1> QED BY <1>1, <1>2, PTL DEF Spec

\* Every variable keeps its type: in particular the reactor never looks up,
\* and the pool threads never insert, anything but a descriptor and a callback.
THEOREM TypeCorrect == Spec => []TypeOK
BY TypedAndLocked, PTL

\* The agreement of react_ and the epoll set, and of react_ and the callback
\* that runs, is preserved by every step of the reactor and the pool threads.
LEMMA InvariantHolds == Spec => []IInv
<1> USE ConstantsAssumption
<1>1. Init => NoOrphanWatch /\ Watched /\ CallbackIsRegistered
  BY DEF Init, NoOrphanWatch, Watched, CallbackIsRegistered, Registered, Adding
<1>2. /\ TypeOK /\ Locking /\ NoOrphanWatch /\ Watched /\ CallbackIsRegistered
      /\ TypeOK' /\ Locking' /\ [Next]_vars
      => NoOrphanWatch' /\ Watched' /\ CallbackIsRegistered'
  <2> SUFFICES ASSUME TypeOK, Locking, NoOrphanWatch, Watched, CallbackIsRegistered,
                      TypeOK', Locking', [Next]_vars
               PROVE  NoOrphanWatch' /\ Watched' /\ CallbackIsRegistered'
    OBVIOUS
  <2>1. ASSUME NEW fd \in Fds, OpenFd(fd) PROVE NoOrphanWatch' /\ Watched' /\ CallbackIsRegistered'
    BY <2>1, TypeOK, Locking, NoOrphanWatch, Watched, CallbackIsRegistered DEF OpenFd, TypeOK, Locking, Registered, Adding, Deleting,
       NoOrphanWatch, Watched, CallbackIsRegistered, kernel, client, worker
  <2>2. ASSUME NEW fd \in Fds, OwnerClose(fd) PROVE NoOrphanWatch' /\ Watched' /\ CallbackIsRegistered'
    BY <2>2, TypeOK, Locking, NoOrphanWatch, Watched, CallbackIsRegistered DEF OwnerClose, Close, TypeOK, Locking, Registered, Adding, Deleting,
       NoOrphanWatch, Watched, CallbackIsRegistered, kernel, client, worker
  <2>3. ASSUME NEW fd \in Fds, KernelEvent(fd) PROVE NoOrphanWatch' /\ Watched' /\ CallbackIsRegistered'
    BY <2>3, TypeOK, Locking, NoOrphanWatch, Watched, CallbackIsRegistered DEF KernelEvent, TypeOK, Locking, Registered, Adding, Deleting,
       NoOrphanWatch, Watched, CallbackIsRegistered, kernel, client, worker
  <2>4. ASSUME NEW fd \in Fds, EpollReturn(fd) PROVE NoOrphanWatch' /\ Watched' /\ CallbackIsRegistered'
    BY <2>4, TypeOK, Locking, NoOrphanWatch, Watched, CallbackIsRegistered DEF EpollReturn, TypeOK, Locking, Registered, Adding, Deleting,
       NoOrphanWatch, Watched, CallbackIsRegistered, kernel, client, worker
  <2>5. ASSUME NEW t \in Threads, NEW fd \in Fds, NEW cb \in Callbacks, AddLock(t, fd, cb) PROVE NoOrphanWatch' /\ Watched' /\ CallbackIsRegistered'
    BY <2>5, TypeOK, Locking, NoOrphanWatch, Watched, CallbackIsRegistered DEF AddLock, Goto, TypeOK, Locking, Registered, Adding, Deleting,
       NoOrphanWatch, Watched, CallbackIsRegistered, kernel, client, worker
  <2>6. ASSUME NEW t \in Threads, NEW fd \in Fds, DelCtl(t, fd) PROVE NoOrphanWatch' /\ Watched' /\ CallbackIsRegistered'
    BY <2>6, TypeOK, Locking, NoOrphanWatch, Watched, CallbackIsRegistered DEF DelCtl, EpollDel, Goto, TypeOK, Locking, Registered, Adding, Deleting,
       NoOrphanWatch, Watched, CallbackIsRegistered, kernel, client, worker
  <2>7. ASSUME NEW t \in Threads, AddNew(t) PROVE NoOrphanWatch' /\ Watched' /\ CallbackIsRegistered'
    BY <2>7, TypeOK, Locking, NoOrphanWatch, Watched, CallbackIsRegistered DEF AddNew, Goto, TypeOK, Locking, Registered, Adding, Deleting,
       NoOrphanWatch, Watched, CallbackIsRegistered, kernel, client, worker
  <2>8. ASSUME NEW t \in Threads, AddFails(t) PROVE NoOrphanWatch' /\ Watched' /\ CallbackIsRegistered'
    BY <2>8, TypeOK, Locking, NoOrphanWatch, Watched, CallbackIsRegistered DEF AddFails, Close, Goto, Return, TypeOK, Locking, Registered, Adding, Deleting,
       NoOrphanWatch, Watched, CallbackIsRegistered, kernel, client, worker
  <2>9. ASSUME NEW t \in Threads, AddInsert(t) PROVE NoOrphanWatch' /\ Watched' /\ CallbackIsRegistered'
    BY <2>9, TypeOK, Locking, NoOrphanWatch, Watched, CallbackIsRegistered DEF AddInsert, Goto, Return, TypeOK, Locking, Registered, Adding, Deleting,
       NoOrphanWatch, Watched, CallbackIsRegistered, kernel, client, worker
  <2>10. ASSUME NEW t \in Threads, AddModify(t) PROVE NoOrphanWatch' /\ Watched' /\ CallbackIsRegistered'
    BY <2>10, TypeOK, Locking, NoOrphanWatch, Watched, CallbackIsRegistered DEF AddModify, Goto, Return, TypeOK, Locking, Registered, Adding, Deleting,
       NoOrphanWatch, Watched, CallbackIsRegistered, kernel, client, worker
  <2>11. ASSUME NEW t \in Threads, DelErase(t) PROVE NoOrphanWatch' /\ Watched' /\ CallbackIsRegistered'
    BY <2>11, TypeOK, Locking, NoOrphanWatch, Watched, CallbackIsRegistered DEF DelErase, Erase, Close, Goto, Return, TypeOK, Locking, Registered, Adding, Deleting,
       NoOrphanWatch, Watched, CallbackIsRegistered, kernel, client, worker
  <2>12. CASE StopReturn
    BY <2>12, TypeOK, Locking, NoOrphanWatch, Watched, CallbackIsRegistered DEF StopReturn, TypeOK, Locking, Registered, Adding, Deleting,
       NoOrphanWatch, Watched, CallbackIsRegistered, kernel, client, worker
  <2>13. CASE DispatchFound
    BY <2>13, TypeOK, Locking, NoOrphanWatch, Watched, CallbackIsRegistered DEF DispatchFound, TypeOK, Locking, Registered, Adding, Deleting,
       NoOrphanWatch, Watched, CallbackIsRegistered, kernel, client, worker
  <2>14. CASE DispatchNotFound
    BY <2>14, TypeOK, Locking, NoOrphanWatch, Watched, CallbackIsRegistered DEF DispatchNotFound, EpollDel, TypeOK, Locking, Registered, Adding, Deleting,
       NoOrphanWatch, Watched, CallbackIsRegistered, kernel, client, worker
  <2>15. CASE CallbackKeeps
    BY <2>15, TypeOK, Locking, NoOrphanWatch, Watched, CallbackIsRegistered DEF CallbackKeeps, BackToWait, TypeOK, Locking, Registered, Adding, Deleting,
       NoOrphanWatch, Watched, CallbackIsRegistered, kernel, client, worker
  <2>16. CASE CallbackDrops
    BY <2>16, TypeOK, Locking, NoOrphanWatch, Watched, CallbackIsRegistered DEF CallbackDrops, BackToWait, Erase, Close, TypeOK, Locking, Registered, Adding, Deleting,
       NoOrphanWatch, Watched, CallbackIsRegistered, kernel, client, worker
  <2>17. CASE CallbackSelfDeletes
    BY <2>17, TypeOK, Locking, NoOrphanWatch, Watched, CallbackIsRegistered DEF CallbackSelfDeletes, EpollDel, TypeOK, Locking, Registered, Adding, Deleting,
       NoOrphanWatch, Watched, CallbackIsRegistered, kernel, client, worker
  <2>18. CASE StartThread
    BY <2>18, TypeOK, Locking, NoOrphanWatch, Watched, CallbackIsRegistered DEF StartThread, TypeOK, Locking, Registered, Adding, Deleting,
       NoOrphanWatch, Watched, CallbackIsRegistered, kernel, client, worker
  <2>19. CASE StopThread
    BY <2>19, TypeOK, Locking, NoOrphanWatch, Watched, CallbackIsRegistered DEF StopThread, TypeOK, Locking, Registered, Adding, Deleting,
       NoOrphanWatch, Watched, CallbackIsRegistered, kernel, client, worker
  <2>20. CASE Join
    BY <2>20, TypeOK, Locking, NoOrphanWatch, Watched, CallbackIsRegistered DEF Join, TypeOK, Locking, Registered, Adding, Deleting,
       NoOrphanWatch, Watched, CallbackIsRegistered, kernel, client, worker
  <2>21. CASE UNCHANGED vars
    BY <2>21, TypeOK, Locking, NoOrphanWatch, Watched, CallbackIsRegistered DEF vars, TypeOK, Locking, Registered, Adding, Deleting,
       NoOrphanWatch, Watched, CallbackIsRegistered, kernel, client, worker
  <2> QED
    BY <2>1, <2>2, <2>3, <2>4, <2>5, <2>6, <2>7, <2>8, <2>9, <2>10, <2>11, <2>12, <2>13, <2>14, <2>15, <2>16, <2>17, <2>18, <2>19, <2>20, <2>21
    DEF Next, ClientStep, ReactorStep
<1> QED BY <1>1, <1>2, TypedAndLocked, PTL DEF Spec, IInv

\* No event is ever delivered for a descriptor that nobody registered.
THEOREM OrphanFree == Spec => []NoOrphanWatch
<1>1. IInv => NoOrphanWatch
  BY DEF IInv
<1> QED BY <1>1, InvariantHolds, PTL

\* A registration whose descriptor its owner has left open stays watched.
THEOREM RegisteredIsWatched == Spec => []WatchedUnlessLost
<1>1. IInv => WatchedUnlessLost
  BY DEF IInv, Watched, WatchedUnlessLost
<1> QED BY <1>1, InvariantHolds, PTL

\* react_ and the epoll set agree, whatever add_fd, del_fd and the loop of the
\* reactor do at the same time.
THEOREM EpollStaysAgreed == Spec => []EpollAgrees
<1>1. NoOrphanWatch /\ WatchedUnlessLost => EpollAgrees
  BY DEF EpollAgrees
<1> QED BY <1>1, OrphanFree, RegisteredIsWatched, PTL

\* make_callback never calls through an entry that has gone or changed.
THEOREM CallbackStaysRegistered == Spec => []CallbackIsRegistered
<1>1. IInv => CallbackIsRegistered
  BY DEF IInv
<1> QED BY <1>1, InvariantHolds, PTL

-----------------------------------------------------------------------------
\* The reactor implements EventDispatch: each step registers, unregisters,
\* fires, or ends a callback as the abstract specification allows, or is
\* invisible to those who use the reactor.
THEOREM Refinement == Spec => ImplementsDispatch
<1> USE ConstantsAssumption
<1>1. Init => Dispatch!Init
  BY DEF Init, Dispatch!Init, Firing, NotFiring
<1>2. IInv /\ IInv' /\ [Next]_vars => [Dispatch!Next]_(Dispatch!vars)
  <2> SUFFICES ASSUME IInv, IInv', [Next]_vars PROVE [Dispatch!Next]_(Dispatch!vars)
    OBVIOUS
  <2> USE DEF Dispatch!vars, IInv
  <2>1. ASSUME NEW fd \in Fds, OpenFd(fd) PROVE [Dispatch!Next]_(Dispatch!vars)
    BY <2>1, IInv DEF OpenFd, TypeOK, Locking, CallbackIsRegistered, Registered, Firing, NotFiring, kernel, client, worker,
       Dispatch!Next, Dispatch!Register, Dispatch!Unregister, Dispatch!Fire,
       Dispatch!Keep, Dispatch!Drop
  <2>2. ASSUME NEW fd \in Fds, OwnerClose(fd) PROVE [Dispatch!Next]_(Dispatch!vars)
    BY <2>2, IInv DEF OwnerClose, Close, TypeOK, Locking, CallbackIsRegistered, Registered, Firing, NotFiring, kernel, client, worker,
       Dispatch!Next, Dispatch!Register, Dispatch!Unregister, Dispatch!Fire,
       Dispatch!Keep, Dispatch!Drop
  <2>3. ASSUME NEW fd \in Fds, KernelEvent(fd) PROVE [Dispatch!Next]_(Dispatch!vars)
    BY <2>3, IInv DEF KernelEvent, TypeOK, Locking, CallbackIsRegistered, Registered, Firing, NotFiring, kernel, client, worker,
       Dispatch!Next, Dispatch!Register, Dispatch!Unregister, Dispatch!Fire,
       Dispatch!Keep, Dispatch!Drop
  <2>4. ASSUME NEW fd \in Fds, EpollReturn(fd) PROVE [Dispatch!Next]_(Dispatch!vars)
    BY <2>4, IInv DEF EpollReturn, TypeOK, Locking, CallbackIsRegistered, Registered, Firing, NotFiring, kernel, client, worker,
       Dispatch!Next, Dispatch!Register, Dispatch!Unregister, Dispatch!Fire,
       Dispatch!Keep, Dispatch!Drop
  <2>5. ASSUME NEW t \in Threads, NEW fd \in Fds, NEW cb \in Callbacks, AddLock(t, fd, cb) PROVE [Dispatch!Next]_(Dispatch!vars)
    BY <2>5, IInv DEF AddLock, Goto, TypeOK, Locking, CallbackIsRegistered, Registered, Firing, NotFiring, kernel, client, worker,
       Dispatch!Next, Dispatch!Register, Dispatch!Unregister, Dispatch!Fire,
       Dispatch!Keep, Dispatch!Drop
  <2>6. ASSUME NEW t \in Threads, NEW fd \in Fds, DelCtl(t, fd) PROVE [Dispatch!Next]_(Dispatch!vars)
    BY <2>6, IInv DEF DelCtl, EpollDel, Goto, TypeOK, Locking, CallbackIsRegistered, Registered, Firing, NotFiring, kernel, client, worker,
       Dispatch!Next, Dispatch!Register, Dispatch!Unregister, Dispatch!Fire,
       Dispatch!Keep, Dispatch!Drop
  <2>7. ASSUME NEW t \in Threads, AddNew(t) PROVE [Dispatch!Next]_(Dispatch!vars)
    BY <2>7, IInv DEF AddNew, Goto, TypeOK, Locking, CallbackIsRegistered, Registered, Firing, NotFiring, kernel, client, worker,
       Dispatch!Next, Dispatch!Register, Dispatch!Unregister, Dispatch!Fire,
       Dispatch!Keep, Dispatch!Drop
  <2>8. ASSUME NEW t \in Threads, AddFails(t) PROVE [Dispatch!Next]_(Dispatch!vars)
    BY <2>8, IInv DEF AddFails, Close, Goto, Return, TypeOK, Locking, CallbackIsRegistered, Registered, Firing, NotFiring, kernel, client, worker,
       Dispatch!Next, Dispatch!Register, Dispatch!Unregister, Dispatch!Fire,
       Dispatch!Keep, Dispatch!Drop
  <2>9. ASSUME NEW t \in Threads, AddInsert(t) PROVE [Dispatch!Next]_(Dispatch!vars)
    BY <2>9, IInv DEF AddInsert, Goto, Return, TypeOK, Locking, CallbackIsRegistered, Registered, Firing, NotFiring, kernel, client, worker,
       Dispatch!Next, Dispatch!Register, Dispatch!Unregister, Dispatch!Fire,
       Dispatch!Keep, Dispatch!Drop
  <2>10. ASSUME NEW t \in Threads, AddModify(t) PROVE [Dispatch!Next]_(Dispatch!vars)
    BY <2>10, IInv DEF AddModify, Goto, Return, TypeOK, Locking, CallbackIsRegistered, Registered, Firing, NotFiring, kernel, client, worker,
       Dispatch!Next, Dispatch!Register, Dispatch!Unregister, Dispatch!Fire,
       Dispatch!Keep, Dispatch!Drop
  <2>11. ASSUME NEW t \in Threads, DelErase(t) PROVE [Dispatch!Next]_(Dispatch!vars)
    BY <2>11, IInv DEF DelErase, Erase, Close, Goto, Return, TypeOK, Locking, CallbackIsRegistered, Registered, Firing, NotFiring, kernel, client, worker,
       Dispatch!Next, Dispatch!Register, Dispatch!Unregister, Dispatch!Fire,
       Dispatch!Keep, Dispatch!Drop
  <2>12. CASE StopReturn
    BY <2>12, IInv DEF StopReturn, TypeOK, Locking, CallbackIsRegistered, Registered, Firing, NotFiring, kernel, client, worker,
       Dispatch!Next, Dispatch!Register, Dispatch!Unregister, Dispatch!Fire,
       Dispatch!Keep, Dispatch!Drop
  <2>13. CASE DispatchFound
    BY <2>13, IInv DEF DispatchFound, TypeOK, Locking, CallbackIsRegistered, Registered, Firing, NotFiring, kernel, client, worker,
       Dispatch!Next, Dispatch!Register, Dispatch!Unregister, Dispatch!Fire,
       Dispatch!Keep, Dispatch!Drop
  <2>14. CASE DispatchNotFound
    BY <2>14, IInv DEF DispatchNotFound, EpollDel, TypeOK, Locking, CallbackIsRegistered, Registered, Firing, NotFiring, kernel, client, worker,
       Dispatch!Next, Dispatch!Register, Dispatch!Unregister, Dispatch!Fire,
       Dispatch!Keep, Dispatch!Drop
  <2>15. CASE CallbackKeeps
    BY <2>15, IInv DEF CallbackKeeps, BackToWait, TypeOK, Locking, CallbackIsRegistered, Registered, Firing, NotFiring, kernel, client, worker,
       Dispatch!Next, Dispatch!Register, Dispatch!Unregister, Dispatch!Fire,
       Dispatch!Keep, Dispatch!Drop
  <2>16. CASE CallbackDrops
    BY <2>16, IInv DEF CallbackDrops, BackToWait, Erase, Close, TypeOK, Locking, CallbackIsRegistered, Registered, Firing, NotFiring, kernel, client, worker,
       Dispatch!Next, Dispatch!Register, Dispatch!Unregister, Dispatch!Fire,
       Dispatch!Keep, Dispatch!Drop
  <2>17. CASE CallbackSelfDeletes
    BY <2>17, IInv DEF CallbackSelfDeletes, EpollDel, TypeOK, Locking, CallbackIsRegistered, Registered, Firing, NotFiring, kernel, client, worker,
       Dispatch!Next, Dispatch!Register, Dispatch!Unregister, Dispatch!Fire,
       Dispatch!Keep, Dispatch!Drop
  <2>18. CASE StartThread
    BY <2>18, IInv DEF StartThread, TypeOK, Locking, CallbackIsRegistered, Registered, Firing, NotFiring, kernel, client, worker,
       Dispatch!Next, Dispatch!Register, Dispatch!Unregister, Dispatch!Fire,
       Dispatch!Keep, Dispatch!Drop
  <2>19. CASE StopThread
    BY <2>19, IInv DEF StopThread, TypeOK, Locking, CallbackIsRegistered, Registered, Firing, NotFiring, kernel, client, worker,
       Dispatch!Next, Dispatch!Register, Dispatch!Unregister, Dispatch!Fire,
       Dispatch!Keep, Dispatch!Drop
  <2>20. CASE Join
    BY <2>20, IInv DEF Join, TypeOK, Locking, CallbackIsRegistered, Registered, Firing, NotFiring, kernel, client, worker,
       Dispatch!Next, Dispatch!Register, Dispatch!Unregister, Dispatch!Fire,
       Dispatch!Keep, Dispatch!Drop
  <2>21. CASE UNCHANGED vars
    BY <2>21, IInv DEF vars, TypeOK, Locking, CallbackIsRegistered, Registered, Firing, NotFiring, kernel, client, worker,
       Dispatch!Next, Dispatch!Register, Dispatch!Unregister, Dispatch!Fire,
       Dispatch!Keep, Dispatch!Drop
  <2> QED
    BY <2>1, <2>2, <2>3, <2>4, <2>5, <2>6, <2>7, <2>8, <2>9, <2>10, <2>11, <2>12, <2>13, <2>14, <2>15, <2>16, <2>17, <2>18, <2>19, <2>20, <2>21
    DEF Next, ClientStep, ReactorStep
<1> QED BY <1>1, <1>2, InvariantHolds, PTL DEF Spec, ImplementsDispatch, Dispatch!Spec
=============================================================================
