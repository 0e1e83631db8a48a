-------------------------- MODULE GpioEventsProofs --------------------------
(***************************************************************************)
(* Theorems about GpioEvents, for any set of pins, clients, handles,       *)
(* helpers and descriptor numbers.                                         *)
(***************************************************************************)
EXTENDS GpioEvents, TLAPS

\* A handle in connections_ is between its registration and its leave.
Subscribing == {"idle", "regWait", "addFd", "unregWait", "closeWait"}

Membership ==
  /\ \A x \in Helpers : \A h \in conns[x] : hOf[h] = x /\ pc[h] \in Subscribing
  /\ firing # NotFiring => tick \in 1..MaxEvents

\* A handle that has still to pass del_reactor_action on its way out.
Active == Subscribing \cup {"unregDel", "closeDel"}

\* A handler in the reactor is bound to a helper whose number it is registered
\* under, and some handle of that helper has still to leave; no such handle can
\* be the last to leave without del_fd.  Only where an overlapping open has
\* replaced the number is nothing known of who will leave.
Bound(n, x) == fd[x] = n /\ \E k \in Handles : hOf[k] = x /\ pc[k] \in Active
Handlers ==
  /\ \A n \in Fds : reg[n] # NoHelper => Bound(n, reg[n]) \/ <<n, reg[n]>> \in lost
  /\ firing # NotFiring => reg[firing[1]] = firing[2]

\* A call on the reactor is made with connections_lock_ held; where the number
\* it passes is replaced meanwhile, nobody registers the new one before it ends.
Locked == \A h \in Handles : pc[h] \in Passing => clock[hOf[h]] = h
Passed ==
  \A h \in Handles : LET x == hOf[h] IN
    pc[h] \in Passing /\ arg[h] # fd[x]
      => <<arg[h], x>> \in lost /\ (reg[fd[x]] = x => <<fd[x], x>> \in lost)

\* connections_ holds only handles whose client has asked; a call that is to
\* enter it has been asked for.
Asked ==
  /\ \A x \in Helpers : \A h \in conns[x] : sub[h] # "none"
  /\ \A h \in Handles : pc[h] = "regWait" => sub[h] # "none"

\* The strand's queue holds the events of the past in their order, without the
\* one whose handler runs; what was sent is older than all of them.
Past(t) == t <= tick /\ (firing # NotFiring => t < tick)
Ordered ==
  /\ \A i, j \in DOMAIN queue : i < j => queue[i][2] < queue[j][2]
  /\ \A i \in DOMAIN queue : Past(queue[i][2]) /\ \A h \in Handles : last[h] < queue[i][2]
  /\ \A h \in Handles : Past(last[h])

-----------------------------------------------------------------------------
\* The descriptor table stays well-formed when a reference is released.
LEMMA ReleaseEffect ==
  ASSUME TypeOK, NEW h \in Handles, Release(h)
  PROVE  /\ pc' = [pc EXCEPT ![h] = "closed"]
         /\ file' \in [Fds -> Helpers \cup {NoHelper}]
         /\ watched' \in SUBSET Fds
<1> DEFINE Final == (\A k \in Handles \ {h} : ~Holds(k, hOf[h])) /\ fd[hOf[h]] # NoFd
<1>1. CASE Final
  BY <1>1 DEF Release, Goto, Close, TypeOK
<1>2. CASE ~Final
  BY <1>2 DEF Release, Goto, kernel, TypeOK
<1> QED BY <1>1, <1>2

LEMMA TypedMembership == Spec => [](TypeOK /\ Membership)
<1> USE ConstantsAssumption
<1>1. Init => TypeOK /\ Membership
  <2>1. << >> \in Seq(Helpers \X (1..MaxEvents))
    OBVIOUS
  <2> SUFFICES ASSUME Init PROVE TypeOK /\ Membership
    OBVIOUS
  <2>2. firing = NotFiring /\ reg \in [Fds -> Helpers \cup {NoHelper}]
    BY DEF Init, NotFiring, Reactor!Init
  <2>3. TypeOK
    <3>1. \A h \in Handles : pc[h] = "unused" /\ hOf[h] = NoHelper /\ owner[h] = NoClient
      BY DEF Init
    <3>3. arg \in [Handles -> Fds \cup {NoFd}] /\ lost \in SUBSET (Fds \X Helpers)
      BY DEF Init
    <3>2. /\ tick \in 0..MaxEvents /\ last \in [Handles -> 0..MaxEvents]
          /\ queue \in Seq(Helpers \X (1..MaxEvents))
      BY <2>1 DEF Init
    <3> QED BY <2>2, <3>1, <3>2, <3>3 DEF Init, TypeOK, Opened, Passing
  <2>4. Membership
    BY <2>2 DEF Init, Membership
  <2> QED BY <2>3, <2>4
<1>2. TypeOK /\ Membership /\ [Next]_vars => TypeOK' /\ Membership'
  <2> SUFFICES ASSUME TypeOK, Membership, [Next]_vars PROVE TypeOK' /\ Membership'
    OBVIOUS
  <2>1. ASSUME NEW h \in Handles, NEW c \in Clients, NEW p \in Pins, OpenPin(h, c, p) PROVE TypeOK' /\ Membership'
    <3>1. /\ hOf' \in [Handles -> Helpers \cup {NoHelper}] /\ hOf'[h] # NoHelper
          /\ \A k \in Handles \ {h} : hOf'[k] = hOf[k]
          /\ devices' \in [Pins -> Helpers \cup {NoHelper}]
      <4>1. PICK x \in Helpers : /\ hOf' = [hOf EXCEPT ![h] = x]
                                 /\ devices' = devices \/ devices' = [devices EXCEPT ![p] = x]
        <5>1. CASE devices[p] # NoHelper /\ Alive(devices[p])
          BY <2>1, <5>1, TypeOK DEF OpenPin, TypeOK
        <5>2. CASE ~(devices[p] # NoHelper /\ Alive(devices[p]))
          BY <2>1, <5>2 DEF OpenPin
        <5> QED BY <5>1, <5>2
      <4>2. devices \in [Pins -> Helpers \cup {NoHelper}] /\ hOf \in [Handles -> Helpers \cup {NoHelper}]
        BY TypeOK DEF TypeOK
      <4> QED BY <4>1, <4>2
    <3>2. TypeOK'
      BY <2>1, <3>1, TypeOK DEF OpenPin, Goto, TypeOK, NotFiring, Opened, Passing, helper, kernel, events
    <3>3. Membership'
      BY <2>1, <3>1, TypeOK, Membership
      DEF OpenPin, Goto, TypeOK, Membership, Subscribing, NotFiring, kernel, events
    <3> QED BY <3>2, <3>3
  <2>2. ASSUME NEW h \in Handles, NEW n \in Fds, OpenValue(h, n) PROVE TypeOK' /\ Membership'
    BY <2>2, TypeOK, Membership
    DEF OpenValue, Goto, TypeOK, Membership, Subscribing, Opened, Passing, NotFiring, service, helper, kernel, events
  <2>3. ASSUME NEW h \in Handles, RegisterBegin(h) PROVE TypeOK' /\ Membership'
    BY <2>3, TypeOK, Membership
    DEF RegisterBegin, Begin, Goto, TypeOK, Membership, Subscribing, Opened, Passing, NotFiring, service, helper, kernel, events
  <2>4. ASSUME NEW h \in Handles, UnregisterBegin(h) PROVE TypeOK' /\ Membership'
    BY <2>4, TypeOK, Membership
    DEF UnregisterBegin, Begin, Goto, TypeOK, Membership, Subscribing, Opened, Passing, NotFiring, service, helper, kernel, events
  <2>5. ASSUME NEW h \in Handles, CloseBegin(h) PROVE TypeOK' /\ Membership'
    BY <2>5, TypeOK, Membership
    DEF CloseBegin, Begin, Goto, TypeOK, Membership, Subscribing, Opened, Passing, NotFiring, service, helper, kernel, events
  <2>6. ASSUME NEW h \in Handles, DropBegin(h) PROVE TypeOK' /\ Membership'
    BY <2>6, TypeOK, Membership
    DEF DropBegin, Goto, TypeOK, Membership, Subscribing, Opened, Passing, NotFiring, service, helper, kernel, events
  <2>7. ASSUME NEW h \in Handles, OpenShared(h) PROVE TypeOK' /\ Membership'
    BY <2>7, TypeOK, Membership
    DEF OpenShared, Goto, TypeOK, Membership, Subscribing, Opened, Passing, NotFiring, service, helper, kernel, events
  <2>8. ASSUME NEW h \in Handles, OpenChecked(h) PROVE TypeOK' /\ Membership'
    BY <2>8, TypeOK, Membership
    DEF OpenChecked, Goto, TypeOK, Membership, Subscribing, Opened, Passing, NotFiring, service, helper, kernel, events
  <2>9. ASSUME NEW h \in Handles, OpenFails(h) PROVE TypeOK' /\ Membership'
    <3>1. /\ pc[h] # "unused" /\ pc[h] \notin Subscribing
          /\ pc' = [pc EXCEPT ![h] = "closed"]
          /\ file' \in [Fds -> Helpers \cup {NoHelper}]
          /\ watched' \in SUBSET Fds
      BY <2>9, ReleaseEffect, TypeOK DEF OpenFails, Subscribing
    <3>2. TypeOK'
      BY <2>9, <3>1, TypeOK DEF OpenFails, TypeOK, NotFiring, Opened, Passing, helper, events
    <3>3. Membership'
      BY <2>9, <3>1, TypeOK, Membership DEF OpenFails, TypeOK, Membership, NotFiring, helper, events
    <3> QED BY <3>2, <3>3
  <2>10. ASSUME NEW h \in Handles, RegisterShared(h) PROVE TypeOK' /\ Membership'
    BY <2>10, TypeOK, Membership
    DEF RegisterShared, AddConnection, Granted, Goto, TypeOK, Membership, Subscribing, Opened, Passing, NotFiring, service, helper, kernel, events
  <2>11. ASSUME NEW h \in Handles, RegisterFirst(h) PROVE TypeOK' /\ Membership'
    BY <2>11, TypeOK, Membership
    DEF RegisterFirst, AddConnection, Lock, Pass, Goto, TypeOK, Membership, Subscribing, Opened, Passing, NotFiring, service, helper, kernel, events
  <2>12. ASSUME NEW h \in Handles, AddFd(h) PROVE TypeOK' /\ Membership'
    <3>1. /\ hOf[h] \in Helpers /\ arg[h] \in Fds
      BY <2>12, TypeOK DEF AddFd, TypeOK, Opened, Passing, Reactor!Register
    <3>2. /\ watched' \in SUBSET Fds /\ reg' \in [Fds -> Helpers \cup {NoHelper}]
          /\ sub' \in [Handles -> {"none", "asked", "granted"}]
      <4>1. /\ sub \in [Handles -> {"none", "asked", "granted"}] /\ watched \in SUBSET Fds
            /\ reg \in [Fds -> Helpers \cup {NoHelper}]
        BY TypeOK DEF TypeOK
      <4>2. reg' = [reg EXCEPT ![arg[h]] = hOf[h]]
        BY <2>12 DEF AddFd, Reactor!Register
      <4>3. /\ sub' = sub \/ sub' = [sub EXCEPT ![h] = "granted"]
            /\ watched' = watched \/ watched' = watched \cup {arg[h]}
        BY <2>12 DEF AddFd, Granted
      <4>4. watched' \in SUBSET Fds
        BY <3>1, <4>1, <4>3
      <4>5. reg' \in [Fds -> Helpers \cup {NoHelper}]
        BY <3>1, <4>1, <4>2
      <4>6. sub' \in [Handles -> {"none", "asked", "granted"}]
        BY <4>1, <4>3
      <4> QED BY <4>4, <4>5, <4>6
    <3>3. TypeOK'
      BY <2>12, <3>1, <3>2, TypeOK DEF AddFd, Unlock, Pass, Goto, TypeOK, NotFiring, Opened, Passing, events, Reactor!Register
    <3>4. Membership'
      BY <2>12, <3>1, TypeOK, Membership
      DEF AddFd, Goto, TypeOK, Membership, Subscribing, NotFiring, events, Reactor!Register
    <3> QED BY <3>3, <3>4
  <2>13. ASSUME NEW h \in Handles, AddFdFails(h) PROVE TypeOK' /\ Membership'
    BY <2>13, TypeOK, Membership
    DEF AddFdFails, Close, Unlock, Pass, Goto, TypeOK, Membership, Subscribing, Opened, Passing, NotFiring, service, helper, kernel, events
  <2>14. ASSUME NEW h \in Handles, LeaveOthers(h) PROVE TypeOK' /\ Membership'
    BY <2>14, TypeOK, Membership
    DEF LeaveOthers, Leaving, DelConnection, Forget, Goto, AfterLeave, TypeOK, Membership, Subscribing, Opened, Passing, NotFiring, service, helper, kernel, events
  <2>15. ASSUME NEW h \in Handles, LeaveLast(h) PROVE TypeOK' /\ Membership'
    BY <2>15, TypeOK, Membership
    DEF LeaveLast, Leaving, DelConnection, Lock, Pass, Goto, TypeOK, Membership, Subscribing, Opened, Passing, NotFiring, service, helper, kernel, events
  <2>16. ASSUME NEW h \in Handles, DelFd(h) PROVE TypeOK' /\ Membership'
    <3>1. hOf[h] \in Helpers /\ arg[h] \in Fds
      BY <2>16, TypeOK DEF DelFd, TypeOK, Opened, Passing
    <3>2. file' \in [Fds -> Helpers \cup {NoHelper}] /\ watched' \in SUBSET Fds
      <4>1. file \in [Fds -> Helpers \cup {NoHelper}] /\ watched \in SUBSET Fds
        BY TypeOK DEF TypeOK
      <4>2. CASE reg[arg[h]] # NoHelper
        BY <2>16, <4>1, <4>2 DEF DelFd, Close
      <4>3. CASE reg[arg[h]] = NoHelper
        BY <2>16, <4>1, <4>3 DEF DelFd, kernel
      <4> QED BY <4>2, <4>3
    <3>3. TypeOK'
      BY <2>16, <3>1, <3>2, TypeOK
      DEF DelFd, Unlock, Pass, Forget, Goto, AfterLeave, TypeOK, NotFiring, Opened, Passing, events, Reactor!Unregister
    <3>4. Membership'
      BY <2>16, <3>1, TypeOK, Membership
      DEF DelFd, Goto, AfterLeave, TypeOK, Membership, Subscribing, NotFiring, events, Reactor!Unregister
    <3> QED BY <3>3, <3>4
  <2>17. ASSUME NEW h \in Handles, CloseEnd(h) PROVE TypeOK' /\ Membership'
    <3>1. /\ pc[h] # "unused" /\ pc[h] \notin Subscribing
          /\ pc' = [pc EXCEPT ![h] = "closed"]
          /\ file' \in [Fds -> Helpers \cup {NoHelper}]
          /\ watched' \in SUBSET Fds
      BY <2>17, ReleaseEffect, TypeOK DEF CloseEnd, Subscribing
    <3>2. TypeOK'
      BY <2>17, <3>1, TypeOK DEF CloseEnd, TypeOK, NotFiring, Opened, Passing, helper, events
    <3>3. Membership'
      BY <2>17, <3>1, TypeOK, Membership DEF CloseEnd, TypeOK, Membership, NotFiring, helper, events
    <3> QED BY <3>2, <3>3
  <2>18. ASSUME NEW h \in Handles, DropEnd(h) PROVE TypeOK' /\ Membership'
    BY <2>18, TypeOK, Membership
    DEF DropEnd, Goto, TypeOK, Membership, Subscribing, Opened, Passing, NotFiring, service, helper, kernel, events
  <2>19. ASSUME NEW h \in Handles, DropMap(h) PROVE TypeOK' /\ Membership'
    <3>1. /\ pc[h] # "unused" /\ pc[h] \notin Subscribing
          /\ pc' = [pc EXCEPT ![h] = "closed"]
          /\ file' \in [Fds -> Helpers \cup {NoHelper}]
          /\ watched' \in SUBSET Fds
      BY <2>19, ReleaseEffect, TypeOK DEF DropMap, Subscribing
    <3>2. TypeOK'
      BY <2>19, <3>1, TypeOK DEF DropMap, TypeOK, NotFiring, Opened, Passing, helper, events
    <3>3. Membership'
      BY <2>19, <3>1, TypeOK, Membership DEF DropMap, TypeOK, Membership, NotFiring, helper, events
    <3> QED BY <3>2, <3>3
  <2>20. ASSUME NEW c \in Clients, Disconnect(c) PROVE TypeOK' /\ Membership'
    BY <2>20, TypeOK, Membership
    DEF Disconnect, TypeOK, Membership, Subscribing, Opened, Passing, NotFiring, service, helper, kernel, events
  <2>21. ASSUME NEW n \in Fds, Event(n) PROVE TypeOK' /\ Membership'
    BY <2>21, TypeOK, Membership
    DEF Event, Reactor!Fire, TypeOK, Membership, Subscribing, Opened, Passing, NotFiring, service, helper, kernel, events
  <2>22. CASE HandlerPosts
    BY <2>22, TypeOK, Membership
    DEF HandlerPosts, Reactor!Keep, TypeOK, Membership, Subscribing, Opened, Passing, NotFiring, service, helper, kernel, events
  <2>23. CASE HandlerRefuses
    BY <2>23, TypeOK, Membership
    DEF HandlerRefuses, Reactor!Drop, Close, TypeOK, Membership, Subscribing, Opened, Passing, NotFiring, service, helper, kernel, events
  <2>28. CASE HandlerDestroyed
    <3>1. tick \in 1..MaxEvents /\ firing[1] \in Fds /\ firing[2] \in Helpers
      BY <2>28, TypeOK, Membership DEF HandlerDestroyed, Membership, TypeOK
    <3>2. /\ queue' \in Seq(Helpers \X (1..MaxEvents)) /\ reg' \in [Fds -> Helpers \cup {NoHelper}]
          /\ firing' \in {firing, NotFiring} /\ crashed' \in BOOLEAN
          /\ file' \in [Fds -> Helpers \cup {NoHelper}] /\ watched' \in SUBSET Fds
      <4>1. /\ queue \in Seq(Helpers \X (1..MaxEvents)) /\ reg \in [Fds -> Helpers \cup {NoHelper}]
            /\ file \in [Fds -> Helpers \cup {NoHelper}] /\ watched \in SUBSET Fds /\ crashed \in BOOLEAN
        BY TypeOK DEF TypeOK
      <4>2. Append(queue, <<firing[2], tick>>) \in Seq(Helpers \X (1..MaxEvents))
        BY <3>1, <4>1
      <4>3. CASE crashed' = TRUE /\ UNCHANGED <<reg, firing, queue, kernel>>
        BY <4>1, <4>3 DEF kernel
      <4>4. CASE Reactor!Keep /\ queue' = Append(queue, <<firing[2], tick>>) /\ UNCHANGED <<kernel, crashed>>
        BY <4>1, <4>2, <4>4 DEF Reactor!Keep, kernel
      <4>5. CASE Reactor!Drop /\ Close(firing[1]) /\ UNCHANGED <<queue, crashed>>
        BY <3>1, <4>1, <4>5 DEF Reactor!Drop, Close
      <4> QED BY <2>28, <4>3, <4>4, <4>5 DEF HandlerDestroyed
    <3> QED
      BY <2>28, <3>1, <3>2, TypeOK, Membership
      DEF HandlerDestroyed, TypeOK, Membership, Subscribing, Opened, Passing, service, helper
  <2>24. CASE SendBegin
    BY <2>24, TypeOK, Membership
    DEF SendBegin, Target, TypeOK, Membership, Subscribing, Opened, Passing, NotFiring, service, helper, kernel, events
  <2>25. CASE SendEnd
    BY <2>25, TypeOK, Membership
    DEF SendEnd, Target, TypeOK, Membership, Subscribing, Opened, Passing, NotFiring, service, helper, kernel, events
  <2>26. CASE SendDestroyed
    BY <2>26, TypeOK, Membership
    DEF SendDestroyed, Target, TypeOK, Membership, Subscribing, Opened, Passing, NotFiring, service, helper, kernel, events
  <2>27. CASE UNCHANGED vars
    BY <2>27, TypeOK, Membership DEF vars, TypeOK, Membership, Subscribing, Opened, Passing, NotFiring, service, helper, kernel, events
  <2> QED
    BY <2>1, <2>2, <2>3, <2>4, <2>5, <2>6, <2>7, <2>8, <2>9, <2>10, <2>11, <2>12, <2>13, <2>14, <2>15, <2>16, <2>17, <2>18, <2>19, <2>20, <2>21, <2>22, <2>23, <2>24, <2>25, <2>26, <2>27, <2>28
    DEF Next, CallStep, Handler, StrandStep
<1> QED BY <1>1, <1>2, PTL DEF Spec

\* Every variable keeps its type, and a handle in use has its value file.
THEOREM TypeCorrect == Spec => []TypeOK
BY TypedMembership, PTL

\* No callback of a closed handle or a destroyed gpio_impl can be called.
THEOREM SubscribersStayOpen == Spec => []SubscribersAreOpen
<1>1. Membership => SubscribersAreOpen
  BY DEF Membership, SubscribersAreOpen, Subscribing
<1> QED BY <1>1, TypedMembership, PTL

-----------------------------------------------------------------------------
BoundInv == Handlers /\ Locked /\ Passed

\* Whoever could still take a handler out can, while a call moves that does not
\* pass the last del_reactor_action of its handle.
LEMMA StillBound ==
  ASSUME TypeOK, UNCHANGED <<hOf, fd>>, NEW h \in Handles, NEW label,
         label \in Active \/ pc[h] \notin Active, pc' = [pc EXCEPT ![h] = label],
         NEW n \in Fds, NEW x \in Helpers, Bound(n, x)
  PROVE  Bound(n, x)'
<1>1. PICK k \in Handles : hOf[k] = x /\ pc[k] \in Active
  BY DEF Bound
<1>2. hOf'[k] = x /\ pc'[k] \in Active
  BY <1>1 DEF TypeOK
<1> QED BY <1>2 DEF Bound

\* Such a move disturbs nothing if it is not a call on the reactor.
LEMMA MoveKeeps ==
  ASSUME TypeOK, BoundInv, UNCHANGED <<hOf, fd, lost, reg, firing>>, NEW h \in Handles, NEW label,
         label \in Active \/ pc[h] \notin Active, label \notin Passing, pc' = [pc EXCEPT ![h] = label],
         \A k \in Handles \ {h} : arg'[k] = arg[k] /\ (pc[k] \in Passing => clock'[hOf[k]] = clock[hOf[k]])
  PROVE  BoundInv'
<1>1. \A n \in Fds : reg[n] # NoHelper => reg[n] \in Helpers
  BY DEF TypeOK
<1>2. Handlers'
  BY <1>1, StillBound DEF BoundInv, Handlers
<1>3. \A k \in Handles : pc'[k] \in Passing => k # h /\ pc'[k] = pc[k]
  BY DEF TypeOK
<1>4. Locked'
  BY <1>3 DEF BoundInv, Locked
<1>5. Passed'
  BY <1>3 DEF BoundInv, Passed
<1> QED BY <1>2, <1>4, <1>5 DEF BoundInv

\* connections_lock_ is held by one call.
LEMMA LockedAlone ==
  ASSUME Locked, NEW h \in Handles, NEW k \in Handles, pc[h] \in Passing, pc[k] \in Passing, hOf[h] = hOf[k]
  PROVE  h = k
BY DEF Locked

\* del_reactor_action and add_reactor_action take connections_lock_ and pass
\* the number that value_fd_ holds.
LEMMA PassKeeps ==
  ASSUME TypeOK, BoundInv, UNCHANGED <<hOf, fd, lost, reg, firing>>, NEW h \in Handles, NEW label \in {"addFd", "unregDel", "closeDel"},
         hOf[h] \in Helpers, clock[hOf[h]] = NoHandle,
         pc' = [pc EXCEPT ![h] = label], Lock(h), Pass(h, fd[hOf[h]])
  PROVE  BoundInv'
<1> USE ConstantsAssumption
<1>1. \A n \in Fds : reg[n] # NoHelper => reg[n] \in Helpers
  BY DEF TypeOK
<1>2. label \in Active
  BY DEF Active, Subscribing
<1>3. Handlers'
  BY <1>1, <1>2, StillBound DEF BoundInv, Handlers
<1>4. \A k \in Handles \ {h} : pc'[k] = pc[k] /\ arg'[k] = arg[k] /\ (pc[k] \in Passing => hOf[k] # hOf[h])
  BY DEF BoundInv, Locked, Pass, TypeOK
<1>5. clock'[hOf[h]] = h /\ arg'[h] = fd[hOf[h]]
  BY DEF Lock, Pass, TypeOK
<1>6. \A k \in Handles \ {h} : pc[k] \in Passing => clock'[hOf[k]] = clock[hOf[k]]
  BY <1>4 DEF Lock, TypeOK
<1>7. Locked'
  BY <1>4, <1>5, <1>6 DEF BoundInv, Locked
<1>8. Passed'
  BY <1>4, <1>5 DEF BoundInv, Passed
<1> QED BY <1>3, <1>7, <1>8 DEF BoundInv

LEMMA OpenPinKeeps ==
  ASSUME TypeOK, BoundInv, NEW h \in Handles, NEW c \in Clients, NEW p \in Pins, OpenPin(h, c, p)
  PROVE  BoundInv'
<1>1. /\ pc[h] = "unused" /\ pc' = [pc EXCEPT ![h] = "opening"]
      /\ \A k \in Handles \ {h} : hOf'[k] = hOf[k]
      /\ UNCHANGED <<fd, lost, arg, clock, reg, firing>>
  BY DEF OpenPin, Goto, TypeOK
<1>2. \A k \in Handles \ {h} : pc'[k] = pc[k]
  BY <1>1 DEF TypeOK
<1>3. pc'[h] = "opening"
  BY <1>1 DEF TypeOK
<1>4. ASSUME NEW n \in Fds, NEW x \in Helpers, Bound(n, x) PROVE Bound(n, x)'
  <2>1. PICK k \in Handles : hOf[k] = x /\ pc[k] \in Active
    BY <1>4 DEF Bound
  <2>2. k # h
    BY <1>1, <2>1 DEF Active, Subscribing
  <2> QED BY <1>1, <1>2, <1>4, <2>1, <2>2 DEF Bound
<1>5. \A n \in Fds : reg[n] # NoHelper => reg[n] \in Helpers
  BY DEF TypeOK
<1>6. Handlers'
  BY <1>1, <1>4, <1>5 DEF BoundInv, Handlers
<1>7. \A k \in Handles : pc'[k] \in Passing => k # h
  BY <1>3 DEF Passing
<1>8. Locked'
  BY <1>1, <1>2, <1>7 DEF BoundInv, Locked
<1>9. Passed'
  BY <1>1, <1>2, <1>7 DEF BoundInv, Passed
<1> QED BY <1>6, <1>8, <1>9 DEF BoundInv

\* An open that overlaps replaces value_fd_, and the number it held is lost.
LEMMA OpenValueKeeps ==
  ASSUME TypeOK, BoundInv, NEW h \in Handles, NEW m \in Fds, OpenValue(h, m)
  PROVE  BoundInv'
<1> DEFINE y == hOf[h]
<1>1. /\ pc[h] = "openValue" /\ pc' = [pc EXCEPT ![h] = "idle"] /\ fd' = [fd EXCEPT ![y] = m]
      /\ lost' = IF fd[y] \in {NoFd, m} THEN lost ELSE lost \cup {<<fd[y], y>>}
      /\ UNCHANGED <<hOf, arg, clock, reg, firing>>
  BY DEF OpenValue, Goto
<1>2. y \in Helpers
  BY <1>1 DEF TypeOK
<1>3. \A x \in Helpers : fd'[x] = IF x = y THEN m ELSE fd[x]
  BY <1>1 DEF TypeOK
<1>4. \A k \in Handles : pc'[k] = IF k = h THEN "idle" ELSE pc[k]
  BY <1>1 DEF TypeOK
<1>5. lost \subseteq lost' /\ (fd[y] \in Fds /\ fd[y] # m => <<fd[y], y>> \in lost')
  BY <1>1, ConstantsAssumption
<1>6. ASSUME NEW n \in Fds, NEW x \in Helpers, Bound(n, x) PROVE Bound(n, x)' \/ <<n, x>> \in lost'
  <2>1. PICK k \in Handles : hOf[k] = x /\ pc[k] \in Active
    BY <1>6 DEF Bound
  <2>2. pc'[k] \in Active
    BY <1>4, <2>1 DEF Active, Subscribing
  <2>3. CASE fd'[x] = n
    BY <1>1, <2>1, <2>2, <2>3 DEF Bound
  <2>4. CASE fd'[x] # n
    BY <1>3, <1>5, <1>6, <2>4 DEF Bound
  <2> QED BY <2>3, <2>4
<1>7. \A n \in Fds : reg[n] # NoHelper => reg[n] \in Helpers
  BY DEF TypeOK
<1>8. Handlers'
  BY <1>1, <1>5, <1>6, <1>7 DEF BoundInv, Handlers
<1>9. \A k \in Handles : pc'[k] \in Passing => pc[k] \in Passing /\ hOf[k] \in Helpers /\ arg[k] \in Fds
  BY <1>4 DEF TypeOK, Passing
<1>10. Locked'
  BY <1>1, <1>9 DEF BoundInv, Locked
<1>11. ASSUME NEW k \in Handles, pc'[k] \in Passing, arg[k] # fd'[hOf[k]]
       PROVE  <<arg[k], hOf[k]>> \in lost' /\ (reg[fd'[hOf[k]]] = hOf[k] => <<fd'[hOf[k]], hOf[k]>> \in lost')
  <2>1. pc[k] \in Passing /\ hOf[k] \in Helpers /\ arg[k] \in Fds
    BY <1>9, <1>11
  <2>2. CASE hOf[k] # y
    BY <1>3, <1>5, <1>11, <2>1, <2>2 DEF BoundInv, Passed
  <2>3. CASE hOf[k] = y
    <3>1. fd'[y] = m /\ arg[k] # m
      BY <1>2, <1>3, <1>11, <2>3
    <3>2. <<arg[k], y>> \in lost'
      <4>1. CASE arg[k] = fd[y]
        BY <1>5, <2>1, <3>1, <4>1
      <4>2. CASE arg[k] # fd[y]
        BY <1>5, <2>1, <2>3, <4>2 DEF BoundInv, Passed
      <4> QED BY <4>1, <4>2
    <3>3. ASSUME reg[m] = y PROVE <<m, y>> \in lost'
      <4>1. Bound(m, y) \/ <<m, y>> \in lost
        BY <1>2, <3>3, ConstantsAssumption DEF BoundInv, Handlers
      <4>2. CASE Bound(m, y)
        BY <1>5, <2>1, <2>3, <3>1, <3>3, <4>2 DEF BoundInv, Passed, Bound
      <4> QED BY <1>5, <4>1, <4>2
    <3> QED BY <2>3, <3>1, <3>2, <3>3
  <2> QED BY <2>2, <2>3
<1>12. Passed'
  BY <1>1, <1>11 DEF Passed
<1> QED BY <1>8, <1>10, <1>12 DEF BoundInv

LEMMA AddFdKeeps ==
  ASSUME TypeOK, BoundInv, NEW h \in Handles, AddFd(h)
  PROVE  BoundInv'
<1> DEFINE y == hOf[h]
<1>1. /\ pc[h] = "addFd" /\ pc' = [pc EXCEPT ![h] = "idle"] /\ reg' = [reg EXCEPT ![arg[h]] = y]
      /\ firing' = NotFiring /\ clock' = [clock EXCEPT ![y] = NoHandle] /\ arg' = [arg EXCEPT ![h] = NoFd]
      /\ UNCHANGED <<hOf, fd, lost>>
  BY DEF AddFd, Goto, Unlock, Pass, Reactor!Register
<1>2. y \in Helpers /\ arg[h] \in Fds /\ fd[y] \in Fds
  BY <1>1 DEF TypeOK, Opened, Passing
<1>3. \A n \in Fds : reg'[n] = IF n = arg[h] THEN y ELSE reg[n]
  BY <1>1, <1>2 DEF TypeOK
<1>4. \A k \in Handles \ {h} : pc'[k] = pc[k] /\ arg'[k] = arg[k] /\ (pc[k] \in Passing => hOf[k] # y)
  BY <1>1 DEF TypeOK, BoundInv, Locked, Passing
<1>5. pc'[h] = "idle"
  BY <1>1 DEF TypeOK
<1>6. ASSUME NEW n \in Fds, NEW x \in Helpers, n = arg[h], x = y PROVE Bound(n, x)' \/ <<n, x>> \in lost
  <2>1. CASE n = fd[x]
    <3>1. pc'[h] \in Active /\ hOf'[h] = x /\ fd'[x] = n
      BY <1>1, <1>5, <1>6, <2>1 DEF Active, Subscribing
    <3> QED BY <3>1 DEF Bound
  <2>2. CASE n # fd[x]
    BY <1>1, <1>6, <2>2 DEF BoundInv, Passed, Passing
  <2> QED BY <2>1, <2>2
<1>7. ASSUME NEW n \in Fds, reg'[n] # NoHelper PROVE Bound(n, reg[n])' \/ <<n, reg'[n]>> \in lost
  <2>1. CASE n = arg[h]
    BY <1>2, <1>3, <1>6, <2>1 DEF Bound
  <2>2. CASE n # arg[h]
    <3>1. reg'[n] = reg[n] /\ reg[n] \in Helpers /\ "idle" \in Active
      BY <1>3, <1>7, <2>2 DEF TypeOK, Active, Subscribing
    <3>2. Bound(n, reg[n]) => Bound(n, reg[n])'
      BY <1>1, <3>1, StillBound DEF Bound
    <3> QED BY <1>7, <3>1, <3>2 DEF BoundInv, Handlers
  <2> QED BY <2>1, <2>2
<1>8. Handlers'
  BY <1>1, <1>7 DEF Handlers
<1>9. \A k \in Handles : pc'[k] \in Passing => k # h
  BY <1>5 DEF Passing
<1>10. \A x \in Helpers : x # y => clock'[x] = clock[x]
  BY <1>1 DEF TypeOK
<1>11. \A k \in Handles : pc'[k] \in Passing => k # h /\ pc[k] \in Passing /\ hOf[k] \in Helpers /\ hOf[k] # y /\ fd[hOf[k]] \in Fds
  BY <1>4, <1>9 DEF TypeOK, Passing, Opened
<1>12. Locked'
  BY <1>1, <1>10, <1>11 DEF BoundInv, Locked
<1>13. \A k \in Handles : pc'[k] \in Passing => (reg'[fd[hOf[k]]] = hOf[k] => reg[fd[hOf[k]]] = hOf[k])
  BY <1>3, <1>11
<1>14. Passed'
  BY <1>1, <1>4, <1>11, <1>13 DEF BoundInv, Passed
<1> QED BY <1>8, <1>12, <1>14 DEF BoundInv

\* The last del_fd of a helper takes its handler out, or one whose number was
\* replaced stays behind for good.
LEMMA DelFdKeeps ==
  ASSUME TypeOK, BoundInv, NEW h \in Handles, DelFd(h)
  PROVE  BoundInv'
<1> DEFINE y == hOf[h]
<1>1. /\ pc[h] \in Passing /\ pc' = [pc EXCEPT ![h] = AfterLeave(h)] /\ AfterLeave(h) \in {"idle", "closeEnd"}
      /\ reg' = [reg EXCEPT ![arg[h]] = NoHelper] /\ pc[h] # "addFd"
      /\ firing' = NotFiring /\ clock' = [clock EXCEPT ![y] = NoHandle] /\ arg' = [arg EXCEPT ![h] = NoFd]
      /\ UNCHANGED <<hOf, fd, lost>>
  BY DEF DelFd, Goto, Unlock, Pass, Reactor!Unregister, AfterLeave, Passing
<1>2. y \in Helpers /\ arg[h] \in Fds /\ fd[y] \in Fds
  BY <1>1 DEF TypeOK, Opened, Passing
<1>3. \A n \in Fds : reg'[n] = IF n = arg[h] THEN NoHelper ELSE reg[n]
  BY <1>1, <1>2 DEF TypeOK
<1>4. \A k \in Handles \ {h} : pc'[k] = pc[k] /\ arg'[k] = arg[k] /\ (pc[k] \in Passing => hOf[k] # y)
  BY <1>1 DEF TypeOK, BoundInv, Locked, Passing
<1>5. pc'[h] \in {"idle", "closeEnd"}
  BY <1>1 DEF TypeOK
<1>6. ASSUME NEW n \in Fds, reg'[n] # NoHelper PROVE Bound(n, reg[n])' \/ <<n, reg'[n]>> \in lost
  <2>1. n # arg[h] /\ reg'[n] = reg[n] /\ reg[n] \in Helpers
    BY <1>3, <1>6 DEF TypeOK
  <2>2. CASE reg[n] = y /\ Bound(n, y)
    BY <1>1, <2>1, <2>2 DEF BoundInv, Passed, Bound
  <2>3. CASE reg[n] # y /\ Bound(n, reg[n])
    <3>1. PICK k \in Handles : hOf[k] = reg[n] /\ pc[k] \in Active
      BY <2>3 DEF Bound
    <3>2. k # h /\ pc'[k] = pc[k]
      BY <1>4, <2>3, <3>1
    <3> QED BY <1>1, <2>1, <2>3, <3>1, <3>2 DEF Bound
  <2>4. CASE ~Bound(n, reg[n])
    BY <1>6, <2>1, <2>4 DEF BoundInv, Handlers
  <2> QED BY <2>2, <2>3, <2>4
<1>7. Handlers'
  BY <1>1, <1>6 DEF Handlers
<1>8. \A x \in Helpers : x # y => clock'[x] = clock[x]
  BY <1>1 DEF TypeOK
<1>9. \A k \in Handles : pc'[k] \in Passing => k # h
  BY <1>5 DEF Passing
<1>10. \A k \in Handles : pc'[k] \in Passing => k # h /\ pc[k] \in Passing /\ hOf[k] \in Helpers /\ hOf[k] # y /\ fd[hOf[k]] \in Fds
  BY <1>4, <1>9 DEF TypeOK, Passing, Opened
<1>11. Locked'
  BY <1>1, <1>8, <1>10 DEF BoundInv, Locked
<1>12. \A k \in Handles : pc'[k] \in Passing => (reg'[fd[hOf[k]]] = hOf[k] => reg[fd[hOf[k]]] = hOf[k])
  BY <1>3, <1>10, ConstantsAssumption
<1>13. Passed'
  BY <1>1, <1>4, <1>10, <1>12 DEF BoundInv, Passed
<1> QED BY <1>7, <1>11, <1>13 DEF BoundInv

\* Where others stay subscribed, they have still to leave.
LEMMA LeaveOthersKeeps ==
  ASSUME TypeOK, Membership, BoundInv, NEW h \in Handles, LeaveOthers(h)
  PROVE  BoundInv'
<1> DEFINE y == hOf[h]
<1>1. /\ pc' = [pc EXCEPT ![h] = AfterLeave(h)] /\ AfterLeave(h) \in {"idle", "closeEnd"}
      /\ pc[h] \in {"unregWait", "closeWait"} /\ conns[y] \ {h} # {}
      /\ UNCHANGED <<hOf, fd, lost, reg, firing, arg, clock>>
  BY DEF LeaveOthers, Leaving, Goto, AfterLeave
<1>2. y \in Helpers
  BY <1>1 DEF TypeOK, Opened
<1>3. PICK j \in Handles \ {h} : hOf[j] = y /\ pc[j] \in Active
  BY <1>1, <1>2 DEF TypeOK, Membership, Active
<1>4. \A k \in Handles \ {h} : pc'[k] = pc[k]
  BY <1>1 DEF TypeOK
<1>5. ASSUME NEW n \in Fds, NEW x \in Helpers, Bound(n, x) PROVE Bound(n, x)'
  <2>1. PICK k \in Handles \ {h} : hOf[k] = x /\ pc[k] \in Active
    BY <1>3, <1>5 DEF Bound
  <2> QED BY <1>1, <1>4, <1>5, <2>1 DEF Bound
<1>6. \A n \in Fds : reg[n] # NoHelper => reg[n] \in Helpers
  BY DEF TypeOK
<1>7. Handlers'
  BY <1>1, <1>5, <1>6 DEF BoundInv, Handlers
<1>8. \A k \in Handles : pc'[k] \in Passing => pc[k] \in Passing
  BY <1>1 DEF TypeOK, Passing
<1>9. Locked' /\ Passed'
  BY <1>1, <1>8 DEF BoundInv, Locked, Passed
<1> QED BY <1>7, <1>9 DEF BoundInv

\* The reactor thread and the strand take no handler in.
LEMMA OthersKeep ==
  ASSUME TypeOK, BoundInv, UNCHANGED <<hOf, pc, fd, lost, arg>>,
         \A k \in Handles : pc[k] \in Passing => clock'[hOf[k]] = clock[hOf[k]],
         \A n \in Fds : reg'[n] \in {reg[n], NoHelper},
         firing' # NotFiring => reg'[firing'[1]] = firing'[2]
  PROVE  BoundInv'
<1>1. \A n \in Fds : \A x \in Helpers : Bound(n, x) => Bound(n, x)'
  BY DEF Bound
<1>2. \A n \in Fds : reg'[n] # NoHelper => reg'[n] = reg[n] /\ reg[n] \in Helpers
  BY DEF TypeOK
<1>3. ASSUME NEW n \in Fds, reg'[n] # NoHelper PROVE Bound(n, reg[n])' \/ <<n, reg'[n]>> \in lost'
  BY <1>1, <1>2, <1>3 DEF BoundInv, Handlers, Bound
<1>4. Handlers'
  BY <1>3 DEF Handlers
<1>5. Locked'
  BY DEF BoundInv, Locked
<1>6. \A k \in Handles : pc[k] \in Passing => fd[hOf[k]] \in Fds /\ hOf[k] \in Helpers
  BY DEF TypeOK, Passing, Opened
<1>7. Passed'
  BY <1>2, <1>6, ConstantsAssumption DEF BoundInv, Passed
<1> QED BY <1>4, <1>5, <1>7 DEF BoundInv

LEMMA HandlersBound == Spec => []BoundInv
<1> USE ConstantsAssumption
<1>1. Init => BoundInv
  BY DEF Init, BoundInv, Handlers, Locked, Passed, Passing, NotFiring, Reactor!Init
<1>2. TypeOK /\ Membership /\ BoundInv /\ [Next]_vars => BoundInv'
  <2> SUFFICES ASSUME TypeOK, Membership, BoundInv, [Next]_vars PROVE BoundInv'
    OBVIOUS
  <2>1. ASSUME NEW h \in Handles, NEW c \in Clients, NEW p \in Pins, OpenPin(h, c, p) PROVE BoundInv'
    BY <2>1, OpenPinKeeps
  <2>2. ASSUME NEW h \in Handles, NEW n \in Fds, OpenValue(h, n) PROVE BoundInv'
    BY <2>2, OpenValueKeeps
  <2>3. ASSUME NEW h \in Handles, AddFd(h) PROVE BoundInv'
    BY <2>3, AddFdKeeps
  <2>4. ASSUME NEW h \in Handles, DelFd(h) PROVE BoundInv'
    BY <2>4, DelFdKeeps
  <2>5. ASSUME NEW h \in Handles, LeaveOthers(h) PROVE BoundInv'
    BY <2>5, LeaveOthersKeeps
  <2>6. ASSUME NEW h \in Handles, RegisterFirst(h) \/ LeaveLast(h) PROVE BoundInv'
    <3>1. /\ pc[h] \in {"regWait", "unregWait", "closeWait"} /\ clock[hOf[h]] = NoHandle
          /\ UNCHANGED <<hOf, fd, lost, reg, firing>> /\ Lock(h) /\ Pass(h, fd[hOf[h]])
          /\ \E label \in {"addFd", "unregDel", "closeDel"} : pc' = [pc EXCEPT ![h] = label]
      BY <2>6 DEF RegisterFirst, LeaveLast, Leaving, Goto
    <3>2. hOf[h] \in Helpers
      BY <3>1 DEF TypeOK, Opened
    <3> QED BY <3>1, <3>2, PassKeeps
  <2>7. ASSUME NEW h \in Handles, RegisterBegin(h) \/ UnregisterBegin(h) \/ CloseBegin(h) \/ DropBegin(h)
                                  \/ OpenShared(h) \/ OpenChecked(h) \/ RegisterShared(h)
        PROVE  BoundInv'
    <3>1. /\ UNCHANGED <<hOf, fd, lost, reg, firing, arg, clock>>
          /\ \E label \in {"regWait", "unregWait", "closeWait", "idle", "openValue"} :
                /\ pc' = [pc EXCEPT ![h] = label]
                /\ label = "openValue" => pc[h] = "opening"
      BY <2>7 DEF RegisterBegin, UnregisterBegin, CloseBegin, DropBegin, Begin, OpenShared, OpenChecked, RegisterShared, Goto, helper
    <3>2. PICK label \in {"regWait", "unregWait", "closeWait", "idle", "openValue"} :
                /\ pc' = [pc EXCEPT ![h] = label]
                /\ label = "openValue" => pc[h] = "opening"
      BY <3>1
    <3>3. label \notin Passing /\ (label \in Active \/ pc[h] \notin Active)
      BY <3>2 DEF Passing, Active, Subscribing
    <3> QED BY <3>1, <3>2, <3>3, MoveKeeps
  <2>8. ASSUME NEW h \in Handles, OpenFails(h) \/ CloseEnd(h) \/ DropEnd(h) \/ DropMap(h) PROVE BoundInv'
    <3>1. /\ UNCHANGED <<hOf, fd, lost, reg, firing, arg, clock>>
          /\ pc[h] \in {"opening", "openValue", "closeEnd", "dropped"}
          /\ \E label \in {"closed", "dropped"} : pc' = [pc EXCEPT ![h] = label]
      BY <2>8 DEF OpenFails, CloseEnd, DropEnd, DropMap, Release, Goto, helper
    <3>2. pc[h] \notin Active /\ "closed" \notin Passing /\ "dropped" \notin Passing
      BY <3>1 DEF Active, Subscribing, Passing
    <3> QED BY <3>1, <3>2, MoveKeeps
  <2>9. ASSUME NEW h \in Handles, AddFdFails(h) PROVE BoundInv'
    <3>1. /\ pc[h] = "addFd" /\ UNCHANGED <<hOf, fd, lost, reg, firing>> /\ pc' = [pc EXCEPT ![h] = "idle"]
          /\ arg' = [arg EXCEPT ![h] = NoFd] /\ clock' = [clock EXCEPT ![hOf[h]] = NoHandle]
      BY <2>9 DEF AddFdFails, Unlock, Pass, Goto
    <3>2. "idle" \in Active /\ "idle" \notin Passing
      BY DEF Active, Subscribing, Passing
    <3>3. \A k \in Handles \ {h} : pc[k] \in Passing => hOf[k] # hOf[h]
      BY <3>1, LockedAlone DEF BoundInv, Passing
    <3>4. \A k \in Handles \ {h} : arg'[k] = arg[k] /\ (pc[k] \in Passing => clock'[hOf[k]] = clock[hOf[k]])
      BY <3>1, <3>3 DEF TypeOK
    <3> QED BY <3>1, <3>2, <3>4, MoveKeeps
  <2>10. ASSUME NEW c \in Clients, Disconnect(c) PROVE BoundInv'
    BY <2>10, OthersKeep DEF Disconnect, helper, BoundInv, Handlers
  <2>11. ASSUME NEW n \in Fds, Event(n) PROVE BoundInv'
    <3>1. UNCHANGED <<hOf, pc, fd, lost, arg, clock, reg>> /\ firing' = <<n, reg[n]>>
      BY <2>11 DEF Event, Reactor!Fire, service, helper
    <3> QED BY <3>1, OthersKeep
  <2>12. CASE Handler
    <3>1. /\ UNCHANGED <<hOf, pc, fd, lost, arg, clock>>
          /\ \/ firing' = NotFiring /\ (reg' = reg \/ reg' = [reg EXCEPT ![firing[1]] = NoHelper])
             \/ UNCHANGED <<reg, firing>>
      BY <2>12 DEF Handler, HandlerPosts, HandlerRefuses, HandlerDestroyed, Reactor!Keep, Reactor!Drop, service, helper
    <3>2. \A n \in Fds : reg'[n] \in {reg[n], NoHelper}
      BY <3>1 DEF TypeOK
    <3>3. firing' # NotFiring => reg'[firing'[1]] = firing'[2]
      BY <3>1 DEF BoundInv, Handlers
    <3> QED BY <3>1, <3>2, <3>3, OthersKeep
  <2>13. CASE StrandStep
    <3>1. /\ UNCHANGED <<hOf, pc, fd, lost, arg, reg, firing>>
          /\ clock' # clock => clock[Target] \in {NoHandle, Strand}
          /\ clock' # clock => \E v : clock' = [clock EXCEPT ![Target] = v]
      BY <2>13 DEF StrandStep, SendBegin, SendEnd, SendDestroyed, service, helper
    <3>2. \A k \in Handles : pc[k] \in Passing => clock'[hOf[k]] = clock[hOf[k]]
      <4> SUFFICES ASSUME NEW k \in Handles, pc[k] \in Passing PROVE clock'[hOf[k]] = clock[hOf[k]]
        OBVIOUS
      <4>1. clock[hOf[k]] = k /\ k # NoHandle /\ k # Strand
        BY DEF BoundInv, Locked
      <4>2. CASE clock' = clock
        BY <4>2
      <4>3. CASE clock' # clock
        <5>1. Target # hOf[k]
          BY <3>1, <4>1, <4>3
        <5>2. PICK v : clock' = [clock EXCEPT ![Target] = v]
          BY <3>1, <4>3
        <5>3. hOf[k] \in Helpers
          BY DEF TypeOK, Opened, Passing
        <5> QED BY <5>1, <5>2, <5>3 DEF TypeOK
      <4> QED BY <4>2, <4>3
    <3> QED BY <3>1, <3>2, OthersKeep DEF BoundInv, Handlers
  <2>14. CASE UNCHANGED vars
    BY <2>14, OthersKeep DEF vars, service, helper, BoundInv, Handlers
  <2> QED
    BY <2>1, <2>2, <2>3, <2>4, <2>5, <2>6, <2>7, <2>8, <2>9, <2>10, <2>11, <2>12, <2>13, <2>14 DEF Next, CallStep
<1> QED BY <1>1, <1>2, TypedMembership, PTL DEF Spec

\* The reactor never calls the handler of a destroyed pin helper, however calls
\* overlap, but for handlers whose number an overlapping open has replaced.
THEOREM HandlersLive == Spec => []HandlerOfLiveHelper
<1>1. TypeOK /\ BoundInv => HandlerOfLiveHelper
  <2> SUFFICES ASSUME TypeOK, BoundInv PROVE HandlerOfLiveHelper
    OBVIOUS
  <2>1. ASSUME NEW n \in Fds, NEW x \in Helpers, Bound(n, x) PROVE Alive(x) /\ fd[x] = n
    BY <2>1 DEF Bound, Active, Subscribing, Alive, Holds
  <2>2. ASSUME NEW n \in Fds, reg[n] # NoHelper
        PROVE  (Alive(reg[n]) /\ fd[reg[n]] = n) \/ <<n, reg[n]>> \in lost
    BY <2>1, <2>2 DEF TypeOK, BoundInv, Handlers
  <2>3. ASSUME firing # NotFiring PROVE Alive(firing[2]) \/ firing \in lost
    <3>1. firing[1] \in Fds /\ firing[2] \in Helpers /\ firing = <<firing[1], firing[2]>>
      BY <2>3 DEF TypeOK
    <3>2. reg[firing[1]] = firing[2] /\ firing[2] # NoHelper
      BY <2>3, <3>1, ConstantsAssumption DEF BoundInv, Handlers
    <3> QED BY <2>2, <3>1, <3>2
  <2> QED BY <2>2, <2>3 DEF HandlerOfLiveHelper
<1> QED BY <1>1, TypedMembership, HandlersBound, PTL

-----------------------------------------------------------------------------
\* Calls and the loss of a connection neither post nor send events.
LEMMA CallsSendNothing ==
  ASSUME TypeOK, [Next]_vars, ~(\E n \in Fds : Event(n)), ~Handler, ~StrandStep
  PROVE  UNCHANGED events /\ (firing' = firing \/ firing' = NotFiring)
<1>1. ASSUME NEW h \in Handles, CallStep(h) PROVE UNCHANGED <<events, firing>>
  BY <1>1
  DEF CallStep, OpenShared, OpenChecked, OpenFails, OpenValue, RegisterShared, RegisterFirst, AddFd, AddFdFails,
      LeaveOthers, LeaveLast, DelFd, CloseEnd, DropEnd, DropMap, Reactor!Register, Reactor!Unregister
<1>2. ASSUME NEW h \in Handles, RegisterBegin(h) \/ UnregisterBegin(h) \/ CloseBegin(h) \/ DropBegin(h)
      PROVE  UNCHANGED <<events, firing>>
  BY <1>2 DEF RegisterBegin, UnregisterBegin, CloseBegin, DropBegin
<1>3. ASSUME NEW h \in Handles, NEW c \in Clients, NEW p \in Pins, OpenPin(h, c, p) PROVE UNCHANGED <<events, firing>>
  BY <1>3 DEF OpenPin
<1>4. ASSUME NEW c \in Clients, Disconnect(c) PROVE UNCHANGED <<events, firing>>
  BY <1>4 DEF Disconnect
<1> QED BY <1>1, <1>2, <1>3, <1>4 DEF Next, vars

LEMMA AskedAlways == Spec => []Asked
<1> USE ConstantsAssumption
<1>1. Init => Asked
  BY DEF Init, Asked
<1>2. TypeOK /\ Membership /\ Asked /\ [Next]_vars => Asked'
  <2> SUFFICES ASSUME TypeOK, Membership, Asked, [Next]_vars PROVE Asked'
    OBVIOUS
  <2>0. ASSUME NEW h \in Handles, NEW label, label # "regWait", pc' = [pc EXCEPT ![h] = label],
               conns' = conns, sub' = sub
        PROVE  Asked'
    BY <2>0, TypeOK, Asked DEF Asked, TypeOK
  <2>1. ASSUME NEW h \in Handles, NEW c \in Clients, NEW p \in Pins, OpenPin(h, c, p) PROVE Asked'
    BY <2>1, <2>0 DEF OpenPin, Goto
  <2>2. ASSUME NEW h \in Handles, NEW n \in Fds, OpenValue(h, n) PROVE Asked'
    BY <2>2, <2>0 DEF OpenValue, Goto
  <2>3. ASSUME NEW h \in Handles, RegisterBegin(h) PROVE Asked'
    BY <2>3, TypeOK, Asked DEF RegisterBegin, Begin, Goto, Asked, TypeOK, helper
  <2>4. ASSUME NEW h \in Handles, UnregisterBegin(h) \/ CloseBegin(h) \/ DropBegin(h) PROVE Asked'
    BY <2>4, <2>0 DEF UnregisterBegin, CloseBegin, DropBegin, Begin, Goto, helper
  <2>5. ASSUME NEW h \in Handles, OpenShared(h) \/ OpenChecked(h) \/ DropEnd(h) PROVE Asked'
    BY <2>5, <2>0 DEF OpenShared, OpenChecked, DropEnd, Goto, helper
  <2>6. ASSUME NEW h \in Handles, OpenFails(h) \/ CloseEnd(h) \/ DropMap(h) PROVE Asked'
    BY <2>6, <2>0 DEF OpenFails, CloseEnd, DropMap, Release, Goto, helper
  <2>7. ASSUME NEW h \in Handles, RegisterShared(h) \/ RegisterFirst(h) PROVE Asked'
    <3>1. /\ pc[h] = "regWait" /\ sub[h] # "none" /\ hOf[h] \in Helpers
      BY <2>7, TypeOK, Asked DEF RegisterShared, RegisterFirst, Asked, TypeOK, Opened
    <3>2. /\ conns' = [conns EXCEPT ![hOf[h]] = conns[hOf[h]] \cup {h}]
          /\ sub' = sub \/ sub' = [sub EXCEPT ![h] = "granted"]
          /\ pc' = [pc EXCEPT ![h] = "idle"] \/ pc' = [pc EXCEPT ![h] = "addFd"]
      BY <2>7 DEF RegisterShared, RegisterFirst, AddConnection, Granted, Goto
    <3>3. \A k \in Handles : sub[k] # "none" => sub'[k] # "none"
      BY <3>2, TypeOK DEF TypeOK
    <3>4. \A k \in Handles : pc'[k] = "regWait" => pc[k] = "regWait"
      BY <3>2, TypeOK DEF TypeOK
    <3>5. \A x \in Helpers : \A k \in conns'[x] : k \in Handles /\ (k \in conns[x] \/ k = h)
      BY <3>1, <3>2, TypeOK DEF TypeOK
    <3> QED BY <3>1, <3>3, <3>4, <3>5, Asked DEF Asked
  <2>8. ASSUME NEW h \in Handles, AddFd(h) \/ AddFdFails(h) PROVE Asked'
    <3>1. /\ sub' = sub \/ sub' = [sub EXCEPT ![h] = "granted"]
          /\ pc' = [pc EXCEPT ![h] = "idle"] /\ conns' = conns
      BY <2>8 DEF AddFd, AddFdFails, Granted, Goto
    <3> QED BY <3>1, TypeOK, Asked DEF Asked, TypeOK
  <2>9. ASSUME NEW h \in Handles, LeaveOthers(h) \/ LeaveLast(h) PROVE Asked'
    <3>1. /\ pc[h] \in {"unregWait", "closeWait"} /\ hOf[h] \in Helpers
      BY <2>9, TypeOK DEF LeaveOthers, LeaveLast, Leaving, TypeOK, Opened
    <3>2. /\ conns' = [conns EXCEPT ![hOf[h]] = conns[hOf[h]] \ {h}]
          /\ sub' = sub \/ sub' = [sub EXCEPT ![h] = "none"]
          /\ \E label \in {"idle", "closeEnd", "unregDel", "closeDel"} : pc' = [pc EXCEPT ![h] = label]
      BY <2>9 DEF LeaveOthers, LeaveLast, DelConnection, Forget, Goto, AfterLeave
    <3>3. \A k \in Handles \ {h} : sub'[k] = sub[k] /\ pc'[k] = pc[k]
      BY <3>2, TypeOK DEF TypeOK
    <3>4. pc'[h] # "regWait"
      BY <3>2, TypeOK DEF TypeOK
    <3>5. \A x \in Helpers : \A k \in conns'[x] : k \in Handles /\ k \in conns[x] /\ k # h
      BY <3>1, <3>2, TypeOK, Membership DEF TypeOK, Membership
    <3> QED BY <3>3, <3>4, <3>5, Asked DEF Asked
  <2>10. ASSUME NEW h \in Handles, DelFd(h) PROVE Asked'
    <3>1. /\ pc[h] \in {"unregDel", "closeDel"} /\ conns' = conns /\ sub' = [sub EXCEPT ![h] = "none"]
          /\ pc' = [pc EXCEPT ![h] = "idle"] \/ pc' = [pc EXCEPT ![h] = "closeEnd"]
      BY <2>10 DEF DelFd, Forget, Goto, AfterLeave
    <3>2. \A x \in Helpers : h \notin conns[x]
      BY <3>1, Membership DEF Membership, Subscribing
    <3> QED BY <3>1, <3>2, TypeOK, Asked DEF Asked, TypeOK
  <2>11. ASSUME NEW c \in Clients, Disconnect(c) PROVE Asked'
    BY <2>11, Asked DEF Disconnect, Asked, helper
  <2>12. ASSUME NEW n \in Fds, Event(n) PROVE Asked'
    BY <2>12, Asked DEF Event, Asked, helper, service
  <2>13. CASE Handler
    BY <2>13, Asked DEF Handler, HandlerPosts, HandlerRefuses, HandlerDestroyed, Asked, helper, service
  <2>14. CASE SendBegin \/ SendDestroyed
    BY <2>14, Asked DEF SendBegin, SendDestroyed, Asked, helper, service
  <2>15. CASE SendEnd
    <3>1. Target \in Helpers
      BY <2>15, TypeOK DEF SendEnd, Target, TypeOK
    <3>2. /\ conns' = [conns EXCEPT ![Target] = {h \in conns[Target] : owner[h] \in online}]
          /\ UNCHANGED <<sub, pc>>
      BY <2>15 DEF SendEnd, service
    <3>3. \A x \in Helpers : conns'[x] \subseteq conns[x]
      BY <3>1, <3>2, TypeOK DEF TypeOK
    <3> QED BY <3>2, <3>3, Asked DEF Asked
  <2>16. CASE UNCHANGED vars
    BY <2>16, Asked DEF vars, Asked, helper, service
  <2> QED
    BY <2>1, <2>2, <2>3, <2>4, <2>5, <2>6, <2>7, <2>8, <2>9, <2>10, <2>11, <2>12, <2>13, <2>14, <2>15, <2>16
    DEF Next, CallStep, StrandStep
<1> QED BY <1>1, <1>2, TypedMembership, PTL DEF Spec

\* The head of the queue goes, and those it was sent to have got no later one.
LEMMA TailStaysOrdered ==
  ASSUME TypeOK, Ordered, queue # << >>, queue' = Tail(queue), UNCHANGED <<tick, firing>>,
         \A h \in Handles : last'[h] = last[h] \/ last'[h] = Head(queue)[2]
  PROVE  Ordered'
<1>1. /\ queue \in Seq(Helpers \X (1..MaxEvents)) /\ MaxEvents \in Nat /\ Len(queue) \in Nat \ {0}
      /\ \A h \in Handles : last[h] \in Nat
  BY ConstantsAssumption DEF TypeOK
<1>2. \A i \in DOMAIN queue : queue[i][2] \in Nat
  BY <1>1
<1>3. /\ Len(queue') = Len(queue) - 1
      /\ \A i \in DOMAIN queue' : i \in 1..(Len(queue) - 1) /\ i + 1 \in DOMAIN queue /\ queue'[i] = queue[i + 1]
  BY <1>1
<1>4. 1 \in DOMAIN queue /\ Head(queue) = queue[1]
  BY <1>1
<1>5. \A h \in Handles : last'[h] = last[h] \/ last'[h] = queue[1][2]
  BY <1>4
<1>6. tick' = tick /\ firing' = firing
  OBVIOUS
<1>7. \A h \in Handles : Past(last'[h])
  BY <1>4, <1>5 DEF Ordered
<1>8. \A i \in DOMAIN queue' : Past(queue'[i][2])
  BY <1>3 DEF Ordered
<1>9. \A i \in DOMAIN queue' : \A h \in Handles : last'[h] < queue'[i][2]
  <2> TAKE i \in DOMAIN queue'
  <2> TAKE h \in Handles
  <2>1. 1 < i + 1 /\ i + 1 \in DOMAIN queue /\ queue'[i] = queue[i + 1]
    BY <1>3
  <2>2. queue[1][2] < queue[i + 1][2] /\ last[h] < queue[i + 1][2]
    BY <2>1, <1>4 DEF Ordered
  <2> QED BY <2>1, <2>2, <1>5
<1>10. \A i, j \in DOMAIN queue' : i < j => queue'[i][2] < queue'[j][2]
  <2> TAKE i, j \in DOMAIN queue'
  <2> HAVE i < j
  <2>1. /\ i + 1 < j + 1 /\ i + 1 \in DOMAIN queue /\ j + 1 \in DOMAIN queue
        /\ queue'[i] = queue[i + 1] /\ queue'[j] = queue[j + 1]
    BY <1>3
  <2> QED BY <2>1 DEF Ordered
<1>11. \A i \in DOMAIN queue' : Past(queue[i][2])'
  BY <1>6, <1>8 DEF Past
<1>12. \A h \in Handles : Past(last[h])'
  BY <1>6, <1>7 DEF Past
<1> QED BY <1>9, <1>10, <1>11, <1>12 DEF Ordered

LEMMA OrderedAlways == Spec => []Ordered
<1> USE ConstantsAssumption
<1>1. Init => Ordered
  BY DEF Init, Ordered, Past, NotFiring, Reactor!Init
<1>2. TypeOK /\ Ordered /\ [Next]_vars => Ordered'
  <2> SUFFICES ASSUME TypeOK, Ordered, [Next]_vars PROVE Ordered'
    OBVIOUS
  <2>0. /\ tick \in Nat /\ \A h \in Handles : last[h] \in Nat
        /\ queue \in Seq(Helpers \X (1..MaxEvents)) /\ \A i \in DOMAIN queue : queue[i][2] \in Nat
    BY TypeOK DEF TypeOK
  <2>1. CASE ~(\E n \in Fds : Event(n)) /\ ~Handler /\ ~StrandStep
    <3>1. UNCHANGED <<queue, tick, last>> /\ (firing' = firing \/ firing' = NotFiring)
      BY <2>1, CallsSendNothing DEF events
    <3> QED BY <3>1, Ordered DEF Ordered, Past
  <2>2. ASSUME NEW n \in Fds, Event(n) PROVE Ordered'
    <3>1. UNCHANGED <<queue, last>> /\ tick' = tick + 1
      BY <2>2 DEF Event
    <3>2. ASSUME NEW t \in Nat, Past(t) PROVE Past(t)'
      BY <2>0, <3>1, <3>2 DEF Past
    <3>3. \A i \in DOMAIN queue : Past(queue[i][2])'
      <4> TAKE i \in DOMAIN queue
      <4>1. queue[i][2] \in Nat /\ Past(queue[i][2])
        BY <2>0, Ordered DEF Ordered
      <4> QED BY <4>1, <2>0, <3>1 DEF Past
    <3>4. \A h \in Handles : Past(last[h])'
      <4> TAKE h \in Handles
      <4>1. last[h] \in Nat /\ Past(last[h])
        BY <2>0, Ordered DEF Ordered
      <4> QED BY <4>1, <2>0, <3>1 DEF Past
    <3> QED BY <3>1, <3>3, <3>4, Ordered DEF Ordered
  <2>3. CASE Handler /\ queue' = Append(queue, <<firing[2], tick>>)
    <3>1. /\ firing # NotFiring /\ firing' = NotFiring /\ UNCHANGED <<tick, last>>
          /\ queue' = Append(queue, <<firing[2], tick>>)
      <4>1. queue' # queue
        BY <2>0, <2>3
      <4> QED BY <2>3, <4>1 DEF Handler, HandlerPosts, HandlerRefuses, HandlerDestroyed, Reactor!Keep, events
    <3>2. \A h \in Handles : last[h] < tick
      BY <3>1, Ordered DEF Ordered, Past
    <3>3. \A i \in DOMAIN queue : queue[i][2] < tick
      BY <3>1, Ordered DEF Ordered, Past
    <3>4. /\ DOMAIN queue' = DOMAIN queue \cup {Len(queue) + 1} /\ DOMAIN queue = 1..Len(queue) /\ Len(queue) \in Nat
          /\ \A i \in DOMAIN queue : queue'[i] = queue[i]
          /\ queue'[Len(queue) + 1] = <<firing[2], tick>>
      BY <2>0, <3>1
    <3>5. \A i \in DOMAIN queue' : queue'[i][2] <= tick /\ \A h \in Handles : last[h] < queue'[i][2]
      <4> TAKE i \in DOMAIN queue'
      <4>1. CASE i \in DOMAIN queue
        BY <4>1, <3>3, <3>4, <2>0, Ordered DEF Ordered
      <4>2. CASE i = Len(queue) + 1
        BY <4>2, <3>2, <3>4, <2>0
      <4> QED BY <4>1, <4>2, <3>4
    <3>6. \A i, j \in DOMAIN queue' : i < j => queue'[i][2] < queue'[j][2]
      <4> TAKE i, j \in DOMAIN queue'
      <4> HAVE i < j
      <4>1. i \in DOMAIN queue
        BY <3>4
      <4>2. CASE j \in DOMAIN queue
        BY <4>1, <4>2, <3>4, Ordered DEF Ordered
      <4>3. CASE j = Len(queue) + 1
        BY <4>1, <4>3, <3>3, <3>4
      <4> QED BY <4>2, <4>3, <3>4
    <3> QED BY <3>1, <3>2, <3>5, <3>6, <2>0 DEF Ordered, Past
  <2>4. CASE Handler /\ queue' # Append(queue, <<firing[2], tick>>)
    <3>1. UNCHANGED <<queue, tick, last>> /\ firing' \in {firing, NotFiring}
      BY <2>4 DEF Handler, HandlerPosts, HandlerRefuses, HandlerDestroyed, Reactor!Drop, events
    <3> QED BY <3>1, Ordered DEF Ordered, Past
  <2>5. CASE SendBegin
    BY <2>5, Ordered DEF SendBegin, events, Ordered, Past
  <2>6. CASE SendEnd
    <3>1. /\ queue # << >> /\ queue' = Tail(queue) /\ UNCHANGED <<tick, firing>>
          /\ \A h \in Handles : last'[h] = last[h] \/ last'[h] = Head(queue)[2]
      BY <2>6 DEF SendEnd
    <3> QED BY <3>1, TailStaysOrdered
  <2>7. CASE SendDestroyed
    <3>1. queue # << >> /\ queue' = Tail(queue) /\ UNCHANGED <<tick, firing, last>>
      BY <2>7 DEF SendDestroyed
    <3> QED BY <3>1, TailStaysOrdered
  <2> QED BY <2>1, <2>2, <2>3, <2>4, <2>5, <2>6, <2>7 DEF StrandStep
<1> QED BY <1>1, <1>2, TypedMembership, PTL DEF Spec

\* An event goes only to a handle whose client has asked for events and was not
\* told that they stopped, and no handle gets an event twice or after a later
\* one: for any pins, clients and orders of calls, posts and losses.
THEOREM EventsInOrder == Spec => SentAsSubscribed
<1>1. TypeOK /\ Asked /\ Ordered /\ [Next]_vars
      => [\A h \in Handles : last'[h] # last[h] => sub[h] # "none" /\ last'[h] > last[h]]_vars
  <2> SUFFICES ASSUME TypeOK, Asked, Ordered, [Next]_vars, NEW h \in Handles, last'[h] # last[h]
               PROVE  sub[h] # "none" /\ last'[h] > last[h]
    OBVIOUS
  <2>1. SendEnd
    <3>1. ~(\E n \in Fds : Event(n)) /\ ~Handler /\ ~SendBegin /\ ~SendDestroyed
      BY DEF Event, Handler, HandlerPosts, HandlerRefuses, HandlerDestroyed, SendBegin, SendDestroyed, events
    <3>2. StrandStep
      BY <3>1, CallsSendNothing DEF events
    <3> QED BY <3>1, <3>2 DEF StrandStep
  <2>2. /\ queue # << >> /\ Target \in Helpers /\ h \in conns[Target] /\ last'[h] = Head(queue)[2]
    BY <2>1, TypeOK DEF SendEnd, TypeOK, Target
  <2>3. sub[h] # "none"
    BY <2>2, Asked DEF Asked
  <2>4. 1 \in DOMAIN queue /\ Head(queue) = queue[1] /\ queue[1][2] \in Nat /\ last[h] \in Nat
    BY <2>2, TypeOK DEF TypeOK
  <2>5. last[h] < queue[1][2]
    BY <2>4, Ordered DEF Ordered
  <2> QED BY <2>2, <2>3, <2>4, <2>5
<1> QED BY <1>1, TypedMembership, AskedAlways, OrderedAlways, PTL DEF Spec, SentAsSubscribed
=============================================================================
