------------------------- MODULE FileServiceProofs -------------------------
(***************************************************************************)
(* Theorems about FileService, for any set of threads, handles and         *)
(* descriptor numbers, whichever files can be seeked, polled or shared.    *)
(***************************************************************************)
EXTENDS FileService, TLAPS

\* The service is destroyed by one thread when no call is left.
Phases == /\ life \notin {"up", "down"} => \A t \in Threads : pc[t] = "idle"
          /\ life # "destroying" => todo = {}

\* A call that has saved a position was asked for one.
Placed == \A t \in Threads : pc[t] = "place" => req[t].at \in 0..MaxPos

Control == TypeOK /\ Phases /\ Placed

\* Before a number is handed to the reactor, it belongs to the file that
\* names it for as long as that file exists.
Exists(h) == h \in files \/ \E t \in Threads : hdl[t] = h
Owned ==
  /\ \A n \in Fds : desc[n] \in Handles => fdOf[desc[n]] = n
  /\ \A h \in Handles : Exists(h) /\ fdOf[h] \notin handed => desc[fdOf[h]] = h
  /\ ClosedOnce
  /\ NoDescriptorLeaks
HandedOver ==
  /\ \A n \in Fds : reg[n] # NoHandle => n \in handed
  /\ firing # NotFiring => firing[1] \in handed

\* A handle that is not shared is used by one call at a time and stays in
\* files_ during it; a close that is about to erase it has no handler left.
OneCall == \A t, u \in Threads : hdl[t] = hdl[u] /\ hdl[t] \in Handles \ Shared => t = u
InTable == \A t \in Threads : hdl[t] \in Handles \ Shared /\ pc[t] # "opened" => hdl[t] \in files
Unwatched ==
  \A n \in Fds : reg[n] \in Handles \ Shared =>
    /\ \A t \in Threads : pc[t] = "closeErase" => hdl[t] # reg[n]
    /\ life = "destroying" => reg[n] \in todo
    /\ life \notin {"freeing", "gone"}
Handlers == OneCall /\ InTable /\ Unwatched /\ HandlersHaveFiles

\* Where a file that one call at a time uses is, as far as the client can know:
\* at rest and before a call moves it where the client computes it to be; a
\* call that will set back has the position to set back to.  The descriptor
\* still has to be the file's own, so the number is not handed over.
Agree(h, p) == cursor[h] # NoPos => p = cursor[h]
InCall(t, h) ==
  /\ pc[t] \in {"opened", "begin", "place", "end"} \/ (pc[t] = "data" /\ ~req[t].back)
       => Agree(h, pos[h])
  /\ pc[t] = "place" /\ req[t].back => saved[t] = pos[h]
  /\ pc[t] \in {"data", "back"} /\ req[t].back => Agree(h, saved[t])
At(h) ==
  /\ fdOf[h] = NoFd => pos[h] = 0 /\ cursor[h] = 0
  /\ Exists(h) /\ fdOf[h] \notin handed =>
       /\ (\A t \in Threads : hdl[t] # h) => Agree(h, pos[h])
       /\ \A t \in Threads : hdl[t] = h => InCall(t, h)
SetsBack == \A t \in Threads : pc[t] = "back" => req[t].back
Positioned == SetsBack /\ \A h \in Tracked : At(h)

-----------------------------------------------------------------------------
LEMMA RequestFields ==
  /\ NoRequest \in Requests
  /\ \A r \in Requests : /\ r.op \in {"tell", "register", "unregister", "seek"} \cup Transfers
                         /\ r.back \in BOOLEAN
                         /\ r.at = NoPos \/ r.at \in 0..MaxPos
                         /\ r.op = "seek" => r.at \in 0..MaxPos
                         /\ r.at = NoPos => ~r.back
<1>1. NoPos \notin 0..MaxPos
  BY ConstantsAssumption DEF NoPos
<1> QED BY <1>1 DEF Requests, NoRequest, Transfers

\* A call in progress holds a file that has a number.
LEMMA CallTyped ==
  ASSUME TypeOK, NEW t \in Threads, pc[t] # "idle"
  PROVE  hdl[t] \in Handles /\ fdOf[hdl[t]] \in Fds
BY DEF TypeOK

\* The kernel's state keeps its type when a number is closed.
LEMMA CloseTyped ==
  ASSUME TypeOK, NEW n \in Fds, NEW h \in Handles, CloseFor(n, h)
  PROVE  /\ desc' \in [Fds -> Handles \cup {Other, NoFile}]
         /\ pos' \in [Handles -> 0..MaxPos]
         /\ stolen' \in SUBSET Fds
BY ConstantsAssumption DEF TypeOK, CloseFor

LEMMA ReturnTyped ==
  ASSUME TypeOK, NEW t \in Threads, NEW left, pc[t] # "idle", Return(t, left)
  PROVE  /\ desc' \in [Fds -> Handles \cup {Other, NoFile}]
         /\ pos' \in [Handles -> 0..MaxPos]
         /\ stolen' \in SUBSET Fds
         /\ pc' = [pc EXCEPT ![t] = "idle"]
         /\ hdl' = [hdl EXCEPT ![t] = NoHandle]
<1>1. hdl[t] \in Handles /\ fdOf[hdl[t]] \in Fds
  BY CallTyped
<1>2. CASE hdl[t] \notin left /\ \A u \in Threads \ {t} : hdl[u] # hdl[t]
  BY <1>1, <1>2, CloseTyped DEF Return, Goto
<1>3. CASE ~(hdl[t] \notin left /\ \A u \in Threads \ {t} : hdl[u] # hdl[t])
  BY <1>3 DEF Return, Goto, Untouched, kernel, TypeOK
<1> QED BY <1>2, <1>3

LEMMA DelFdTyped ==
  ASSUME TypeOK, NEW h \in Handles, fdOf[h] \in Fds, DelFd(h)
  PROVE  /\ desc' \in [Fds -> Handles \cup {Other, NoFile}]
         /\ pos' \in [Handles -> 0..MaxPos]
         /\ stolen' \in SUBSET Fds
         /\ reg' = [reg EXCEPT ![fdOf[h]] = NoHandle]
         /\ firing' = firing /\ firing = NotFiring
<1>1. /\ reg' = [reg EXCEPT ![fdOf[h]] = NoHandle]
      /\ firing' = firing /\ firing = NotFiring
  BY DEF DelFd, Reactor!Unregister
<1>2. CASE reg[fdOf[h]] # NoHandle
  BY <1>1, <1>2, CloseTyped DEF DelFd
<1>3. CASE reg[fdOf[h]] = NoHandle
  BY <1>1, <1>3 DEF DelFd, Untouched, kernel, TypeOK
<1> QED BY <1>1, <1>2, <1>3

\* Offsets stay within the file.
LEMMA OffsetTyped ==
  ASSUME TypeOK, NEW h \in Handles, fdOf[h] \in Fds
  PROVE  /\ Offset(h) \in 0..MaxPos
         /\ \A p \in 0..MaxPos : Moved(h, p) \in [Handles -> 0..MaxPos]
BY ConstantsAssumption DEF TypeOK, Offset, Moved

LEMMA KnowsTyped ==
  ASSUME TypeOK, NEW h \in Handles, NEW p \in Positions, Knows(h, p)
  PROVE  cursor' \in [Handles -> Positions]
BY DEF TypeOK, Knows

LEMMA TransferTyped ==
  ASSUME TypeOK, NEW t \in Threads, Transfer(t), hdl[t] \in Handles, fdOf[hdl[t]] \in Fds
  PROVE  pos' \in [Handles -> 0..MaxPos] /\ cursor' \in [Handles -> Positions]
<1> DEFINE h == hdl[t]
           k == IF desc[fdOf[h]] \in Seekable /\ Offset(h) < MaxPos THEN 1 ELSE 0
<1>1. Offset(h) + k \in 0..MaxPos /\ 0 \in 0..MaxPos /\ k \in {0, 1}
  BY OffsetTyped, ConstantsAssumption
<1>2. pos' = Moved(h, IF h \in Devices THEN 0 ELSE Offset(h) + k)
  BY DEF Transfer
<1>3. pos' \in [Handles -> 0..MaxPos]
  BY <1>1, <1>2, OffsetTyped
<1>4. CASE req[t].back \/ cursor[h] + k > MaxPos
  BY <1>3, <1>4 DEF Transfer, TypeOK
<1>5. CASE ~(req[t].back \/ cursor[h] + k > MaxPos)
  <2>1. Knows(h, cursor[h] + k)
    BY <1>5 DEF Transfer
  <2>2. cursor[h] + k \in Positions
    BY <1>1, <1>5, ConstantsAssumption DEF TypeOK, Positions, NoPos
  <2> QED BY <1>3, <2>1, <2>2, KnowsTyped
<1> QED BY <1>4, <1>5

-----------------------------------------------------------------------------
LEMMA Controlled == Spec => []Control
<1> USE ConstantsAssumption
<1>1. Init => Control
  <2> SUFFICES ASSUME Init PROVE Control
    OBVIOUS
  <2>1. firing = NotFiring /\ reg \in [Fds -> Handles \cup {NoHandle}]
    BY DEF Init, NotFiring, Reactor!Init
  <2>2. NoRequest \in Requests
    BY RequestFields
  <2>3. 0 \in 0..MaxPos /\ 0 \in Positions
    BY DEF Positions, NoPos
  <2>4. TypeOK
    BY <2>1, <2>2, <2>3 DEF Init, TypeOK, Closing, Steps
  <2> QED BY <2>4 DEF Init, Control, Phases, Placed
<1>2. Control /\ [Next]_vars => Control'
  <2> SUFFICES ASSUME TypeOK, Phases, Placed, [Next]_vars PROVE Control'
    BY DEF Control
  <2>0. /\ NoRequest \in Requests /\ NoPos \in Positions
        /\ 0 \in 0..MaxPos /\ 0 \in Positions /\ 0..MaxPos \subseteq Positions
    BY RequestFields DEF Positions, NoPos
  <2>1. ASSUME NEW t \in Threads, NEW h \in Handles, NEW n \in Fds, Open(t, h, n) PROVE Control'
    BY <2>1, <2>0 DEF Open, Goto, Control, TypeOK, Phases, Placed, Closing, Steps, NotFiring, service, table, kernel, reactor, call
  <2>2. ASSUME NEW t \in Threads, AddFile(t) PROVE Control'
    <3>1. /\ desc' \in [Fds -> Handles \cup {Other, NoFile}]
          /\ pos' \in [Handles -> 0..MaxPos]
          /\ stolen' \in SUBSET Fds
          /\ pc' = [pc EXCEPT ![t] = "idle"]
          /\ hdl' = [hdl EXCEPT ![t] = NoHandle]
      BY <2>2, ReturnTyped DEF AddFile
    <3> QED BY <2>2, <2>0, <3>1 DEF AddFile, Goto, Control, TypeOK, Phases, Placed, Closing, Steps, NotFiring, service, table, kernel, reactor, call
  <2>3. ASSUME NEW t \in Threads, NEW h \in Handles, NEW r \in Requests, GetFile(t, h, r) PROVE Control'
    BY <2>3, <2>0 DEF GetFile, Goto, Control, TypeOK, Phases, Placed, Closing, Steps, NotFiring, service, table, kernel, reactor, call
  <2>4. ASSUME NEW t \in Threads, NEW h \in Handles, CloseBegin(t, h) PROVE Control'
    BY <2>4, <2>0 DEF CloseBegin, Goto, Control, TypeOK, Phases, Placed, Closing, Steps, NotFiring, service, table, kernel, reactor, call
  <2>5. ASSUME NEW t \in Threads, Tell(t) PROVE Control'
    BY <2>5, <2>0 DEF Tell, Over, Goto, Control, TypeOK, Phases, Placed, Closing, Steps, NotFiring, service, table, kernel, reactor, call
  <2>6. ASSUME NEW t \in Threads, Seek(t) PROVE Control'
    <3>1. hdl[t] \in Handles /\ fdOf[hdl[t]] \in Fds
      BY <2>6, CallTyped DEF Seek
    <3>2. req[t].at \in 0..MaxPos
      BY <2>6, RequestFields DEF Seek, TypeOK, Placed
    <3>3. pos' \in [Handles -> 0..MaxPos]
      BY <2>6, <3>1, <3>2, OffsetTyped DEF Seek, LSeek, TypeOK
    <3>4. cursor' \in [Handles -> Positions]
      BY <2>6, <2>0, <3>1, <3>2, KnowsTyped DEF Seek, TypeOK
    <3> QED BY <2>6, <2>0, <3>1, <3>3, <3>4 DEF Seek, Over, Goto, Control, TypeOK, Phases, Placed, Closing, Steps, NotFiring, service, table, kernel, reactor, call
  <2>7. ASSUME NEW t \in Threads, SeekFails(t) PROVE Control'
    BY <2>7, <2>0 DEF SeekFails, Over, Goto, Control, TypeOK, Phases, Placed, Closing, Steps, NotFiring, service, table, kernel, reactor, call
  <2>8. ASSUME NEW t \in Threads, SavePosition(t) PROVE Control'
    <3>1. hdl[t] \in Handles /\ fdOf[hdl[t]] \in Fds
      BY <2>8, CallTyped DEF SavePosition
    <3>2. Offset(hdl[t]) \in 0..MaxPos /\ req[t].at \in 0..MaxPos
      BY <2>8, <3>1, OffsetTyped, RequestFields DEF SavePosition, TypeOK
    <3> QED BY <2>8, <2>0, <3>1, <3>2 DEF SavePosition, Goto, Control, TypeOK, Phases, Placed, Closing, Steps, NotFiring, service, table, kernel, reactor, call
  <2>9. ASSUME NEW t \in Threads, Place(t) PROVE Control'
    <3>1. hdl[t] \in Handles /\ fdOf[hdl[t]] \in Fds
      BY <2>9, CallTyped DEF Place
    <3>2. req[t].at \in 0..MaxPos
      BY <2>9, RequestFields DEF Place, TypeOK, Placed
    <3>3. pos' \in [Handles -> 0..MaxPos]
      BY <2>9, <3>1, <3>2, OffsetTyped DEF Place, LSeek, TypeOK
    <3>4. cursor' \in [Handles -> Positions]
      BY <2>9, <2>0, <3>1, <3>2, KnowsTyped DEF Place, TypeOK
    <3> QED BY <2>9, <2>0, <3>1, <3>3, <3>4 DEF Place, Over, Goto, Control, TypeOK, Phases, Placed, Closing, Steps, NotFiring, service, table, kernel, reactor, call
  <2>10. ASSUME NEW t \in Threads, WritePart(t) PROVE Control'
    <3>1. pc[t] \in {"begin", "data"}
      BY <2>10 DEF WritePart, Transfer, AtData
    <3>2. pos' \in [Handles -> 0..MaxPos] /\ cursor' \in [Handles -> Positions]
      BY <2>10, <3>1, CallTyped, TransferTyped DEF WritePart
    <3> QED BY <2>10, <2>0, <3>1, <3>2 DEF WritePart, Over, Goto, Control, TypeOK, Phases, Placed, Closing, Steps, NotFiring, service, table, kernel, reactor, call
  <2>11. ASSUME NEW t \in Threads, TransferEnds(t) PROVE Control'
    <3>1. pc[t] \in {"begin", "data"}
      BY <2>11 DEF TransferEnds, Transfer, AtData
    <3>2. pos' \in [Handles -> 0..MaxPos] /\ cursor' \in [Handles -> Positions]
      BY <2>11, <3>1, CallTyped, TransferTyped DEF TransferEnds
    <3> QED BY <2>11, <2>0, <3>1, <3>2 DEF TransferEnds, Over, Goto, Control, TypeOK, Phases, Placed, Closing, Steps, NotFiring, service, table, kernel, reactor, call
  <2>12. ASSUME NEW t \in Threads, TransferFails(t) PROVE Control'
    <3>0. pc[t] \in {"begin", "data", "place", "back"}
      BY <2>12 DEF TransferFails, AtData
    <3>1. hdl[t] \in Handles /\ fdOf[hdl[t]] \in Fds
      BY <3>0, CallTyped
    <3>2. pos' \in [Handles -> 0..MaxPos] /\ cursor' \in [Handles -> Positions]
      BY <2>12, <2>0, <3>1, OffsetTyped, KnowsTyped DEF TransferFails, TypeOK
    <3> QED BY <2>12, <2>0, <3>0, <3>1, <3>2 DEF TransferFails, Over, Goto, Control, TypeOK, Phases, Placed, Closing, Steps, NotFiring, service, table, kernel, reactor, call
  <2>13. ASSUME NEW t \in Threads, SetBack(t) PROVE Control'
    <3>1. hdl[t] \in Handles /\ fdOf[hdl[t]] \in Fds
      BY <2>13, CallTyped DEF SetBack
    <3>2. saved[t] \in 0..MaxPos
      BY <2>13, RequestFields DEF SetBack, TypeOK, Placed
    <3>3. pos' \in [Handles -> 0..MaxPos]
      BY <2>13, <3>1, <3>2, OffsetTyped DEF SetBack, LSeek, TypeOK
    <3> QED BY <2>13, <2>0, <3>1, <3>3 DEF SetBack, Over, Goto, Control, TypeOK, Phases, Placed, Closing, Steps, NotFiring, service, table, kernel, reactor, call
  <2>14. ASSUME NEW t \in Threads, AddFd(t) PROVE Control'
    <3>1. hdl[t] \in Handles /\ fdOf[hdl[t]] \in Fds
      BY <2>14, CallTyped DEF AddFd
    <3> QED BY <2>14, <2>0, <3>1 DEF AddFd, Over, Handed, Reactor!Register, Goto, Control, TypeOK, Phases, Placed, Closing, Steps, NotFiring, service, table, kernel, reactor, call
  <2>15. ASSUME NEW t \in Threads, AddFdFails(t) PROVE Control'
    <3>1. hdl[t] \in Handles /\ fdOf[hdl[t]] \in Fds
      BY <2>15, CallTyped DEF AddFdFails, TypeOK, NotFiring, Reactor!Drop
    <3>2. /\ desc' \in [Fds -> Handles \cup {Other, NoFile}]
          /\ pos' \in [Handles -> 0..MaxPos]
          /\ stolen' \in SUBSET Fds
      BY <2>15, <3>1, CloseTyped DEF AddFdFails
    <3> QED BY <2>15, <2>0, <3>1, <3>2 DEF AddFdFails, Over, Handed, Goto, Control, TypeOK, Phases, Placed, Closing, Steps, NotFiring, service, table, kernel, reactor, call
  <2>16. ASSUME NEW t \in Threads, Unregister(t) PROVE Control'
    <3>1. hdl[t] \in Handles /\ fdOf[hdl[t]] \in Fds
      BY <2>16, CallTyped DEF Unregister
    <3>2. /\ desc' \in [Fds -> Handles \cup {Other, NoFile}]
          /\ pos' \in [Handles -> 0..MaxPos]
          /\ stolen' \in SUBSET Fds
          /\ reg' = [reg EXCEPT ![fdOf[hdl[t]]] = NoHandle]
          /\ firing' = firing
      BY <2>16, <3>1, DelFdTyped DEF Unregister
    <3> QED BY <2>16, <2>0, <3>1, <3>2 DEF Unregister, Over, Goto, Control, TypeOK, Phases, Placed, Closing, Steps, NotFiring, service, table, kernel, reactor, call
  <2>17. ASSUME NEW t \in Threads, End(t) PROVE Control'
    <3>1. /\ desc' \in [Fds -> Handles \cup {Other, NoFile}]
          /\ pos' \in [Handles -> 0..MaxPos]
          /\ stolen' \in SUBSET Fds
          /\ pc' = [pc EXCEPT ![t] = "idle"]
          /\ hdl' = [hdl EXCEPT ![t] = NoHandle]
      BY <2>17, ReturnTyped DEF End
    <3> QED BY <2>17, <2>0, <3>1 DEF End, Goto, Control, TypeOK, Phases, Placed, Closing, Steps, NotFiring, service, table, kernel, reactor, call
  <2>18. ASSUME NEW t \in Threads, CloseDel(t) PROVE Control'
    <3>1. hdl[t] \in Handles /\ fdOf[hdl[t]] \in Fds
      BY <2>18, CallTyped DEF CloseDel
    <3>2. /\ desc' \in [Fds -> Handles \cup {Other, NoFile}]
          /\ pos' \in [Handles -> 0..MaxPos]
          /\ stolen' \in SUBSET Fds
          /\ reg' = [reg EXCEPT ![fdOf[hdl[t]]] = NoHandle]
          /\ firing' = firing
      BY <2>18, <3>1, DelFdTyped DEF CloseDel
    <3> QED BY <2>18, <2>0, <3>1, <3>2 DEF CloseDel, Over, Goto, Control, TypeOK, Phases, Placed, Closing, Steps, NotFiring, service, table, kernel, reactor, call
  <2>19. ASSUME NEW t \in Threads, CloseErase(t) PROVE Control'
    <3>1. /\ desc' \in [Fds -> Handles \cup {Other, NoFile}]
          /\ pos' \in [Handles -> 0..MaxPos]
          /\ stolen' \in SUBSET Fds
          /\ pc' = [pc EXCEPT ![t] = "idle"]
          /\ hdl' = [hdl EXCEPT ![t] = NoHandle]
      BY <2>19, ReturnTyped DEF CloseErase
    <3>2. cursor' \in [Handles -> Positions]
      BY <2>19, <2>0, KnowsTyped, CallTyped DEF CloseErase
    <3> QED BY <2>19, <2>0, <3>1, <3>2 DEF CloseErase, Goto, Control, TypeOK, Phases, Placed, Closing, Steps, NotFiring, service, table, kernel, reactor, call
  <2>20. ASSUME NEW n \in Fds, Event(n) PROVE Control'
    BY <2>20, <2>0 DEF Event, Reactor!Fire, Goto, Control, TypeOK, Phases, Placed, Closing, Steps, NotFiring, service, table, kernel, reactor, call
  <2>21. ASSUME Handled PROVE Control'
    <3>1. pos' \in [Handles -> 0..MaxPos]
      <4>1. desc[firing[1]] \in Seekable => \E p \in pos[desc[firing[1]]]..MaxPos : pos' = [pos EXCEPT ![desc[firing[1]]] = p]
        BY <2>21 DEF Handled
      <4>2. desc[firing[1]] \notin Seekable => pos' = pos
        BY <2>21 DEF Handled
      <4>3. \A d \in Handles : pos[d]..MaxPos \subseteq 0..MaxPos
        BY DEF TypeOK
      <4> QED BY <4>1, <4>2, <4>3 DEF TypeOK
    <3> QED BY <2>21, <2>0, <3>1 DEF Handled, Reactor!Keep, Goto, Control, TypeOK, Phases, Placed, Closing, Steps, NotFiring, service, table, kernel, reactor, call
  <2>22. ASSUME HandlerFails PROVE Control'
    <3>1. firing[2] \in Handles /\ firing[1] \in Fds
      BY <2>22 DEF HandlerFails, TypeOK, NotFiring, Reactor!Drop
    <3>2. /\ desc' \in [Fds -> Handles \cup {Other, NoFile}]
          /\ pos' \in [Handles -> 0..MaxPos]
          /\ stolen' \in SUBSET Fds
      BY <2>22, <3>1, CloseTyped DEF HandlerFails
    <3> QED BY <2>22, <2>0, <3>1, <3>2 DEF HandlerFails, Reactor!Drop, Goto, Control, TypeOK, Phases, Placed, Closing, Steps, NotFiring, service, table, kernel, reactor, call
  <2>23. ASSUME Disconnect PROVE Control'
    BY <2>23, <2>0 DEF Disconnect, Goto, Control, TypeOK, Phases, Placed, Closing, Steps, NotFiring, service, table, kernel, reactor, call
  <2>24. ASSUME DestroyBegin PROVE Control'
    BY <2>24, <2>0 DEF DestroyBegin, Goto, Control, TypeOK, Phases, Placed, Closing, Steps, NotFiring, service, table, kernel, reactor, call
  <2>25. ASSUME NEW h \in Handles, DestroyDel(h) PROVE Control'
    <3>1. fdOf[h] \in Fds
      BY <2>25 DEF DestroyDel, TypeOK
    <3>2. /\ desc' \in [Fds -> Handles \cup {Other, NoFile}]
          /\ pos' \in [Handles -> 0..MaxPos]
          /\ stolen' \in SUBSET Fds
          /\ reg' = [reg EXCEPT ![fdOf[h]] = NoHandle]
          /\ firing' = firing
      BY <2>25, <3>1, DelFdTyped DEF DestroyDel
    <3> QED BY <2>25, <2>0, <3>1, <3>2 DEF DestroyDel, Goto, Control, TypeOK, Phases, Placed, Closing, Steps, NotFiring, service, table, kernel, reactor, call
  <2>26. ASSUME DestroyTable PROVE Control'
    BY <2>26, <2>0 DEF DestroyTable, Goto, Control, TypeOK, Phases, Placed, Closing, Steps, NotFiring, service, table, kernel, reactor, call
  <2>27. ASSUME NEW h \in Handles, DestroyFile(h) PROVE Control'
    <3>1. h \in Handles /\ fdOf[h] \in Fds
      BY <2>27 DEF DestroyFile, TypeOK, NotFiring, Reactor!Drop
    <3>2. /\ desc' \in [Fds -> Handles \cup {Other, NoFile}]
          /\ pos' \in [Handles -> 0..MaxPos]
          /\ stolen' \in SUBSET Fds
      BY <2>27, <3>1, CloseTyped DEF DestroyFile
    <3> QED BY <2>27, <2>0, <3>1, <3>2 DEF DestroyFile, Goto, Control, TypeOK, Phases, Placed, Closing, Steps, NotFiring, service, table, kernel, reactor, call
  <2>28. ASSUME DestroyEnd PROVE Control'
    BY <2>28, <2>0 DEF DestroyEnd, Goto, Control, TypeOK, Phases, Placed, Closing, Steps, NotFiring, service, table, kernel, reactor, call
  <2>29. ASSUME NEW n \in Fds, OtherOpens(n) PROVE Control'
    BY <2>29, <2>0 DEF OtherOpens, Goto, Control, TypeOK, Phases, Placed, Closing, Steps, NotFiring, service, table, kernel, reactor, call
  <2>30. ASSUME NEW n \in Fds, OtherCloses(n) PROVE Control'
    BY <2>30, <2>0 DEF OtherCloses, Goto, Control, TypeOK, Phases, Placed, Closing, Steps, NotFiring, service, table, kernel, reactor, call
  <2>31. CASE UNCHANGED vars
    BY <2>31 DEF vars, Control, TypeOK, Phases, Placed, Closing, Steps, NotFiring, service, table, kernel, reactor, call
  <2> QED BY <2>1, <2>2, <2>3, <2>4, <2>5, <2>6, <2>7, <2>8, <2>9, <2>10, <2>11, <2>12, <2>13, <2>14, <2>15, <2>16, <2>17, <2>18, <2>19, <2>20, <2>21, <2>22, <2>23, <2>24, <2>25, <2>26, <2>27, <2>28, <2>29, <2>30, <2>31 DEF Next, Served, Requested
<1> QED BY <1>1, <1>2, PTL DEF Spec

\* Every variable of the service, its files, its calls and the reactor keeps
\* its type; files_lock_ is held by the one close that is in progress.
THEOREM TypeCorrect == Spec => []TypeOK
<1>1. Control => TypeOK
  BY DEF Control
<1> QED BY <1>1, Controlled, PTL

-----------------------------------------------------------------------------
\* The steps of seek, tell, read and write touch none of the tables.
Moving == {"begin", "place", "data", "back"}
Step(t) == \/ Tell(t) \/ Seek(t) \/ SeekFails(t) \/ SavePosition(t) \/ Place(t)
           \/ WritePart(t) \/ TransferEnds(t) \/ TransferFails(t) \/ SetBack(t)

LEMMA StepEffect ==
  ASSUME NEW t \in Threads, Step(t)
  PROVE  /\ UNCHANGED <<life, todo, files, lock, fdOf, desc, reg, firing, hdl, handed, stolen>>
         /\ pc[t] \in Moving
         /\ \E l \in {"place", "data", "back", "end"} : pc' = [pc EXCEPT ![t] = l]
<1>1. CASE Tell(t)
  BY <1>1 DEF Tell, Goto, Over, Moving, service, table, kernel, reactor, call
<1>2. CASE Seek(t)
  BY <1>2 DEF Seek, Goto, Over, Moving, service, table, kernel, reactor, call
<1>3. CASE SeekFails(t)
  BY <1>3 DEF SeekFails, Goto, Over, Moving, service, table, kernel, reactor, call
<1>4. CASE SavePosition(t)
  BY <1>4 DEF SavePosition, Goto, Over, Moving, service, table, kernel, reactor, call
<1>5. CASE Place(t)
  BY <1>5 DEF Place, Goto, Over, Moving, service, table, kernel, reactor, call
<1>6. CASE WritePart(t)
  BY <1>6 DEF WritePart, Transfer, AtData, Goto, Over, Moving, service, table, kernel, reactor, call
<1>7. CASE TransferEnds(t)
  BY <1>7 DEF TransferEnds, Transfer, AtData, Goto, Over, Moving, service, table, kernel, reactor, call
<1>8. CASE TransferFails(t)
  BY <1>8 DEF TransferFails, AtData, Goto, Over, Moving, service, table, kernel, reactor, call
<1>9. CASE SetBack(t)
  BY <1>9 DEF SetBack, Goto, Over, Moving, service, table, kernel, reactor, call
<1> QED BY <1>1, <1>2, <1>3, <1>4, <1>5, <1>6, <1>7, <1>8, <1>9 DEF Step

LEMMA ExistsTyped ==
  ASSUME TypeOK
  PROVE  \A h \in Handles : Exists(h) => fdOf[h] \in Fds
BY ConstantsAssumption DEF Exists, TypeOK

\* A number that the reactor owns may be closed behind its file.
LEMMA CloseHanded ==
  ASSUME TypeOK, Owned, NEW n \in Fds, NEW h \in Handles, CloseFor(n, h),
         n \in handed', handed \subseteq handed', UNCHANGED <<files, hdl, fdOf>>
  PROVE  Owned'
<1>1. desc' = [desc EXCEPT ![n] = NoFile] /\ stolen' \subseteq stolen \cup {n}
  BY DEF CloseFor
<1>2. /\ ClosedOnce'
      /\ \A m \in Fds : desc'[m] \in Handles => desc'[m] = desc[m]
  BY <1>1, ConstantsAssumption DEF TypeOK, Owned, ClosedOnce
<1>3. \A g \in Handles : Exists(g)' => Exists(g)
  BY DEF Exists
<1>4. \A g \in Handles : Exists(g) => fdOf[g] \in Fds
  BY ExistsTyped
<1>5. \A g \in Handles : Exists(g)' /\ fdOf'[g] \notin handed' => desc'[fdOf'[g]] = g
  BY <1>1, <1>3, <1>4 DEF Owned, TypeOK
<1>6. NoDescriptorLeaks'
  BY <1>2 DEF Owned, NoDescriptorLeaks
<1> QED BY <1>2, <1>5, <1>6 DEF Owned

\* A file closes its own number when it goes, or one that was handed over.
LEMMA DestroyKeeps ==
  ASSUME TypeOK, Owned, NEW h \in Handles, Exists(h), ~Exists(h)', CloseFor(fdOf[h], h),
         \A g \in Handles \ {h} : Exists(g)' <=> Exists(g),
         UNCHANGED <<fdOf, handed>>
  PROVE  Owned'
<1> DEFINE n == fdOf[h]
<1>1. n \in Fds /\ (n \notin handed => desc[n] = h)
  BY ExistsTyped DEF Owned
<1>2. /\ desc' = [desc EXCEPT ![n] = NoFile]
      /\ stolen' = IF desc[n] \in {h, NoFile} THEN stolen ELSE stolen \cup {n}
  BY DEF CloseFor
<1>3. ClosedOnce'
  BY <1>1, <1>2 DEF Owned, ClosedOnce
<1>4. \A m \in Fds : desc'[m] \in Handles => m # n /\ desc'[m] = desc[m] /\ desc[m] # h
  BY <1>1, <1>2, ConstantsAssumption DEF TypeOK, Owned
<1>5. NoDescriptorLeaks'
  BY <1>4 DEF Owned, NoDescriptorLeaks, Exists
<1>6. ASSUME NEW g \in Handles, Exists(g)', fdOf'[g] \notin handed' PROVE desc'[fdOf'[g]] = g
  <2>1. g # h /\ Exists(g) /\ desc[fdOf[g]] = g /\ fdOf[g] \in Fds
    BY <1>6, ExistsTyped DEF Owned
  <2>2. fdOf[g] # n
    BY <1>1, <1>6, <2>1
  <2> QED BY <1>2, <2>1, <2>2 DEF TypeOK
<1> QED BY <1>3, <1>4, <1>5, <1>6 DEF Owned

LEMMA ReturnKeeps ==
  ASSUME TypeOK, Owned, NEW t \in Threads, pc[t] # "idle", Return(t, files'),
         files' \subseteq files \cup {hdl[t]}, files \subseteq files' \cup {hdl[t]},
         UNCHANGED <<fdOf, handed>>
  PROVE  Owned'
<1>1. PICK h \in Handles : h = hdl[t]
  BY CallTyped
<1>2. Exists(h) /\ h # NoHandle /\ hdl' = [hdl EXCEPT ![t] = NoHandle]
  BY <1>1, ConstantsAssumption DEF Exists, Return
<1>3. \A g \in Handles \ {h} : Exists(g)' <=> Exists(g)
  BY <1>1, <1>2, ConstantsAssumption DEF Exists, TypeOK
<1>4. CASE h \notin files' /\ \A u \in Threads \ {t} : hdl[u] # h
  <2>1. CloseFor(fdOf[h], h)
    BY <1>1, <1>4 DEF Return
  <2>2. \A u \in Threads : hdl'[u] # h
    BY <1>2, <1>4 DEF TypeOK
  <2>3. ~Exists(h)'
    BY <1>4, <2>2 DEF Exists
  <2> QED BY <1>2, <1>3, <2>1, <2>3, DestroyKeeps
<1>5. CASE ~(h \notin files' /\ \A u \in Threads \ {t} : hdl[u] # h)
  <2>1. UNCHANGED <<desc, stolen>>
    BY <1>1, <1>5 DEF Return, Untouched, kernel
  <2>2. Exists(h)'
    BY <1>1, <1>2, <1>5 DEF Exists, TypeOK
  <2>3. \A g \in Handles : Exists(g)' <=> Exists(g)
    BY <1>2, <1>3, <2>2
  <2>4. NoDescriptorLeaks'
    BY <2>1, <2>3 DEF Owned, NoDescriptorLeaks, Exists
  <2> QED BY <2>1, <2>3, <2>4 DEF Owned, ClosedOnce
<1> QED BY <1>4, <1>5

LEMMA DelFdKeeps ==
  ASSUME TypeOK, Owned, HandedOver, NEW h \in Handles, fdOf[h] \in Fds, DelFd(h),
         UNCHANGED <<files, hdl, fdOf, handed>>
  PROVE  Owned' /\ HandedOver'
<1>1. /\ reg' = [reg EXCEPT ![fdOf[h]] = NoHandle]
      /\ firing' = firing
  BY DelFdTyped
<1>2. HandedOver'
  BY <1>1 DEF HandedOver, TypeOK
<1>3. CASE reg[fdOf[h]] # NoHandle
  <2>1. fdOf[h] \in handed' /\ CloseFor(fdOf[h], h)
    BY <1>3 DEF HandedOver, DelFd
  <2> QED BY <1>2, <2>1, CloseHanded
<1>4. CASE reg[fdOf[h]] = NoHandle
  BY <1>2, <1>4 DEF DelFd, Untouched, kernel, Owned, HandedOver, Exists, ClosedOnce, NoDescriptorLeaks
<1> QED BY <1>3, <1>4

LEMMA Owning == Spec => [](Owned /\ HandedOver)
<1> USE ConstantsAssumption
<1>1. Init => Owned /\ HandedOver
  BY DEF Init, NotFiring, Reactor!Init, Owned, HandedOver, Exists, ClosedOnce, NoDescriptorLeaks
<1>2. Control /\ Owned /\ HandedOver /\ [Next]_vars => Owned' /\ HandedOver'
  <2> SUFFICES ASSUME TypeOK, Phases, Owned, HandedOver, [Next]_vars PROVE Owned' /\ HandedOver'
    BY DEF Control
  <2>1. ASSUME NEW t \in Threads, NEW h \in Handles, NEW n \in Fds, Open(t, h, n) PROVE Owned' /\ HandedOver'
    <3>1. /\ ~Exists(h) /\ fdOf[h] = NoFd /\ desc[n] = NoFile
          /\ desc' = [desc EXCEPT ![n] = h] /\ fdOf' = [fdOf EXCEPT ![h] = n]
          /\ hdl' = [hdl EXCEPT ![t] = h] /\ hdl[t] = NoHandle
          /\ UNCHANGED <<files, handed, stolen, reg, firing>>
      BY <2>1 DEF Open, Exists, TypeOK, service, reactor
    <3>2. \A g \in Handles \ {h} : (Exists(g)' <=> Exists(g)) /\ fdOf'[g] = fdOf[g]
      BY <3>1 DEF Exists, TypeOK
    <3>3. Exists(h)' /\ fdOf'[h] = n /\ desc'[n] = h
      BY <3>1 DEF Exists, TypeOK
    <3>4. \A m \in Fds \ {n} : desc'[m] = desc[m] /\ desc[m] # h
      BY <3>1 DEF TypeOK, Owned
    <3>5. \A m \in Fds : desc'[m] \in Handles => fdOf'[desc'[m]] = m
      BY <3>2, <3>3, <3>4 DEF Owned
    <3>6. ASSUME NEW g \in Handles, Exists(g)', fdOf'[g] \notin handed PROVE desc'[fdOf'[g]] = g
      <4>1. CASE g = h
        BY <3>3, <4>1
      <4>2. CASE g # h
        <5>1. fdOf[g] \in Fds /\ desc[fdOf[g]] = g
          BY <3>2, <3>6, <4>2 DEF Owned, Exists, TypeOK
        <5> QED BY <3>1, <3>2, <3>4, <4>2, <5>1
      <4> QED BY <4>1, <4>2
    <3>7. NoDescriptorLeaks'
      BY <3>2, <3>3, <3>4 DEF Owned, NoDescriptorLeaks, Exists
    <3> QED BY <3>1, <3>5, <3>6, <3>7 DEF Owned, HandedOver, ClosedOnce
  <2>2. ASSUME NEW t \in Threads, Step(t) PROVE Owned' /\ HandedOver'
    BY <2>2, StepEffect DEF Owned, HandedOver, Exists, ClosedOnce, NoDescriptorLeaks
  <2>3. ASSUME NEW t \in Threads, AddFile(t) PROVE Owned' /\ HandedOver'
    <3>1. pc[t] # "idle" /\ Return(t, files') /\ UNCHANGED <<fdOf, handed, reg, firing>>
          /\ files' \subseteq files \cup {hdl[t]} /\ files \subseteq files' \cup {hdl[t]}
      BY <2>3 DEF AddFile, service, table, reactor
    <3> QED BY <3>1, ReturnKeeps DEF HandedOver
  <2>4. ASSUME NEW t \in Threads, NEW h \in Handles, NEW r \in Requests, GetFile(t, h, r) PROVE Owned' /\ HandedOver'
    BY <2>4, CallTyped DEF GetFile, Goto, Over, TypeOK, Owned, HandedOver, Exists, ClosedOnce, NoDescriptorLeaks, service, table, kernel, reactor, call
  <2>5. ASSUME NEW t \in Threads, NEW h \in Handles, CloseBegin(t, h) PROVE Owned' /\ HandedOver'
    BY <2>5, CallTyped DEF CloseBegin, Goto, Over, TypeOK, Owned, HandedOver, Exists, ClosedOnce, NoDescriptorLeaks, service, table, kernel, reactor, call
  <2>6. ASSUME NEW t \in Threads, AddFd(t) PROVE Owned' /\ HandedOver'
    <3>1. hdl[t] \in Handles /\ fdOf[hdl[t]] \in Fds
      BY <2>6, CallTyped DEF AddFd
    <3>2. /\ handed' = handed \cup {fdOf[hdl[t]]} /\ firing' = NotFiring
          /\ reg' = [reg EXCEPT ![fdOf[hdl[t]]] = hdl[t]]
          /\ UNCHANGED <<files, hdl, fdOf, desc, stolen>>
      BY <2>6 DEF AddFd, Handed, Reactor!Register, table, kernel
    <3>3. Owned'
      BY <3>1, <3>2 DEF Owned, Exists, ClosedOnce, NoDescriptorLeaks
    <3>4. HandedOver'
      BY <3>1, <3>2 DEF HandedOver, TypeOK
    <3> QED BY <3>3, <3>4
  <2>7. ASSUME NEW t \in Threads, AddFdFails(t) PROVE Owned' /\ HandedOver'
    <3>1. hdl[t] \in Handles /\ fdOf[hdl[t]] \in Fds
      BY <2>7, CallTyped DEF AddFdFails
    <3>2. /\ CloseFor(fdOf[hdl[t]], hdl[t]) /\ handed' = handed \cup {fdOf[hdl[t]]}
          /\ UNCHANGED <<files, hdl, fdOf, reg, firing>>
      BY <2>7 DEF AddFdFails, Handed, table, reactor
    <3> QED BY <3>1, <3>2, CloseHanded DEF HandedOver
  <2>8. ASSUME NEW t \in Threads, Unregister(t) PROVE Owned' /\ HandedOver'
    <3>1. hdl[t] \in Handles /\ fdOf[hdl[t]] \in Fds
      BY <2>8, CallTyped DEF Unregister
    <3>2. DelFd(hdl[t]) /\ UNCHANGED <<files, hdl, fdOf, handed>>
      BY <2>8 DEF Unregister, service, table
    <3> QED BY <3>1, <3>2, DelFdKeeps
  <2>9. ASSUME NEW t \in Threads, End(t) PROVE Owned' /\ HandedOver'
    <3>1. pc[t] # "idle" /\ Return(t, files') /\ UNCHANGED <<fdOf, handed, reg, firing>>
          /\ files' \subseteq files \cup {hdl[t]} /\ files \subseteq files' \cup {hdl[t]}
      BY <2>9 DEF End, service, table, reactor
    <3> QED BY <3>1, ReturnKeeps DEF HandedOver
  <2>10. ASSUME NEW t \in Threads, CloseDel(t) PROVE Owned' /\ HandedOver'
    <3>1. hdl[t] \in Handles /\ fdOf[hdl[t]] \in Fds
      BY <2>10, CallTyped DEF CloseDel
    <3>2. DelFd(hdl[t]) /\ UNCHANGED <<files, hdl, fdOf, handed>>
      BY <2>10 DEF CloseDel, service, table
    <3> QED BY <3>1, <3>2, DelFdKeeps
  <2>11. ASSUME NEW t \in Threads, CloseErase(t) PROVE Owned' /\ HandedOver'
    <3>1. pc[t] # "idle" /\ Return(t, files') /\ UNCHANGED <<fdOf, handed, reg, firing>>
          /\ files' \subseteq files \cup {hdl[t]} /\ files \subseteq files' \cup {hdl[t]}
      BY <2>11 DEF CloseErase, service, table, reactor
    <3> QED BY <3>1, ReturnKeeps DEF HandedOver
  <2>12. ASSUME NEW n \in Fds, Event(n) PROVE Owned' /\ HandedOver'
    BY <2>12 DEF Event, Reactor!Fire, NotFiring, TypeOK, Owned, HandedOver, Exists, ClosedOnce, NoDescriptorLeaks, service, table, kernel, reactor, call
  <2>13. ASSUME Handled PROVE Owned' /\ HandedOver'
    BY <2>13 DEF Handled, Reactor!Keep, NotFiring, TypeOK, Owned, HandedOver, Exists, ClosedOnce, NoDescriptorLeaks, service, table, kernel, reactor, call
  <2>14. ASSUME HandlerFails PROVE Owned' /\ HandedOver'
    <3>1. /\ firing[1] \in Fds /\ firing[2] \in Handles /\ firing[1] \in handed
          /\ CloseFor(firing[1], firing[2]) /\ UNCHANGED <<files, hdl, fdOf, handed>>
          /\ reg' = [reg EXCEPT ![firing[1]] = NoHandle] /\ firing' = NotFiring
      BY <2>14 DEF HandlerFails, Reactor!Drop, HandedOver, TypeOK, table, call
    <3> QED BY <3>1, CloseHanded DEF HandedOver, TypeOK
  <2>15. ASSUME Disconnect PROVE Owned' /\ HandedOver'
    BY <2>15, CallTyped DEF Disconnect, Goto, Over, TypeOK, Owned, HandedOver, Exists, ClosedOnce, NoDescriptorLeaks, service, table, kernel, reactor, call
  <2>16. ASSUME DestroyBegin PROVE Owned' /\ HandedOver'
    BY <2>16, CallTyped DEF DestroyBegin, Goto, Over, TypeOK, Owned, HandedOver, Exists, ClosedOnce, NoDescriptorLeaks, service, table, kernel, reactor, call
  <2>17. ASSUME NEW h \in Handles, DestroyDel(h) PROVE Owned' /\ HandedOver'
    <3>1. DelFd(h) /\ UNCHANGED <<files, hdl, fdOf, handed>> /\ fdOf[h] \in Fds
      BY <2>17 DEF DestroyDel, table, call, TypeOK
    <3> QED BY <3>1, DelFdKeeps
  <2>18. ASSUME DestroyTable PROVE Owned' /\ HandedOver'
    BY <2>18, CallTyped DEF DestroyTable, Goto, Over, TypeOK, Owned, HandedOver, Exists, ClosedOnce, NoDescriptorLeaks, service, table, kernel, reactor, call
  <2>19. ASSUME NEW h \in Handles, DestroyFile(h) PROVE Owned' /\ HandedOver'
    <3>1. /\ CloseFor(fdOf[h], h) /\ files' = files \ {h} /\ h \in files
          /\ UNCHANGED <<fdOf, handed, hdl, reg, firing>>
      BY <2>19 DEF DestroyFile, reactor, call
    <3>2. \A t \in Threads : hdl[t] = NoHandle
      BY <2>19 DEF DestroyFile, Phases, TypeOK
    <3>3. Exists(h) /\ ~Exists(h)' /\ \A g \in Handles \ {h} : Exists(g)' <=> Exists(g)
      BY <3>1, <3>2 DEF Exists
    <3> QED BY <3>1, <3>3, DestroyKeeps DEF HandedOver
  <2>20. ASSUME DestroyEnd PROVE Owned' /\ HandedOver'
    BY <2>20, CallTyped DEF DestroyEnd, Goto, Over, TypeOK, Owned, HandedOver, Exists, ClosedOnce, NoDescriptorLeaks, service, table, kernel, reactor, call
  <2>21. ASSUME NEW n \in Fds, OtherOpens(n) PROVE Owned' /\ HandedOver'
    <3>1. /\ desc' = [desc EXCEPT ![n] = IF desc[n] = Other THEN NoFile ELSE Other]
          /\ desc[n] \notin Handles /\ UNCHANGED <<files, fdOf, hdl, handed, stolen, reg, firing>>
      BY <2>21 DEF OtherOpens, table, reactor, call
    <3>2. \A m \in Fds : (desc'[m] \in Handles \/ desc[m] \in Handles) => desc'[m] = desc[m]
      BY <3>1 DEF TypeOK
    <3>3. \A g \in Handles : Exists(g)' => Exists(g) /\ fdOf[g] \in Fds
      BY <3>1 DEF Exists, TypeOK
    <3> QED BY <3>1, <3>2, <3>3 DEF Owned, HandedOver, ClosedOnce, NoDescriptorLeaks
  <2>22. ASSUME NEW n \in Fds, OtherCloses(n) PROVE Owned' /\ HandedOver'
    <3>1. /\ desc' = [desc EXCEPT ![n] = IF desc[n] = Other THEN NoFile ELSE Other]
          /\ desc[n] \notin Handles /\ UNCHANGED <<files, fdOf, hdl, handed, stolen, reg, firing>>
      BY <2>22 DEF OtherCloses, table, reactor, call
    <3>2. \A m \in Fds : (desc'[m] \in Handles \/ desc[m] \in Handles) => desc'[m] = desc[m]
      BY <3>1 DEF TypeOK
    <3>3. \A g \in Handles : Exists(g)' => Exists(g) /\ fdOf[g] \in Fds
      BY <3>1 DEF Exists, TypeOK
    <3> QED BY <3>1, <3>2, <3>3 DEF Owned, HandedOver, ClosedOnce, NoDescriptorLeaks
  <2>23. CASE UNCHANGED vars
    BY <2>23 DEF vars, Owned, HandedOver, Exists, ClosedOnce, NoDescriptorLeaks, service, table, kernel, reactor, call
  <2> QED BY <2>1, <2>2, <2>3, <2>4, <2>5, <2>6, <2>7, <2>8, <2>9, <2>10, <2>11, <2>12, <2>13, <2>14, <2>15, <2>16, <2>17, <2>18, <2>19, <2>20, <2>21, <2>22, <2>23 DEF Next, Served, Requested, Step
<1> QED BY <1>1, <1>2, Controlled, PTL DEF Spec

\* Descriptors that the reactor never had are closed only by who opened them,
\* however many calls, closes and opens elsewhere run at once.
THEOREM ClosedByOwner == Spec => []ClosedOnce
<1>1. Owned => ClosedOnce
  BY DEF Owned
<1> QED BY <1>1, Owning, PTL

\* No open descriptor is ever without a file in the table or a call that
\* holds it, so none is left when the service is gone.
THEOREM NoneLeaks == Spec => []NoDescriptorLeaks
<1>1. Owned => NoDescriptorLeaks
  BY DEF Owned
<1> QED BY <1>1, Owning, PTL

-----------------------------------------------------------------------------
LEMMA Handling == Spec => []Handlers
<1> USE ConstantsAssumption
<1>1. Init => Handlers
  BY DEF Init, Reactor!Init, Handlers, OneCall, InTable, Unwatched, HandlersHaveFiles
<1>2. Control /\ Handlers /\ [Next]_vars => Handlers'
  <2> SUFFICES ASSUME TypeOK, Phases, OneCall, InTable, Unwatched, HandlersHaveFiles, [Next]_vars
               PROVE  OneCall' /\ InTable' /\ Unwatched' /\ HandlersHaveFiles'
    BY DEF Control, Handlers
  <2>1. ASSUME NEW t \in Threads, NEW h \in Handles, NEW n \in Fds, Open(t, h, n) PROVE OneCall' /\ InTable' /\ Unwatched' /\ HandlersHaveFiles'
    BY <2>1 DEF Open, Goto, TypeOK, Phases, OneCall, InTable, Unwatched, HandlersHaveFiles, service, table, kernel, reactor, call
  <2>2. ASSUME NEW t \in Threads, Step(t) PROVE OneCall' /\ InTable' /\ Unwatched' /\ HandlersHaveFiles'
    BY <2>2, StepEffect DEF Moving, TypeOK, OneCall, InTable, Unwatched, HandlersHaveFiles
  <2>3. ASSUME NEW t \in Threads, AddFile(t) PROVE OneCall' /\ InTable' /\ Unwatched' /\ HandlersHaveFiles'
    <3>1. pc[t] # "idle"
      BY <2>3 DEF AddFile
    <3>2. pc' = [pc EXCEPT ![t] = "idle"] /\ hdl' = [hdl EXCEPT ![t] = NoHandle]
      BY <2>3, <3>1, ReturnTyped DEF AddFile
    <3> QED BY <2>3, <3>1, <3>2 DEF AddFile, TypeOK, Phases, OneCall, InTable, Unwatched, HandlersHaveFiles, service, table, kernel, reactor, call
  <2>4. ASSUME NEW t \in Threads, NEW h \in Handles, NEW r \in Requests, GetFile(t, h, r) PROVE OneCall' /\ InTable' /\ Unwatched' /\ HandlersHaveFiles'
    BY <2>4 DEF GetFile, Goto, TypeOK, Phases, OneCall, InTable, Unwatched, HandlersHaveFiles, service, table, kernel, reactor, call
  <2>5. ASSUME NEW t \in Threads, NEW h \in Handles, CloseBegin(t, h) PROVE OneCall' /\ InTable' /\ Unwatched' /\ HandlersHaveFiles'
    BY <2>5 DEF CloseBegin, Goto, TypeOK, Phases, OneCall, InTable, Unwatched, HandlersHaveFiles, service, table, kernel, reactor, call
  <2>6. ASSUME NEW t \in Threads, AddFd(t) PROVE OneCall' /\ InTable' /\ Unwatched' /\ HandlersHaveFiles'
    <3>1. hdl[t] \in Handles /\ fdOf[hdl[t]] \in Fds
      BY <2>6, CallTyped DEF AddFd
    <3> QED BY <2>6, <3>1 DEF AddFd, Goto, Over, Reactor!Register, TypeOK, Phases, OneCall, InTable, Unwatched, HandlersHaveFiles, service, table, kernel, reactor, call
  <2>7. ASSUME NEW t \in Threads, AddFdFails(t) PROVE OneCall' /\ InTable' /\ Unwatched' /\ HandlersHaveFiles'
    <3>1. hdl[t] \in Handles /\ fdOf[hdl[t]] \in Fds
      BY <2>7, CallTyped DEF AddFdFails
    <3> QED BY <2>7, <3>1 DEF AddFdFails, Goto, Over, TypeOK, Phases, OneCall, InTable, Unwatched, HandlersHaveFiles, service, table, kernel, reactor, call
  <2>8. ASSUME NEW t \in Threads, Unregister(t) PROVE OneCall' /\ InTable' /\ Unwatched' /\ HandlersHaveFiles'
    <3>1. hdl[t] \in Handles /\ fdOf[hdl[t]] \in Fds
      BY <2>8, CallTyped DEF Unregister
    <3>2. reg' = [reg EXCEPT ![fdOf[hdl[t]]] = NoHandle]
      BY <2>8, <3>1, DelFdTyped DEF Unregister
    <3> QED BY <2>8, <3>1, <3>2 DEF Unregister, Goto, Over, TypeOK, Phases, OneCall, InTable, Unwatched, HandlersHaveFiles, service, table, kernel, reactor, call
  <2>9. ASSUME NEW t \in Threads, End(t) PROVE OneCall' /\ InTable' /\ Unwatched' /\ HandlersHaveFiles'
    <3>1. pc[t] # "idle"
      BY <2>9 DEF End
    <3>2. pc' = [pc EXCEPT ![t] = "idle"] /\ hdl' = [hdl EXCEPT ![t] = NoHandle]
      BY <2>9, <3>1, ReturnTyped DEF End
    <3> QED BY <2>9, <3>1, <3>2 DEF End, TypeOK, Phases, OneCall, InTable, Unwatched, HandlersHaveFiles, service, table, kernel, reactor, call
  <2>10. ASSUME NEW t \in Threads, CloseDel(t) PROVE OneCall' /\ InTable' /\ Unwatched' /\ HandlersHaveFiles'
    <3>1. hdl[t] \in Handles /\ fdOf[hdl[t]] \in Fds
      BY <2>10, CallTyped DEF CloseDel
    <3>2. reg' = [reg EXCEPT ![fdOf[hdl[t]]] = NoHandle]
      BY <2>10, <3>1, DelFdTyped DEF CloseDel
    <3> QED BY <2>10, <3>1, <3>2 DEF CloseDel, Goto, Over, TypeOK, Phases, OneCall, InTable, Unwatched, HandlersHaveFiles, service, table, kernel, reactor, call
  <2>11. ASSUME NEW t \in Threads, CloseErase(t) PROVE OneCall' /\ InTable' /\ Unwatched' /\ HandlersHaveFiles'
    <3>1. pc[t] # "idle"
      BY <2>11 DEF CloseErase
    <3>2. pc' = [pc EXCEPT ![t] = "idle"] /\ hdl' = [hdl EXCEPT ![t] = NoHandle]
      BY <2>11, <3>1, ReturnTyped DEF CloseErase
    <3> QED BY <2>11, <3>1, <3>2 DEF CloseErase, TypeOK, Phases, OneCall, InTable, Unwatched, HandlersHaveFiles, service, table, kernel, reactor, call
  <2>12. ASSUME NEW n \in Fds, Event(n) PROVE OneCall' /\ InTable' /\ Unwatched' /\ HandlersHaveFiles'
    BY <2>12 DEF Event, Reactor!Fire, TypeOK, Phases, OneCall, InTable, Unwatched, HandlersHaveFiles, service, table, kernel, reactor, call
  <2>13. ASSUME Handled PROVE OneCall' /\ InTable' /\ Unwatched' /\ HandlersHaveFiles'
    BY <2>13 DEF Handled, Reactor!Keep, TypeOK, Phases, OneCall, InTable, Unwatched, HandlersHaveFiles, service, table, kernel, reactor, call
  <2>14. ASSUME HandlerFails PROVE OneCall' /\ InTable' /\ Unwatched' /\ HandlersHaveFiles'
    BY <2>14 DEF HandlerFails, Reactor!Drop, TypeOK, Phases, OneCall, InTable, Unwatched, HandlersHaveFiles, service, table, kernel, reactor, call
  <2>15. ASSUME Disconnect PROVE OneCall' /\ InTable' /\ Unwatched' /\ HandlersHaveFiles'
    BY <2>15 DEF Disconnect, Goto, TypeOK, Phases, OneCall, InTable, Unwatched, HandlersHaveFiles, service, table, kernel, reactor, call
  <2>16. ASSUME DestroyBegin PROVE OneCall' /\ InTable' /\ Unwatched' /\ HandlersHaveFiles'
    BY <2>16 DEF DestroyBegin, Goto, TypeOK, Phases, OneCall, InTable, Unwatched, HandlersHaveFiles, service, table, kernel, reactor, call
  <2>17. ASSUME NEW h \in Handles, DestroyDel(h) PROVE OneCall' /\ InTable' /\ Unwatched' /\ HandlersHaveFiles'
    <3>1. fdOf[h] \in Fds
      BY <2>17 DEF DestroyDel, TypeOK
    <3>2. reg' = [reg EXCEPT ![fdOf[h]] = NoHandle]
      BY <2>17, <3>1, DelFdTyped DEF DestroyDel
    <3> QED BY <2>17, <3>1, <3>2 DEF DestroyDel, TypeOK, Phases, OneCall, InTable, Unwatched, HandlersHaveFiles, service, table, kernel, reactor, call
  <2>18. ASSUME DestroyTable PROVE OneCall' /\ InTable' /\ Unwatched' /\ HandlersHaveFiles'
    BY <2>18 DEF DestroyTable, Goto, TypeOK, Phases, OneCall, InTable, Unwatched, HandlersHaveFiles, service, table, kernel, reactor, call
  <2>19. ASSUME NEW h \in Handles, DestroyFile(h) PROVE OneCall' /\ InTable' /\ Unwatched' /\ HandlersHaveFiles'
    BY <2>19 DEF DestroyFile, Goto, TypeOK, Phases, OneCall, InTable, Unwatched, HandlersHaveFiles, service, table, kernel, reactor, call
  <2>20. ASSUME DestroyEnd PROVE OneCall' /\ InTable' /\ Unwatched' /\ HandlersHaveFiles'
    BY <2>20 DEF DestroyEnd, Goto, TypeOK, Phases, OneCall, InTable, Unwatched, HandlersHaveFiles, service, table, kernel, reactor, call
  <2>21. ASSUME NEW n \in Fds, OtherOpens(n) PROVE OneCall' /\ InTable' /\ Unwatched' /\ HandlersHaveFiles'
    BY <2>21 DEF OtherOpens, Goto, TypeOK, Phases, OneCall, InTable, Unwatched, HandlersHaveFiles, service, table, kernel, reactor, call
  <2>22. ASSUME NEW n \in Fds, OtherCloses(n) PROVE OneCall' /\ InTable' /\ Unwatched' /\ HandlersHaveFiles'
    BY <2>22 DEF OtherCloses, Goto, TypeOK, Phases, OneCall, InTable, Unwatched, HandlersHaveFiles, service, table, kernel, reactor, call
  <2>23. CASE UNCHANGED vars
    BY <2>23 DEF vars, OneCall, InTable, Unwatched, HandlersHaveFiles, service, table, kernel, reactor, call
  <2> QED BY <2>1, <2>2, <2>3, <2>4, <2>5, <2>6, <2>7, <2>8, <2>9, <2>10, <2>11, <2>12, <2>13, <2>14, <2>15, <2>16, <2>17, <2>18, <2>19, <2>20, <2>21, <2>22, <2>23 DEF Next, Served, Requested, Step
<1> QED BY <1>1, <1>2, Controlled, PTL DEF Spec

\* Every handler in the reactor belongs to a file in the table, under its
\* number, as long as no handle is used by two calls at once; none is left
\* when the service is freed.
THEOREM HandlersBelong == Spec => []HandlersHaveFiles
<1>1. Handlers => HandlersHaveFiles
  BY DEF Handlers
<1> QED BY <1>1, Handling, PTL

\* Files, their descriptors and their handlers in the reactor stay one
\* another's: the three facts above, as the runs check them.
THEOREM DescriptorsStayOwned == Spec => []DescriptorsOwned
<1>1. ClosedOnce /\ NoDescriptorLeaks /\ HandlersHaveFiles => DescriptorsOwned
  BY DEF DescriptorsOwned
<1> QED BY <1>1, ClosedByOwner, NoneLeaks, HandlersBelong, PTL
-----------------------------------------------------------------------------
LEMMA TrackedHandles == Tracked \subseteq Seekable /\ Tracked \subseteq Handles \ Shared
                        /\ \A h \in Tracked : h \notin Devices
BY ConstantsAssumption DEF Tracked

\* A number leads to a file only if it is that file's number.
LEMMA OwnNumber ==
  ASSUME TypeOK, Owned, NEW g \in Handles
  PROVE  /\ \A n \in Fds : fdOf[g] # n => desc[n] # g
         /\ \A h \in Handles \ {g} :
              Exists(g) /\ Exists(h) /\ fdOf[g] \notin handed => fdOf[h] # fdOf[g]
<1>1. \A n \in Fds : fdOf[g] # n => desc[n] # g
  BY DEF Owned
<1>2. \A h \in Handles : Exists(h) /\ fdOf[h] \notin handed => desc[fdOf[h]] = h
  BY DEF Owned
<1> QED BY <1>1, <1>2

\* A step keeps a file's position if it neither moves it, nor is of a call
\* that uses it.
LEMMA OthersKeep ==
  ASSUME NEW g \in Tracked, At(g), fdOf'[g] = fdOf[g], cursor'[g] = cursor[g],
         handed \subseteq handed', files' \cap {g} \subseteq files,
         (fdOf[g] = NoFd => pos'[g] = pos[g]),
         Exists(g) /\ Exists(g)' /\ fdOf[g] \notin handed' => pos'[g] = pos[g],
         \A t \in Threads : hdl[t] = g \/ hdl'[t] = g =>
           hdl'[t] = hdl[t] /\ pc'[t] = pc[t] /\ req'[t] = req[t] /\ saved'[t] = saved[t]
  PROVE  At(g)'
<1>1. Exists(g)' => Exists(g)
  BY DEF Exists
<1>2. CASE Exists(g)' /\ fdOf[g] \notin handed'
  <2>1. /\ (\A t \in Threads : hdl[t] # g) => Agree(g, pos[g])
        /\ \A t \in Threads : hdl[t] = g => InCall(t, g)
        /\ pos'[g] = pos[g]
    BY <1>1, <1>2 DEF At
  <2>2. (\A t \in Threads : hdl'[t] # g) => Agree(g, pos[g])'
    BY <2>1 DEF Agree
  <2>3. \A t \in Threads : hdl'[t] = g => InCall(t, g)'
    BY <2>1 DEF InCall, Agree
  <2> QED BY <2>1, <2>2, <2>3 DEF At
<1>3. CASE ~(Exists(g)' /\ fdOf[g] \notin handed')
  BY <1>3 DEF At
<1> QED BY <1>2, <1>3

\* Closing another number moves no file that is still its own.
LEMMA CloseElsewhere ==
  ASSUME TypeOK, Owned, NEW n \in Fds, NEW h \in Handles, CloseFor(n, h), NEW g \in Handles
  PROVE  fdOf[g] # n => pos'[g] = pos[g]
BY OwnNumber DEF CloseFor, TypeOK

LEMMA DelFdElsewhere ==
  ASSUME TypeOK, Owned, HandedOver, NEW h \in Handles, fdOf[h] \in Fds, DelFd(h), NEW g \in Handles
  PROVE  fdOf[g] = NoFd \/ fdOf[g] \notin handed => pos'[g] = pos[g]
<1>1. CASE reg[fdOf[h]] # NoHandle
  <2>1. fdOf[h] \in handed /\ CloseFor(fdOf[h], h) /\ fdOf[h] # NoFd
    BY <1>1, ConstantsAssumption DEF HandedOver, DelFd
  <2> QED BY <2>1, CloseElsewhere
<1>2. CASE reg[fdOf[h]] = NoHandle
  BY <1>2 DEF DelFd, Untouched, kernel
<1> QED BY <1>1, <1>2

\* The steps of seek, tell, read and write move the file that has the number
\* of the call's file, and tell the client where that one is.
LEMMA StepMoves ==
  ASSUME TypeOK, NEW t \in Threads, Step(t)
  PROVE  /\ pos' = pos \/ \E p : pos' = Moved(hdl[t], p)
         /\ cursor' = cursor \/ \E p : cursor' = [cursor EXCEPT ![hdl[t]] = p]
         /\ \A u \in Threads \ {t} : req'[u] = req[u] /\ saved'[u] = saved[u]
         /\ \A u \in Threads : pc'[u] = "back" => pc[u] = "back" \/ req'[u].back
<1>1. CASE Tell(t)
  BY <1>1 DEF Tell, Goto, Over, kernel, TypeOK
<1>2. CASE Seek(t)
  BY <1>2 DEF Seek, Goto, Over, LSeek, Knows, TypeOK
<1>3. CASE SeekFails(t)
  BY <1>3 DEF SeekFails, Goto, Over, kernel, TypeOK
<1>4. CASE SavePosition(t)
  BY <1>4 DEF SavePosition, Goto, kernel, TypeOK
<1>5. CASE Place(t)
  BY <1>5 DEF Place, Goto, LSeek, Knows, TypeOK
<1>6. CASE WritePart(t)
  BY <1>6 DEF WritePart, Transfer, Goto, Knows, TypeOK
<1>7. CASE TransferEnds(t)
  BY <1>7 DEF TransferEnds, Transfer, Goto, Over, Knows, TypeOK
<1>8. CASE TransferFails(t)
  BY <1>8 DEF TransferFails, Goto, Over, Knows, TypeOK
<1>9. CASE SetBack(t)
  BY <1>9 DEF SetBack, Goto, Over, LSeek, TypeOK
<1> QED BY <1>1, <1>2, <1>3, <1>4, <1>5, <1>6, <1>7, <1>8, <1>9 DEF Step

\* What a transfer does to a tracked file that still has its number.
LEMMA TransferAgrees ==
  ASSUME TypeOK, NEW t \in Threads, Transfer(t), NEW h \in Tracked, hdl[t] = h,
         fdOf[h] \in Fds, desc[fdOf[h]] = h
  PROVE  /\ req[t].back => cursor' = cursor
         /\ ~req[t].back /\ Agree(h, pos[h]) => Agree(h, pos[h])'
<1> DEFINE k == IF pos[h] < MaxPos THEN 1 ELSE 0
<1> USE TrackedHandles, ConstantsAssumption
<1>1. /\ Offset(h) = pos[h] /\ pos' = [pos EXCEPT ![h] = pos[h] + k]
      /\ IF req[t].back \/ cursor[h] + k > MaxPos
           THEN UNCHANGED cursor ELSE cursor' = [cursor EXCEPT ![h] = cursor[h] + k]
  BY DEF Transfer, Offset, Moved, Knows
<1>2. /\ pos[h] \in 0..MaxPos /\ cursor[h] \in 0..NoPos /\ MaxPos \in Nat /\ NoPos = MaxPos + 1
      /\ pos'[h] = pos[h] + k /\ k \in {0, 1} /\ (k = 1 <=> pos[h] < MaxPos)
  BY <1>1 DEF TypeOK, Positions, NoPos
<1>3. ASSUME ~req[t].back, Agree(h, pos[h]) PROVE Agree(h, pos[h])'
  <2>1. CASE cursor[h] + k > MaxPos
    <3>1. cursor'[h] = cursor[h]
      BY <1>1, <1>3, <2>1
    <3>2. cursor[h] = NoPos
      BY <1>2, <1>3, <2>1 DEF Agree
    <3> QED BY <3>1, <3>2 DEF Agree, NoPos
  <2>2. CASE ~(cursor[h] + k > MaxPos)
    <3>1. cursor'[h] = cursor[h] + k
      BY <1>1, <1>3, <2>2 DEF TypeOK
    <3>2. cursor[h] # NoPos
      BY <1>2, <2>2
    <3> QED BY <1>2, <1>3, <3>1, <3>2 DEF Agree
  <2> QED BY <2>1, <2>2
<1> QED BY <1>1, <1>3

\* Each step of a call leaves the file it uses where the client expects it.
LEMMA StepAgrees ==
  ASSUME TypeOK, Placed, SetsBack, NEW t \in Threads, Step(t), NEW h \in Tracked, hdl[t] = h,
         fdOf[h] \in Fds, desc[fdOf[h]] = h, InCall(t, h)
  PROVE  InCall(t, h)'
<1> USE TrackedHandles
<1>0. /\ h \in Seekable \cap Handles /\ h \notin Devices
      /\ Offset(h) = pos[h] /\ \A p : Moved(h, p) = [pos EXCEPT ![h] = p]
      /\ req[t] \in Requests /\ (req[t].at = NoPos => ~req[t].back) /\ ~NoRequest.back
  BY RequestFields DEF Offset, Moved, TypeOK, NoRequest
<1>1. CASE Tell(t)
  BY <1>0, <1>1 DEF Tell, Goto, Over, InCall, Agree, kernel, TypeOK
<1>2. CASE Seek(t)
  <2>1. pos'[h] = req[t].at /\ cursor'[h] = req[t].at /\ pc'[t] = "end"
    BY <1>0, <1>2 DEF Seek, Goto, Over, LSeek, Knows, TypeOK
  <2> QED BY <2>1 DEF InCall, Agree
<1>3. CASE SeekFails(t)
  BY <1>0, <1>3 DEF SeekFails, Goto, Over, InCall, Agree, kernel, TypeOK
<1>4. CASE SavePosition(t)
  <2>1. /\ pc[t] = "begin" /\ pc'[t] = "place" /\ req' = req /\ pos' = pos /\ cursor' = cursor
        /\ (req[t].back => saved'[t] = pos[h])
    BY <1>0, <1>4 DEF SavePosition, Goto, kernel, TypeOK
  <2> QED BY <2>1 DEF InCall, Agree
<1>5. CASE Place(t)
  <2>1. /\ pc[t] = "place" /\ pc'[t] = "data" /\ req' = req /\ saved' = saved
        /\ pos'[h] = req[t].at
        /\ IF req[t].back THEN cursor' = cursor ELSE cursor'[h] = req[t].at
    BY <1>0, <1>5 DEF Place, Goto, LSeek, Knows, TypeOK
  <2> QED BY <2>1 DEF InCall, Agree
<1>6. ASSUME Transfer(t), hdl' = hdl
      PROVE  /\ ~req[t].back => Agree(h, pos[h])'
             /\ req[t].back => pc[t] = "data" /\ cursor' = cursor /\ Agree(h, saved[t])
  <2>1. (pc[t] = "begin" /\ req[t].at = NoPos) \/ pc[t] = "data"
    BY <1>6 DEF Transfer, AtData
  <2>2. ~req[t].back => Agree(h, pos[h])
    BY <2>1 DEF InCall
  <2>3. req[t].back => pc[t] = "data" /\ Agree(h, saved[t])
    BY <1>0, <2>1 DEF InCall
  <2> QED BY <1>6, <2>2, <2>3, TransferAgrees
<1>7. CASE WritePart(t)
  <2>1. pc'[t] = "data" /\ req' = req /\ saved' = saved /\ Transfer(t) /\ hdl' = hdl
    BY <1>7 DEF WritePart, Goto, TypeOK
  <2> QED BY <1>6, <2>1 DEF InCall, Agree
<1>8. CASE TransferEnds(t)
  <2>1. /\ Transfer(t) /\ hdl' = hdl
        /\ IF req[t].back THEN pc'[t] = "back" /\ req' = req /\ saved' = saved ELSE pc'[t] = "end"
    BY <1>8 DEF TransferEnds, Goto, Over, TypeOK
  <2> QED BY <1>6, <2>1 DEF InCall, Agree
<1>9. CASE TransferFails(t)
  <2>1. cursor'[h] = NoPos /\ pc'[t] = "end"
    BY <1>0, <1>9 DEF TransferFails, Goto, Over, Knows, TypeOK
  <2> QED BY <2>1 DEF InCall, Agree
<1>10. CASE SetBack(t)
  <2>1. /\ pc[t] = "back" /\ pc'[t] = "end" /\ cursor' = cursor /\ pos'[h] = saved[t]
    BY <1>0, <1>10 DEF SetBack, Goto, Over, LSeek, TypeOK
  <2> QED BY <2>1 DEF InCall, Agree, SetsBack
<1> QED BY <1>1, <1>2, <1>3, <1>4, <1>5, <1>7, <1>8, <1>9, <1>10 DEF Step

\* What is left of a call when it returns: the file is in the table.
LEMMA ReturnAgrees ==
  ASSUME TypeOK, OneCall, SetsBack, NEW t \in Threads, pc[t] \in {"opened", "end"}, Return(t, files'),
         NEW g \in Tracked, At(g), hdl[t] = g => g \in files', files' \subseteq files \cup {hdl[t]},
         UNCHANGED <<fdOf, req, saved, cursor, handed>>,
         hdl[t] # g => (fdOf[g] = NoFd \/ (Exists(g) /\ fdOf[g] \notin handed) => pos'[g] = pos[g])
  PROVE  At(g)' /\ SetsBack'
<1>1. /\ pc' = [pc EXCEPT ![t] = "idle"] /\ hdl' = [hdl EXCEPT ![t] = NoHandle]
      /\ NoHandle \notin Handles /\ g \in Handles \ Shared /\ SetsBack'
  BY ConstantsAssumption, TrackedHandles DEF Return, Goto, TypeOK, SetsBack
<1>2. CASE hdl[t] = g
  <2>1. pos' = pos
    BY <1>2 DEF Return, Untouched, kernel
  <2>2. Exists(g) /\ \A u \in Threads : hdl'[u] # g
    BY <1>1, <1>2 DEF OneCall, Exists, TypeOK
  <2>3. fdOf[g] \notin handed => Agree(g, pos[g])
    BY <1>2, <2>2 DEF At, InCall
  <2> QED BY <1>1, <2>1, <2>2, <2>3 DEF At, Agree
<1>3. CASE hdl[t] # g
  <2>1. \A u \in Threads : hdl[u] = g \/ hdl'[u] = g => hdl'[u] = hdl[u] /\ pc'[u] = pc[u]
    BY <1>1, <1>3 DEF TypeOK
  <2> QED BY <1>1, <1>3, <2>1, OthersKeep
<1> QED BY <1>2, <1>3

LEMMA Positioning == Spec => []Positioned
<1> USE ConstantsAssumption
<1>1. Init => Positioned
  BY TrackedHandles DEF Init, Positioned, SetsBack, At, Exists
<1>2. Control /\ Owned /\ HandedOver /\ Handlers /\ Positioned /\ [Next]_vars => Positioned'
  <2> SUFFICES ASSUME TypeOK, Phases, Placed, Owned, HandedOver, OneCall, InTable,
                      SetsBack, \A g \in Tracked : At(g), [Next]_vars
               PROVE  SetsBack' /\ \A g \in Tracked : At(g)'
    BY DEF Control, Handlers, Positioned, Tracked, SetsBack
  <2>0. /\ \A g \in Tracked : g \in Handles \ Shared /\ g \in Seekable
        /\ NoFd \notin Fds /\ NoHandle \notin Handles
    BY TrackedHandles
  <2>1. ASSUME NEW t \in Threads, NEW h \in Handles, NEW n \in Fds, Open(t, h, n) PROVE SetsBack' /\ \A g \in Tracked : At(g)'
    <3>1. /\ pc[t] = "idle" /\ hdl[t] = NoHandle /\ fdOf[h] = NoFd
          /\ pc' = [pc EXCEPT ![t] = "opened"] /\ hdl' = [hdl EXCEPT ![t] = h]
          /\ fdOf' = [fdOf EXCEPT ![h] = n]
          /\ UNCHANGED <<files, pos, req, saved, cursor, handed>>
      BY <2>1 DEF Open, Goto, TypeOK, service
    <3>2. SetsBack'
      BY <3>1 DEF SetsBack, TypeOK
    <3>3. ASSUME h \in Tracked PROVE At(h)'
      <4>1. pos[h] = 0 /\ cursor[h] = 0 /\ fdOf'[h] = n /\ \A u \in Threads : hdl[u] # h
        BY <3>1, <3>3 DEF At, TypeOK
      <4>2. hdl'[t] = h /\ pc'[t] = "opened" /\ \A u \in Threads \ {t} : hdl'[u] # h
        BY <3>1, <4>1 DEF TypeOK
      <4> QED BY <2>0, <3>1, <4>1, <4>2 DEF At, InCall, Agree
    <3>4. ASSUME NEW g \in Tracked, g # h PROVE At(g)'
      <4>1. /\ fdOf'[g] = fdOf[g]
            /\ \A u \in Threads : hdl[u] = g \/ hdl'[u] = g => hdl'[u] = hdl[u] /\ pc'[u] = pc[u]
        BY <2>0, <3>1, <3>4 DEF TypeOK
      <4> QED BY <3>1, <4>1, OthersKeep
    <3> QED BY <3>2, <3>3, <3>4
  <2>2. ASSUME NEW t \in Threads, Step(t) PROVE SetsBack' /\ \A g \in Tracked : At(g)'
    <3>1. /\ UNCHANGED <<files, fdOf, desc, hdl, handed>> /\ pc[t] \in Moving
          /\ \E l \in {"place", "data", "back", "end"} : pc' = [pc EXCEPT ![t] = l]
          /\ hdl[t] \in Handles /\ fdOf[hdl[t]] \in Fds
      BY <2>2, StepEffect, CallTyped DEF Moving
    <3>2. SetsBack'
      <4>1. \A u \in Threads : pc'[u] = "back" => pc[u] = "back" \/ req'[u].back
        BY <2>2, StepMoves
      <4>2. ASSUME pc'[t] = "back", pc[t] = "back" PROVE FALSE
        BY <2>2, <3>1, <4>2 DEF Step, Tell, Seek, SeekFails, SavePosition, Place, WritePart, TransferEnds, Transfer, AtData, TransferFails, SetBack, Goto, Over, TypeOK
      <4>3. \A u \in Threads \ {t} : pc'[u] = pc[u] /\ req'[u] = req[u]
        BY <2>2, <3>1, StepMoves DEF TypeOK
      <4> QED BY <4>1, <4>2, <4>3 DEF SetsBack
    <3>3. ASSUME NEW g \in Tracked, hdl[t] = g PROVE At(g)'
      <4>1. CASE fdOf[g] \in handed
        BY <2>0, <3>1, <3>3, <4>1 DEF At
      <4>2. CASE fdOf[g] \notin handed
        <5>1. desc[fdOf[g]] = g /\ InCall(t, g)
          BY <2>0, <3>3, <4>2 DEF Owned, At, Exists
        <5>2. InCall(t, g)'
          BY <2>2, <3>1, <3>3, <5>1, StepAgrees
        <5>3. \A u \in Threads : hdl[u] = g => u = t
          BY <2>0, <3>3 DEF OneCall
        <5> QED BY <2>0, <3>1, <3>3, <5>2, <5>3 DEF At
      <4> QED BY <4>1, <4>2
    <3>4. ASSUME NEW g \in Tracked, hdl[t] # g PROVE At(g)'
      <4>1. cursor'[g] = cursor[g] /\ \A u \in Threads \ {t} : pc'[u] = pc[u] /\ req'[u] = req[u] /\ saved'[u] = saved[u]
        BY <2>2, <2>0, <3>1, <3>4, StepMoves DEF TypeOK
      <4>2. ASSUME desc[fdOf[hdl[t]]] # g PROVE pos'[g] = pos[g]
        <5>1. pos' = pos \/ \E p : pos' = Moved(hdl[t], p)
          BY <2>2, StepMoves
        <5> QED BY <2>0, <4>2, <5>1 DEF Moved, TypeOK
      <4>3. fdOf[g] = NoFd => pos'[g] = pos[g]
        BY <2>0, <3>1, <4>2, OwnNumber
      <4>4. Exists(g) /\ fdOf[g] \notin handed => pos'[g] = pos[g]
        <5>1. Exists(hdl[t])
          BY DEF Exists
        <5> QED BY <2>0, <3>1, <3>4, <4>2, <5>1, OwnNumber
      <4> QED BY <3>1, <3>4, <4>1, <4>3, <4>4, OthersKeep
    <3> QED BY <3>2, <3>3, <3>4
  <2>3. ASSUME NEW t \in Threads, AddFile(t) PROVE SetsBack' /\ \A g \in Tracked : At(g)'
    <3>1. /\ pc[t] = "opened" /\ Return(t, files') /\ UNCHANGED <<fdOf, req, saved, cursor, handed>>
          /\ files \subseteq files' /\ files' \subseteq files \cup {hdl[t]}
          /\ hdl[t] \in Handles /\ fdOf[hdl[t]] \in Fds
      BY <2>3, CallTyped DEF AddFile, table
    <3>2. \A g \in Tracked : hdl[t] = g => g \in files'
      BY <2>3, <2>0, <3>1 DEF AddFile, InTable
    <3>3. ASSUME NEW g \in Tracked, hdl[t] # g, fdOf[g] = NoFd \/ (Exists(g) /\ fdOf[g] \notin handed)
          PROVE pos'[g] = pos[g]
      <4>1. fdOf[hdl[t]] # fdOf[g]
        <5>1. Exists(hdl[t])
          BY DEF Exists
        <5> QED BY <2>0, <3>1, <3>3, <5>1, OwnNumber
      <4>2. CloseFor(fdOf[hdl[t]], hdl[t]) \/ pos' = pos
        BY <3>1 DEF Return, Untouched, kernel
      <4> QED BY <2>0, <3>1, <4>1, <4>2, CloseElsewhere
    <3>4. \A g \in Tracked : At(g)'
      BY <3>1, <3>2, <3>3, ReturnAgrees
    <3>5. SetsBack'
      BY <3>1 DEF Return, Goto, SetsBack, TypeOK
    <3> QED BY <3>4, <3>5
  <2>4. ASSUME NEW t \in Threads, End(t) PROVE SetsBack' /\ \A g \in Tracked : At(g)'
    <3>1. /\ pc[t] = "end" /\ Return(t, files') /\ UNCHANGED <<fdOf, req, saved, cursor, handed>>
          /\ files \subseteq files' /\ files' \subseteq files \cup {hdl[t]}
          /\ hdl[t] \in Handles /\ fdOf[hdl[t]] \in Fds
      BY <2>4, CallTyped DEF End, table
    <3>2. \A g \in Tracked : hdl[t] = g => g \in files'
      BY <2>4, <2>0, <3>1 DEF End, InTable
    <3>3. ASSUME NEW g \in Tracked, hdl[t] # g, fdOf[g] = NoFd \/ (Exists(g) /\ fdOf[g] \notin handed)
          PROVE pos'[g] = pos[g]
      <4>1. fdOf[hdl[t]] # fdOf[g]
        <5>1. Exists(hdl[t])
          BY DEF Exists
        <5> QED BY <2>0, <3>1, <3>3, <5>1, OwnNumber
      <4>2. CloseFor(fdOf[hdl[t]], hdl[t]) \/ pos' = pos
        BY <3>1 DEF Return, Untouched, kernel
      <4> QED BY <2>0, <3>1, <4>1, <4>2, CloseElsewhere
    <3>4. \A g \in Tracked : At(g)'
      BY <3>1, <3>2, <3>3, ReturnAgrees
    <3>5. SetsBack'
      BY <3>1 DEF Return, Goto, SetsBack, TypeOK
    <3> QED BY <3>4, <3>5
  <2>5. ASSUME NEW t \in Threads, NEW h \in Handles, NEW r \in Requests, GetFile(t, h, r) PROVE SetsBack' /\ \A g \in Tracked : At(g)'
    <3>1. /\ pc[t] = "idle" /\ hdl[t] = NoHandle /\ h \in files
          /\ (h \in Shared \/ \A u \in Threads : hdl[u] # h)
          /\ pc' = [pc EXCEPT ![t] = "begin"] /\ hdl' = [hdl EXCEPT ![t] = h] /\ req' = [req EXCEPT ![t] = r]
          /\ UNCHANGED <<files, fdOf, pos, saved, cursor, handed>>
      BY <2>5 DEF GetFile, Goto, TypeOK, table, kernel
    <3>2. SetsBack'
      BY <3>1 DEF SetsBack, TypeOK
    <3>3. ASSUME h \in Tracked PROVE At(h)'
      <4>1. \A u \in Threads : hdl[u] # h
        BY <2>0, <3>1, <3>3
      <4>2. fdOf[h] \notin handed => Agree(h, pos[h])
        BY <3>1, <3>3, <4>1 DEF At, Exists
      <4>3. hdl'[t] = h /\ pc'[t] = "begin" /\ \A u \in Threads \ {t} : hdl'[u] # h
        BY <3>1, <4>1 DEF TypeOK
      <4> QED BY <3>1, <3>3, <4>2, <4>3 DEF At, InCall, Agree
    <3>4. ASSUME NEW g \in Tracked, g # h PROVE At(g)'
      <4>1. \A u \in Threads : hdl[u] = g \/ hdl'[u] = g => hdl'[u] = hdl[u] /\ pc'[u] = pc[u] /\ req'[u] = req[u]
        BY <2>0, <3>1, <3>4 DEF TypeOK
      <4> QED BY <3>1, <4>1, OthersKeep
    <3> QED BY <3>2, <3>3, <3>4
  <2>6. ASSUME NEW t \in Threads, NEW h \in Handles, CloseBegin(t, h) PROVE SetsBack' /\ \A g \in Tracked : At(g)'
    <3>1. /\ pc[t] = "idle" /\ hdl[t] = NoHandle /\ h \in files
          /\ (h \in Shared \/ \A u \in Threads : hdl[u] # h)
          /\ pc' = [pc EXCEPT ![t] = "closeDel"] /\ hdl' = [hdl EXCEPT ![t] = h] /\ req' = req
          /\ UNCHANGED <<files, fdOf, pos, saved, cursor, handed>>
      BY <2>6 DEF CloseBegin, Goto, TypeOK, table, kernel
    <3>2. SetsBack'
      BY <3>1 DEF SetsBack, TypeOK
    <3>3. ASSUME h \in Tracked PROVE At(h)'
      <4>1. \A u \in Threads : hdl[u] # h
        BY <2>0, <3>1, <3>3
      <4>2. fdOf[h] \notin handed => Agree(h, pos[h])
        BY <3>1, <3>3, <4>1 DEF At, Exists
      <4>3. hdl'[t] = h /\ pc'[t] = "closeDel" /\ \A u \in Threads \ {t} : hdl'[u] # h
        BY <3>1, <4>1 DEF TypeOK
      <4> QED BY <3>1, <3>3, <4>2, <4>3 DEF At, InCall, Agree
    <3>4. ASSUME NEW g \in Tracked, g # h PROVE At(g)'
      <4>1. \A u \in Threads : hdl[u] = g \/ hdl'[u] = g => hdl'[u] = hdl[u] /\ pc'[u] = pc[u] /\ req'[u] = req[u]
        BY <2>0, <3>1, <3>4 DEF TypeOK
      <4> QED BY <3>1, <4>1, OthersKeep
    <3> QED BY <3>2, <3>3, <3>4
  <2>7. ASSUME NEW t \in Threads, AddFd(t) PROVE SetsBack' /\ \A g \in Tracked : At(g)'
    <3>1. hdl[t] \in Handles /\ fdOf[hdl[t]] \in Fds
      BY <2>7, CallTyped DEF AddFd
    <3>2. /\ pc' = [pc EXCEPT ![t] = "end"] /\ UNCHANGED <<files, fdOf, hdl, cursor>>
          /\ pc[t] = "begin" /\ handed' = handed \cup {fdOf[hdl[t]]}
          /\ \A u \in Threads \ {t} : req'[u] = req[u] /\ saved'[u] = saved[u]
      BY <2>7 DEF AddFd, Goto, Over, TypeOK, table, Handed
    <3>3. \A g \in Tracked : fdOf[g] = NoFd \/ (Exists(g) /\ fdOf[g] \notin handed') => pos'[g] = pos[g]
      BY <2>7 DEF AddFd, kernel
    <3>4. SetsBack'
      BY <3>2 DEF SetsBack, TypeOK
    <3>5. ASSUME NEW g \in Tracked, hdl[t] = g PROVE At(g)'
      <4>1. fdOf[g] \notin handed' => pos'[g] = pos[g] /\ Agree(g, pos[g])
        BY <3>2, <3>3, <3>5 DEF At, Exists
      <4>2. pc'[t] = "end" /\ \A u \in Threads : hdl[u] = g => u = t
        BY <2>0, <3>2, <3>5 DEF OneCall, TypeOK
      <4> QED BY <2>0, <3>1, <3>2, <3>5, <4>1, <4>2 DEF At, InCall, Agree
    <3>6. ASSUME NEW g \in Tracked, hdl[t] # g PROVE At(g)'
      <4>1. \A u \in Threads \ {t} : pc'[u] = pc[u]
        BY <3>2 DEF TypeOK
      <4> QED BY <3>2, <3>3, <3>6, <4>1, OthersKeep
    <3> QED BY <3>4, <3>5, <3>6
  <2>8. ASSUME NEW t \in Threads, AddFdFails(t) PROVE SetsBack' /\ \A g \in Tracked : At(g)'
    <3>1. hdl[t] \in Handles /\ fdOf[hdl[t]] \in Fds
      BY <2>8, CallTyped DEF AddFdFails
    <3>2. /\ pc' = [pc EXCEPT ![t] = "end"] /\ UNCHANGED <<files, fdOf, hdl, cursor>>
          /\ pc[t] = "begin" /\ handed' = handed \cup {fdOf[hdl[t]]} /\ CloseFor(fdOf[hdl[t]], hdl[t])
          /\ \A u \in Threads \ {t} : req'[u] = req[u] /\ saved'[u] = saved[u]
      BY <2>8 DEF AddFdFails, Goto, Over, TypeOK, table, Handed
    <3>3. \A g \in Tracked : fdOf[g] = NoFd \/ (Exists(g) /\ fdOf[g] \notin handed') => pos'[g] = pos[g]
      BY <2>0, <3>1, <3>2, CloseElsewhere
    <3>4. SetsBack'
      BY <3>2 DEF SetsBack, TypeOK
    <3>5. ASSUME NEW g \in Tracked, hdl[t] = g PROVE At(g)'
      <4>1. fdOf[g] \notin handed' => pos'[g] = pos[g] /\ Agree(g, pos[g])
        BY <3>2, <3>3, <3>5 DEF At, Exists
      <4>2. pc'[t] = "end" /\ \A u \in Threads : hdl[u] = g => u = t
        BY <2>0, <3>2, <3>5 DEF OneCall, TypeOK
      <4> QED BY <2>0, <3>1, <3>2, <3>5, <4>1, <4>2 DEF At, InCall, Agree
    <3>6. ASSUME NEW g \in Tracked, hdl[t] # g PROVE At(g)'
      <4>1. \A u \in Threads \ {t} : pc'[u] = pc[u]
        BY <3>2 DEF TypeOK
      <4> QED BY <3>2, <3>3, <3>6, <4>1, OthersKeep
    <3> QED BY <3>4, <3>5, <3>6
  <2>9. ASSUME NEW t \in Threads, Unregister(t) PROVE SetsBack' /\ \A g \in Tracked : At(g)'
    <3>1. hdl[t] \in Handles /\ fdOf[hdl[t]] \in Fds
      BY <2>9, CallTyped DEF Unregister
    <3>2. /\ pc' = [pc EXCEPT ![t] = "end"] /\ UNCHANGED <<files, fdOf, hdl, cursor>>
          /\ pc[t] = "begin" /\ handed' = handed /\ DelFd(hdl[t])
          /\ \A u \in Threads \ {t} : req'[u] = req[u] /\ saved'[u] = saved[u]
      BY <2>9 DEF Unregister, Goto, Over, TypeOK, table
    <3>3. \A g \in Tracked : fdOf[g] = NoFd \/ (Exists(g) /\ fdOf[g] \notin handed') => pos'[g] = pos[g]
      BY <2>0, <3>1, <3>2, DelFdElsewhere
    <3>4. SetsBack'
      BY <3>2 DEF SetsBack, TypeOK
    <3>5. ASSUME NEW g \in Tracked, hdl[t] = g PROVE At(g)'
      <4>1. fdOf[g] \notin handed' => pos'[g] = pos[g] /\ Agree(g, pos[g])
        BY <3>2, <3>3, <3>5 DEF At, Exists, InCall
      <4>2. pc'[t] = "end" /\ \A u \in Threads : hdl[u] = g => u = t
        BY <2>0, <3>2, <3>5 DEF OneCall, TypeOK
      <4> QED BY <2>0, <3>1, <3>2, <3>5, <4>1, <4>2 DEF At, InCall, Agree
    <3>6. ASSUME NEW g \in Tracked, hdl[t] # g PROVE At(g)'
      <4>1. \A u \in Threads \ {t} : pc'[u] = pc[u]
        BY <3>2 DEF TypeOK
      <4> QED BY <3>2, <3>3, <3>6, <4>1, OthersKeep
    <3> QED BY <3>4, <3>5, <3>6
  <2>10. ASSUME NEW t \in Threads, CloseDel(t) PROVE SetsBack' /\ \A g \in Tracked : At(g)'
    <3>1. hdl[t] \in Handles /\ fdOf[hdl[t]] \in Fds
      BY <2>10, CallTyped DEF CloseDel
    <3>2. /\ pc' = [pc EXCEPT ![t] = "closeErase"] /\ UNCHANGED <<files, fdOf, hdl, cursor>>
          /\ handed' = handed /\ DelFd(hdl[t])
          /\ \A u \in Threads \ {t} : req'[u] = req[u] /\ saved'[u] = saved[u]
      BY <2>10 DEF CloseDel, Goto, Over, TypeOK, table
    <3>3. \A g \in Tracked : fdOf[g] = NoFd \/ (Exists(g) /\ fdOf[g] \notin handed') => pos'[g] = pos[g]
      BY <2>0, <3>1, <3>2, DelFdElsewhere
    <3>4. SetsBack'
      BY <3>2 DEF SetsBack, TypeOK
    <3>5. ASSUME NEW g \in Tracked, hdl[t] = g PROVE At(g)'
      <4>1. fdOf[g] \notin handed' => pos'[g] = pos[g]
        BY <3>2, <3>3, <3>5 DEF At, Exists
      <4>2. pc'[t] = "closeErase" /\ \A u \in Threads : hdl[u] = g => u = t
        BY <2>0, <3>2, <3>5 DEF OneCall, TypeOK
      <4> QED BY <2>0, <3>1, <3>2, <3>5, <4>1, <4>2 DEF At, InCall, Agree
    <3>6. ASSUME NEW g \in Tracked, hdl[t] # g PROVE At(g)'
      <4>1. \A u \in Threads \ {t} : pc'[u] = pc[u]
        BY <3>2 DEF TypeOK
      <4> QED BY <3>2, <3>3, <3>6, <4>1, OthersKeep
    <3> QED BY <3>4, <3>5, <3>6
  <2>11. ASSUME NEW t \in Threads, CloseErase(t) PROVE SetsBack' /\ \A g \in Tracked : At(g)'
    <3>1. /\ hdl[t] \in Handles /\ fdOf[hdl[t]] \in Fds /\ Return(t, files')
          /\ files' = files \ {hdl[t]} /\ UNCHANGED <<fdOf, req, saved, handed>>
          /\ \A g \in Handles \ {hdl[t]} : cursor'[g] = cursor[g]
          /\ pc' = [pc EXCEPT ![t] = "idle"] /\ hdl' = [hdl EXCEPT ![t] = NoHandle]
      BY <2>11, CallTyped DEF CloseErase, Return, Goto, Knows, TypeOK
    <3>2. SetsBack'
      BY <3>1 DEF SetsBack, TypeOK
    <3>3. ASSUME NEW g \in Tracked, hdl[t] = g PROVE At(g)'
      <4>1. ~Exists(g)'
        BY <2>0, <3>1, <3>3 DEF OneCall, Exists, TypeOK
      <4> QED BY <2>0, <3>1, <3>3, <4>1 DEF At
    <3>4. ASSUME NEW g \in Tracked, hdl[t] # g PROVE At(g)'
      <4>1. CloseFor(fdOf[hdl[t]], hdl[t]) \/ pos' = pos
        BY <3>1 DEF Return, Untouched, kernel
      <4>2. fdOf[g] = NoFd => pos'[g] = pos[g]
        BY <2>0, <3>1, <4>1, CloseElsewhere
      <4>3. Exists(g) /\ fdOf[g] \notin handed => pos'[g] = pos[g]
        <5>1. Exists(hdl[t])
          BY DEF Exists
        <5> QED BY <2>0, <3>1, <3>4, <4>1, <5>1, OwnNumber, CloseElsewhere
      <4>4. \A u \in Threads : hdl[u] = g \/ hdl'[u] = g => hdl'[u] = hdl[u] /\ pc'[u] = pc[u]
        BY <2>0, <3>1, <3>4 DEF TypeOK
      <4> QED BY <2>0, <3>1, <3>4, <4>2, <4>3, <4>4, OthersKeep
    <3> QED BY <3>2, <3>3, <3>4
  <2>12. ASSUME NEW h \in Handles, DestroyFile(h) PROVE SetsBack' /\ \A g \in Tracked : At(g)'
    <3>1. UNCHANGED <<fdOf, pc, hdl, req, saved, cursor, handed>> /\ files' \subseteq files
      BY <2>12 DEF DestroyFile, call, service
    <3>2. \A g \in Tracked : fdOf[g] = NoFd \/ (Exists(g) /\ Exists(g)' /\ fdOf[g] \notin handed) => pos'[g] = pos[g]
      <4>1. fdOf[h] \in Fds /\ h \in files /\ CloseFor(fdOf[h], h) /\ \A u \in Threads : hdl[u] = NoHandle
        BY <2>12 DEF DestroyFile, Phases, TypeOK
      <4>2. ~Exists(h)' /\ Exists(h) /\ fdOf[h] # NoFd
        BY <2>0, <2>12, <4>1 DEF DestroyFile, Exists, call
      <4> QED BY <2>0, <4>1, <4>2, OwnNumber, CloseElsewhere
    <3>3. \A g \in Tracked : At(g)'
      BY <3>1, <3>2, OthersKeep
    <3> QED BY <3>1, <3>3 DEF SetsBack
  <2>13. ASSUME NEW h \in Handles, DestroyDel(h) PROVE SetsBack' /\ \A g \in Tracked : At(g)'
    <3>1. UNCHANGED <<fdOf, pc, hdl, req, saved, cursor, handed>> /\ files' \subseteq files
      BY <2>13 DEF DestroyDel, call, table
    <3>2. \A g \in Tracked : fdOf[g] = NoFd \/ (Exists(g) /\ Exists(g)' /\ fdOf[g] \notin handed) => pos'[g] = pos[g]
      <4>1. fdOf[h] \in Fds /\ DelFd(h)
        BY <2>13 DEF DestroyDel, TypeOK
      <4> QED BY <2>0, <4>1, DelFdElsewhere
    <3>3. \A g \in Tracked : At(g)'
      BY <3>1, <3>2, OthersKeep
    <3> QED BY <3>1, <3>3 DEF SetsBack
  <2>14. ASSUME Handled PROVE SetsBack' /\ \A g \in Tracked : At(g)'
    <3>1. UNCHANGED <<fdOf, pc, hdl, req, saved, cursor, handed>> /\ files' \subseteq files
      BY <2>14 DEF Handled, call, table
    <3>2. \A g \in Tracked : fdOf[g] = NoFd \/ (Exists(g) /\ Exists(g)' /\ fdOf[g] \notin handed) => pos'[g] = pos[g]
      <4>1. firing[1] \in handed /\ firing[1] \in Fds
        BY <2>14 DEF Handled, Reactor!Keep, HandedOver, TypeOK
      <4>2. pos' = pos \/ \E p : pos' = [pos EXCEPT ![desc[firing[1]]] = p]
        BY <2>14 DEF Handled
      <4> QED BY <2>0, <4>1, <4>2, OwnNumber DEF TypeOK
    <3>3. \A g \in Tracked : At(g)'
      BY <3>1, <3>2, OthersKeep
    <3> QED BY <3>1, <3>3 DEF SetsBack
  <2>15. ASSUME HandlerFails PROVE SetsBack' /\ \A g \in Tracked : At(g)'
    <3>1. UNCHANGED <<fdOf, pc, hdl, req, saved, cursor, handed>> /\ files' \subseteq files
      BY <2>15 DEF HandlerFails, call, table
    <3>2. \A g \in Tracked : fdOf[g] = NoFd \/ (Exists(g) /\ Exists(g)' /\ fdOf[g] \notin handed) => pos'[g] = pos[g]
      <4>1. /\ firing[1] \in handed /\ firing[1] \in Fds /\ firing[2] \in Handles
            /\ CloseFor(firing[1], firing[2])
        BY <2>15 DEF HandlerFails, Reactor!Drop, HandedOver, TypeOK
      <4> QED BY <2>0, <4>1, CloseElsewhere
    <3>3. \A g \in Tracked : At(g)'
      BY <3>1, <3>2, OthersKeep
    <3> QED BY <3>1, <3>3 DEF SetsBack
  <2>16. ASSUME NEW n \in Fds, Event(n) PROVE SetsBack' /\ \A g \in Tracked : At(g)'
    <3>1. UNCHANGED <<fdOf, pc, hdl, req, saved, cursor, handed, files, pos>>
      BY <2>16 DEF Event, call, table, kernel
    <3> QED BY <3>1, OthersKeep DEF SetsBack
  <2>17. ASSUME NEW n \in Fds, OtherOpens(n) PROVE SetsBack' /\ \A g \in Tracked : At(g)'
    <3>1. UNCHANGED <<fdOf, pc, hdl, req, saved, cursor, handed, files, pos>>
      BY <2>17 DEF OtherOpens, call, table, kernel
    <3> QED BY <3>1, OthersKeep DEF SetsBack
  <2>18. ASSUME NEW n \in Fds, OtherCloses(n) PROVE SetsBack' /\ \A g \in Tracked : At(g)'
    <3>1. UNCHANGED <<fdOf, pc, hdl, req, saved, cursor, handed, files, pos>>
      BY <2>18 DEF OtherCloses, call, table, kernel
    <3> QED BY <3>1, OthersKeep DEF SetsBack
  <2>19. ASSUME Disconnect PROVE SetsBack' /\ \A g \in Tracked : At(g)'
    <3>1. UNCHANGED <<fdOf, pc, hdl, req, saved, cursor, handed, files, pos>>
      BY <2>19 DEF Disconnect, call, table, kernel
    <3> QED BY <3>1, OthersKeep DEF SetsBack
  <2>20. ASSUME DestroyBegin PROVE SetsBack' /\ \A g \in Tracked : At(g)'
    <3>1. UNCHANGED <<fdOf, pc, hdl, req, saved, cursor, handed, files, pos>>
      BY <2>20 DEF DestroyBegin, call, table, kernel
    <3> QED BY <3>1, OthersKeep DEF SetsBack
  <2>21. ASSUME DestroyTable PROVE SetsBack' /\ \A g \in Tracked : At(g)'
    <3>1. UNCHANGED <<fdOf, pc, hdl, req, saved, cursor, handed, files, pos>>
      BY <2>21 DEF DestroyTable, call, table, kernel
    <3> QED BY <3>1, OthersKeep DEF SetsBack
  <2>22. ASSUME DestroyEnd PROVE SetsBack' /\ \A g \in Tracked : At(g)'
    <3>1. UNCHANGED <<fdOf, pc, hdl, req, saved, cursor, handed, files, pos>>
      BY <2>22 DEF DestroyEnd, call, table, kernel
    <3> QED BY <3>1, OthersKeep DEF SetsBack
  <2>23. CASE UNCHANGED vars
    <3>1. UNCHANGED <<fdOf, pc, hdl, req, saved, cursor, handed, files, pos>>
      BY <2>23 DEF vars, call, table, kernel
    <3> QED BY <3>1, OthersKeep DEF SetsBack
  <2> QED BY <2>1, <2>2, <2>3, <2>4, <2>5, <2>6, <2>7, <2>8, <2>9, <2>10, <2>11, <2>12, <2>13, <2>14, <2>15, <2>16, <2>17, <2>18, <2>19, <2>20, <2>21, <2>22, <2>23 DEF Next, Served, Requested, Step
<1> QED BY <1>1, <1>2, Controlled, Owning, Handling, PTL DEF Spec

\* A file that one call at a time uses, and that is not watched, is where its
\* client computes it to be, whatever calls on other files, the events of
\* watched ones and the rest of the agent do: a transfer that sets back leaves
\* no trace, and no call reaches it by a number that has changed hands.
THEOREM ClientKnowsPosition == Spec => []CursorAgrees
<1>1. Positioned => CursorAgrees
  <2> SUFFICES ASSUME Positioned, NEW h \in files \cap Tracked, fdOf[h] \notin handed,
                      \A t \in Threads : hdl[t] # h, cursor[h] # NoPos
               PROVE  pos[h] = cursor[h]
    BY DEF CursorAgrees
  <2>1. At(h) /\ Exists(h)
    BY DEF Positioned, Exists
  <2> QED BY <2>1 DEF At, Agree
<1> QED BY <1>1, Positioning, PTL
=============================================================================
