---------------------------- MODULE FileService ----------------------------
(***************************************************************************)
(* The file service of one client, agent/subsys-fs.cpp (proto_file_impl)   *)
(* over the files of agent/files.cpp: RPC threads open, read, write, seek, *)
(* watch and close files by handle while the reactor runs their event      *)
(* handlers, the connection may be lost, and the rest of the agent opens   *)
(* and closes descriptors of its own.                                      *)
(*                                                                         *)
(* A file and the reactor's keeper each close the number when they go.     *)
(* The reactor is used through what it promises, EventDispatch.  Of a      *)
(* file's contents only the offset is kept, of an answer only its length.  *)
(***************************************************************************)
EXTENDS Naturals, FiniteSets

CONSTANTS Threads,   \* threads of the RPC pool that serve this client
          Handles,   \* results of next_op_id, never used twice
          Fds,       \* descriptor numbers
          Seekable,  \* handles of files that have an offset
          Pollable,  \* handles of files that epoll accepts
          Devices,   \* handles opened as_device
          Shared,    \* handles that several calls use at the same time
          MaxPos,    \* bound on offsets: the end of every file
          Other,     \* the rest of the agent, as the owner of a number
          NoHandle, NoFd, NoFile, NoThread

ASSUME ConstantsAssumption ==
  /\ Seekable \subseteq Handles /\ Pollable \subseteq Handles
  /\ Devices \subseteq Handles /\ Shared \subseteq Handles
  /\ MaxPos \in Nat
  /\ NoHandle \notin Handles /\ NoFd \notin Fds /\ NoThread \notin Threads
  /\ Other \notin Handles /\ NoFile \notin Handles /\ Other # NoFile

VARIABLES
  life,     \* the connection and the service: up, down, destroying, freeing, gone
  todo,     \* files whose descriptor destroy_all has still to delete
  files,    \* files_: the handles in the table
  lock,     \* files_lock_, held by a close
  fdOf,     \* fd_ of the file a handle was opened for
  desc,     \* descriptor table: the handle that opened a number, or Other
  pos,      \* offset of the file that a handle opened
  reg,      \* the reactor's registrations: the handle the handler is bound to
  firing,   \* the reactor's running handler
  pc,       \* where the call of each thread is
  hdl,      \* ... the handle whose file it holds
  req,      \* ... its request
  saved,    \* ... the position it will set back
  cursor,   \* history: the offset the client computes from its answers
  handed,   \* history: numbers that were ever passed to add_fd
  stolen    \* history: numbers closed by another than who opened them

kernel == <<desc, pos>>
reactor == <<reg, firing>>
service == <<life, todo>>
table == <<files, lock, fdOf>>
call == <<pc, hdl, req, saved>>
vars == <<service, table, kernel, reactor, call, cursor, handed, stolen>>

NoPos == MaxPos + 1       \* no position is given, or none is known
NotFiring == <<NoFd, NoHandle>>
Reactor == INSTANCE EventDispatch
             WITH Callbacks <- Handles, NoCb <- NoHandle, Nothing <- NotFiring

Transfers == {"read", "write"}
Requests == [op : {"tell", "register", "unregister"}, at : {NoPos}, back : {FALSE}]
       \cup [op : {"seek"}, at : 0..MaxPos, back : {FALSE}]
       \cup [op : Transfers, at : {NoPos}, back : {FALSE}]
       \cup [op : Transfers, at : 0..MaxPos, back : BOOLEAN]
NoRequest == [op |-> "tell", at |-> NoPos, back |-> FALSE]

Init ==
  /\ life = "up" /\ todo = {}
  /\ files = {} /\ lock = NoThread
  /\ fdOf = [h \in Handles |-> NoFd]
  /\ desc = [n \in Fds |-> NoFile]
  /\ pos = [h \in Handles |-> 0]
  /\ Reactor!Init
  /\ pc = [t \in Threads |-> "idle"]
  /\ hdl = [t \in Threads |-> NoHandle]
  /\ req = [t \in Threads |-> NoRequest]
  /\ saved = [t \in Threads |-> 0]
  /\ cursor = [h \in Handles |-> 0]
  /\ handed = {} /\ stolen = {}

Goto(t, label) == pc' = [pc EXCEPT ![t] = label]

\* close(n) on behalf of handle h: whoever has the number by now loses it.
CloseFor(n, h) ==
  /\ desc' = [desc EXCEPT ![n] = NoFile]
  /\ pos' = IF desc[n] \in Handles THEN [pos EXCEPT ![desc[n]] = 0] ELSE pos
  /\ stolen' = IF desc[n] \in {h, NoFile} THEN stolen ELSE stolen \cup {n}

Untouched == UNCHANGED <<kernel, stolen>>

(***************************************************************************)
(* A call that is over is at "end", by an answer or by an exception.  Then *)
(* it lets go of its file: the last owner destroys it, unless it is among  *)
(* the files that are left in the table.                                   *)
(***************************************************************************)
Over(t) ==
  /\ Goto(t, "end")
  /\ req' = [req EXCEPT ![t] = NoRequest]
  /\ saved' = [saved EXCEPT ![t] = 0]

\* Mutant: the file leaves the number to the reactor's keeper.
ReturnUnclosed(t, left) ==
  /\ Goto(t, "idle")
  /\ hdl' = [hdl EXCEPT ![t] = NoHandle]
  /\ Untouched

Return(t, left) ==
  LET h == hdl[t] IN
  /\ Goto(t, "idle")
  /\ hdl' = [hdl EXCEPT ![t] = NoHandle]
  /\ IF h \notin left /\ \A u \in Threads \ {t} : hdl[u] # h
       THEN CloseFor(fdOf[h], h)
       ELSE Untouched

End(t) ==
  /\ pc[t] = "end"
  /\ Return(t, files)
  /\ UNCHANGED <<service, table, reactor, req, saved, cursor, handed>>

(***************************************************************************)
(* open: the file is created first, then gets its handle.                  *)
(***************************************************************************)
Open(t, h, n) ==
  /\ life = "up" /\ pc[t] = "idle"
  /\ fdOf[h] = NoFd /\ desc[n] = NoFile
  /\ desc' = [desc EXCEPT ![n] = h]
  /\ fdOf' = [fdOf EXCEPT ![h] = n]
  /\ hdl' = [hdl EXCEPT ![t] = h]
  /\ Goto(t, "opened")
  /\ UNCHANGED <<service, files, lock, pos, reactor, req, saved, cursor, handed, stolen>>

AddFile(t) ==
  /\ pc[t] = "opened" /\ lock = NoThread
  /\ files' = files \cup {hdl[t]}
  /\ Return(t, files')
  /\ UNCHANGED <<service, lock, fdOf, reactor, req, saved, cursor, handed>>

\* get_file: the call holds the file from here on.  A handle that is not in
\* the table is answered with EBADF and changes nothing.  Requests that
\* transfer nothing are not sent by the clients of this repository.
GetFile(t, h, r) ==
  /\ life = "up" /\ pc[t] = "idle" /\ lock = NoThread
  /\ h \in files
  /\ h \in Shared \/ \A u \in Threads : hdl[u] # h
  /\ hdl' = [hdl EXCEPT ![t] = h]
  /\ req' = [req EXCEPT ![t] = r]
  /\ Goto(t, "begin")
  /\ UNCHANGED <<service, table, kernel, reactor, saved, cursor, handed, stolen>>

(***************************************************************************)
(* The offset.  A call reaches the file that has its number by now.        *)
(* Files opened as_device have no seek and no tell, and start over after   *)
(* each read and write.                                                    *)
(***************************************************************************)
Offset(h) == LET d == desc[fdOf[h]] IN IF d \in Seekable THEN pos[d] ELSE 0
Moved(h, p) == LET d == desc[fdOf[h]] IN
               IF d \in Seekable THEN [pos EXCEPT ![d] = p] ELSE pos

CanSeek(h) == h \in Devices \/ desc[fdOf[h]] \in Seekable
LSeek(h, p) == /\ CanSeek(h)
               /\ pos' = IF h \in Devices THEN pos ELSE Moved(h, p)

\* What the client knows: where it asked to go, and how far it got.
Tracked == Seekable \ (Devices \cup Shared)
Knows(h, p) == cursor' = IF h \in Tracked THEN [cursor EXCEPT ![h] = p] ELSE cursor

\* tell, flush and ioctl only look at the file.
Tell(t) ==
  /\ pc[t] = "begin" /\ req[t].op = "tell"
  /\ Over(t)
  /\ UNCHANGED <<service, table, kernel, reactor, hdl, cursor, handed, stolen>>

Seek(t) ==
  /\ pc[t] = "begin" /\ req[t].op = "seek"
  /\ LSeek(hdl[t], req[t].at)
  /\ Knows(hdl[t], req[t].at)
  /\ Over(t)
  /\ UNCHANGED <<service, table, desc, reactor, hdl, handed, stolen>>

\* The first lseek throws: no seekable file, a closed number, a bad position.
SeekFails(t) ==
  /\ pc[t] = "begin"
  /\ req[t].op \in {"seek"} \cup Transfers /\ req[t].at # NoPos
  /\ Over(t)
  /\ UNCHANGED <<service, table, kernel, reactor, hdl, cursor, handed, stolen>>

(***************************************************************************)
(* read and write at a position of their own: tell, seek, transfer, seek   *)
(* back, with no lock across the four.                                     *)
(***************************************************************************)
\* The position is of no use to a call that does not set back.
SavePosition(t) ==
  /\ pc[t] = "begin" /\ req[t].op \in Transfers /\ req[t].at # NoPos
  /\ CanSeek(hdl[t])
  /\ saved' = [saved EXCEPT ![t] = IF hdl[t] \in Devices \/ ~req[t].back
                                       THEN 0 ELSE Offset(hdl[t])]
  /\ Goto(t, "place")
  /\ UNCHANGED <<service, table, kernel, reactor, hdl, req, cursor, handed, stolen>>

Place(t) ==
  /\ pc[t] = "place"
  /\ LSeek(hdl[t], req[t].at)
  /\ IF req[t].back THEN UNCHANGED cursor ELSE Knows(hdl[t], req[t].at)
  /\ Goto(t, "data")
  /\ UNCHANGED <<service, table, desc, reactor, hdl, req, saved, handed, stolen>>

AtData(t) == \/ pc[t] = "data"
             \/ pc[t] = "begin" /\ req[t].op \in Transfers /\ req[t].at = NoPos

\* One read( ) or write( ): a byte, or none at the end of the file.
Transfer(t) ==
  LET h == hdl[t]
      p == Offset(h)
      k == IF desc[fdOf[h]] \in Seekable /\ p < MaxPos THEN 1 ELSE 0 IN
  /\ AtData(t) /\ desc[fdOf[h]] # NoFile
  /\ req[t].op = "write" => p < MaxPos
  /\ pos' = Moved(h, IF h \in Devices THEN 0 ELSE p + k)
  /\ IF req[t].back \/ cursor[h] + k > MaxPos
       THEN UNCHANGED cursor
       ELSE Knows(h, cursor[h] + k)

\* write( ) took a part: the loop goes on with the rest.
WritePart(t) ==
  /\ req[t].op = "write"
  /\ Transfer(t)
  /\ Goto(t, "data")
  /\ UNCHANGED <<service, table, desc, reactor, hdl, req, saved, handed, stolen>>

\* Mutant: a positional transfer does not set back.
TransferForgetsBack(t) ==
  /\ Transfer(t)
  /\ Over(t)
  /\ UNCHANGED <<service, table, desc, reactor, hdl, handed, stolen>>

TransferEnds(t) ==
  /\ Transfer(t)
  /\ IF req[t].back THEN Goto(t, "back") /\ UNCHANGED <<req, saved>> ELSE Over(t)
  /\ UNCHANGED <<service, table, desc, reactor, hdl, handed, stolen>>

\* read( ), write( ) or a later lseek throws: nothing is set back.
TransferFails(t) ==
  /\ AtData(t) \/ (pc[t] \in {"place", "back"} /\ ~CanSeek(hdl[t]))
  /\ Knows(hdl[t], NoPos)
  /\ pos' = IF AtData(t) /\ hdl[t] \in Devices THEN Moved(hdl[t], 0) ELSE pos
  /\ Over(t)
  /\ UNCHANGED <<service, table, desc, reactor, hdl, handed, stolen>>

SetBack(t) ==
  /\ pc[t] = "back"
  /\ LSeek(hdl[t], saved[t])
  /\ Over(t)
  /\ UNCHANGED <<service, table, desc, reactor, hdl, cursor, handed, stolen>>

(***************************************************************************)
(* register_for_events, unregister: add_fd and del_fd wait for the         *)
(* reactor's running handler.  An entry of the reactor owns its number: an *)
(* add_fd that fails and a del_fd that finds an entry close it, and the    *)
(* file goes on naming it.                                                 *)
(***************************************************************************)
Handed(t) == handed' = handed \cup {fdOf[hdl[t]]}
PollAccepts(d) == d \in Pollable \cup {Other}

AddFd(t) ==
  LET n == fdOf[hdl[t]] IN
  /\ pc[t] = "begin" /\ req[t].op = "register"
  /\ reg[n] = NoHandle => PollAccepts(desc[n])
  /\ Reactor!Register(n, hdl[t])
  /\ Handed(t)
  /\ Over(t)
  /\ UNCHANGED <<service, table, kernel, hdl, cursor, stolen>>

AddFdFails(t) ==
  LET n == fdOf[hdl[t]] IN
  /\ pc[t] = "begin" /\ req[t].op = "register"
  /\ firing = NotFiring /\ reg[n] = NoHandle
  /\ CloseFor(n, hdl[t])
  /\ Handed(t)
  /\ Over(t)
  /\ UNCHANGED <<service, table, reactor, hdl, cursor>>

DelFd(h) ==
  LET n == fdOf[h] IN
  /\ Reactor!Unregister(n)
  /\ IF reg[n] # NoHandle THEN CloseFor(n, h) ELSE Untouched

Unregister(t) ==
  /\ pc[t] = "begin" /\ req[t].op = "unregister"
  /\ DelFd(hdl[t])
  /\ Over(t)
  /\ UNCHANGED <<service, table, hdl, cursor, handed>>

(***************************************************************************)
(* close holds files_lock_ while it waits for the reactor.                 *)
(***************************************************************************)
CloseBegin(t, h) ==
  /\ life = "up" /\ pc[t] = "idle" /\ lock = NoThread
  /\ h \in files
  /\ h \in Shared \/ \A u \in Threads : hdl[u] # h
  /\ lock' = t
  /\ hdl' = [hdl EXCEPT ![t] = h]
  /\ Goto(t, "closeDel")
  /\ UNCHANGED <<service, files, fdOf, kernel, reactor, req, saved, cursor, handed, stolen>>

CloseDel(t) ==
  /\ pc[t] = "closeDel"
  /\ DelFd(hdl[t])
  /\ Goto(t, "closeErase")
  /\ UNCHANGED <<service, table, hdl, req, saved, cursor, handed>>

CloseErase(t) ==
  /\ pc[t] = "closeErase"
  /\ files' = files \ {hdl[t]}
  /\ lock' = NoThread
  /\ Knows(hdl[t], 0)
  /\ Return(t, files')
  /\ UNCHANGED <<service, fdOf, reactor, req, saved, handed>>

(***************************************************************************)
(* The reactor thread: event_handler.  An event may be one that epoll_wait *)
(* returned before the number was closed.  When the connection is gone the *)
(* handler calls del_fd under the lock that runs it: no step is left.      *)
(***************************************************************************)
Event(n) ==
  /\ Reactor!Fire(n)
  /\ UNCHANGED <<service, table, kernel, call, cursor, handed, stolen>>

\* The handler reads from the number and sends, or sends the error.
Handled ==
  /\ life = "up"
  /\ Reactor!Keep
  /\ LET d == desc[firing[1]] IN
     IF d \in Seekable
       THEN \E p \in pos[d]..MaxPos : pos' = [pos EXCEPT ![d] = p]
       ELSE UNCHANGED pos
  /\ UNCHANGED <<service, table, desc, call, cursor, handed, stolen>>

\* Sending throws: false is answered and the entry goes.
HandlerFails ==
  /\ life = "up"
  /\ Reactor!Drop
  /\ CloseFor(firing[1], firing[2])
  /\ UNCHANGED <<service, table, call, cursor, handed>>

(***************************************************************************)
(* The connection is lost.  The service is destroyed when the last call    *)
(* has returned: destroy_all, then the table with its files.               *)
(***************************************************************************)
Disconnect ==
  /\ life = "up"
  /\ life' = "down"
  /\ UNCHANGED <<todo, table, kernel, reactor, call, cursor, handed, stolen>>

DestroyBegin ==
  /\ life = "down" /\ \A t \in Threads : pc[t] = "idle"
  /\ life' = "destroying" /\ todo' = files
  /\ UNCHANGED <<table, kernel, reactor, call, cursor, handed, stolen>>

DestroyDel(h) ==
  /\ life = "destroying" /\ h \in todo
  /\ DelFd(h)
  /\ todo' = todo \ {h}
  /\ UNCHANGED <<life, table, call, cursor, handed>>

DestroyTable ==
  /\ life = "destroying" /\ todo = {}
  /\ life' = "freeing"
  /\ UNCHANGED <<todo, table, kernel, reactor, call, cursor, handed, stolen>>

DestroyFile(h) ==
  /\ life = "freeing" /\ h \in files
  /\ files' = files \ {h}
  /\ CloseFor(fdOf[h], h)
  /\ UNCHANGED <<service, lock, fdOf, reactor, call, cursor, handed>>

DestroyEnd ==
  /\ life = "freeing" /\ files = {}
  /\ life' = "gone"
  /\ UNCHANGED <<todo, table, kernel, reactor, call, cursor, handed, stolen>>

(***************************************************************************)
(* The rest of the agent: pins, logs, sockets, other clients' files.       *)
(***************************************************************************)
OtherOpens(n) ==
  /\ desc[n] = NoFile
  /\ desc' = [desc EXCEPT ![n] = Other]
  /\ UNCHANGED <<service, table, pos, reactor, call, cursor, handed, stolen>>

OtherCloses(n) ==
  /\ desc[n] = Other
  /\ desc' = [desc EXCEPT ![n] = NoFile]
  /\ UNCHANGED <<service, table, pos, reactor, call, cursor, handed, stolen>>

Requested(t, h) == \/ \E r \in Requests : GetFile(t, h, r)
                   \/ CloseBegin(t, h)
                   \/ \E n \in Fds : Open(t, h, n)

Served(t) ==
  \/ AddFile(t) \/ Tell(t) \/ Seek(t) \/ SeekFails(t)
  \/ SavePosition(t) \/ Place(t) \/ WritePart(t) \/ TransferEnds(t)
  \/ TransferFails(t) \/ SetBack(t)
  \/ AddFd(t) \/ AddFdFails(t) \/ Unregister(t) \/ End(t)
  \/ CloseDel(t) \/ CloseErase(t)

Next ==
  \/ \E t \in Threads : Served(t) \/ \E h \in Handles : Requested(t, h)
  \/ \E n \in Fds : Event(n) \/ OtherOpens(n) \/ OtherCloses(n)
  \/ Handled \/ HandlerFails
  \/ Disconnect \/ DestroyBegin \/ DestroyTable \/ DestroyEnd
  \/ \E h \in Handles : DestroyDel(h) \/ DestroyFile(h)

Spec == Init /\ [][Next]_vars

(***************************************************************************)
(* Properties.                                                             *)
(***************************************************************************)
Steps == {"idle", "opened", "begin", "place", "data", "back", "end", "closeDel", "closeErase"}
Positions == 0..NoPos
Closing(t) == pc[t] \in {"closeDel", "closeErase"}

\* Every variable has its type, files_lock_ is held by the one close that is
\* in progress, and a call holds a file that was opened.
TypeOK ==
  /\ life \in {"up", "down", "destroying", "freeing", "gone"}
  /\ todo \subseteq files /\ files \subseteq Handles
  /\ lock \in Threads \cup {NoThread}
  /\ fdOf \in [Handles -> Fds \cup {NoFd}]
  /\ desc \in [Fds -> Handles \cup {Other, NoFile}]
  /\ pos \in [Handles -> 0..MaxPos]
  /\ reg \in [Fds -> Handles \cup {NoHandle}]
  /\ firing = NotFiring \/ firing \in Fds \X Handles
  /\ pc \in [Threads -> Steps]
  /\ hdl \in [Threads -> Handles \cup {NoHandle}]
  /\ req \in [Threads -> Requests]
  /\ saved \in [Threads -> 0..MaxPos]
  /\ cursor \in [Handles -> Positions]
  /\ handed \subseteq Fds /\ stolen \subseteq Fds
  /\ \A t \in Threads : /\ lock = t <=> Closing(t)
                        /\ pc[t] = "idle" <=> hdl[t] = NoHandle
                        /\ hdl[t] # NoHandle => fdOf[hdl[t]] # NoFd
  /\ \A h \in files : fdOf[h] # NoFd

\* Only a number that was once passed to the reactor is closed by another
\* than who opened it: as long as no file is watched, each is closed once,
\* whatever calls, closes and a lost connection do at the same time.
ClosedOnce == stolen \subseteq handed

\* No descriptor is left behind: while a number is open for a handle, the
\* handle is in files_ or a call still holds its file.
NoDescriptorLeaks ==
  \A n \in Fds : desc[n] \in Handles =>
                  desc[n] \in files \/ \E t \in Threads : hdl[t] = desc[n]

\* The handlers in the reactor are bound to this service, by a raw pointer:
\* each belongs to a file in files_, under its number, up to the end of the
\* service.  A handle that a register and a close use at once is excepted.
HandlersHaveFiles ==
  \A n \in Fds : reg[n] \in Handles \ Shared =>
                  reg[n] \in files /\ fdOf[reg[n]] = n

\* Together: a number is open for a file that somebody has, is closed by it and
\* by nobody else, and is watched for it only.
DescriptorsOwned == ClosedOnce /\ NoDescriptorLeaks /\ HandlersHaveFiles

\* A handle that one call at a time uses, and that is not watched, is where
\* its client computes it to be: a transfer that sets back leaves no trace,
\* and no other handle moves it.
CursorAgrees ==
  \A h \in files \cap Tracked :
    fdOf[h] \notin handed /\ (\A t \in Threads : hdl[t] # h) /\ cursor[h] # NoPos
      => pos[h] = cursor[h]
=============================================================================
