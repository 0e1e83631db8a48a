------------------------------- MODULE Mounts -------------------------------
(***************************************************************************)
(* The FUSE client (src/fuse-client/application.cpp): the threads that     *)
(* answer the kernel, the handles they share, the connection that the rpc  *)
(* thread makes again when it is lost, and what the agent holds for the    *)
(* mount (src/agent/subsys-fs.cpp).                                        *)
(*                                                                         *)
(* A remote call is a step of its own, and so is what a handler does with  *)
(* its answer, since nothing orders two calls on one file.                 *)
(***************************************************************************)
EXTENDS Integers, FiniteSets

CONSTANTS Threads,      \* threads of the FUSE loop
          Files, Dirs,  \* fh numbers: index_ never gives one again
          Size, Space,  \* bounds: bytes of a file, and those it can grow to
          MaxLen,       \* bound: bytes of one request of the kernel
          MaxSessions   \* bound: connections

ASSUME MountsAssumption ==
    /\ Size \in Nat /\ Space \in Nat /\ MaxLen \in Nat \ {0} /\ MaxSessions \in Nat \ {0}
    /\ Files \cap Dirs = {}

VARIABLES phase,      \* of the application, from init_app to the end of destroy_app
          conn,       \* where the threads that run try_connect are
          armed,      \* retry_timer_
          link, session, \* client_: connected or not, and for the which time
          fs, dressed,   \* fs_: its session (0: null), and whether it was configured
          opened,     \* fh numbers the kernel holds: those of files_ and dirs_
          of,         \* the session each was opened over
          offset,     \* offset_ of the files
          position,   \* the agent's position in them
          left, ended,   \* entries the agent's iterators have left; those whose end_ is set
          agent,      \* files and iterators the agent has open
          closing,    \* those whose close is on its way
          pc, call,   \* the threads
          late,       \* objects the agent opened for a call that was given up, or that threw
          disturbed,  \* files two calls overlapped on, or that a failed call moved in
          unsettled,  \* the mount began without a connection or has lost it
          crashed

vars == <<phase, conn, armed, link, session, fs, dressed, opened, of, offset, position,
          left, ended, agent, closing, pc, call, late, disturbed, unsettled, crashed>>
connection == <<phase, conn, armed, link, session, fs, dressed, unsettled>>
handles    == <<opened, of, agent, closing, late>>
cursors    == <<offset, position, disturbed>>
entries    == <<left, ended>>

Objects == Files \cup Dirs
Runners == {"init", "rpc"}
NoCall  == [op |-> "none", obj |-> "none", fs |-> 0, off |-> 0, len |-> 0,
            cur |-> 0, next |-> 0, at |-> {}, res |-> 0]

TypeOK ==
    /\ phase \in {"init", "serving", "cancelled", "disconnected", "stopped", "gone"}
    /\ conn \in [Runners -> {"idle", "connect", "open", "config"}]
    /\ armed \in BOOLEAN /\ link \in BOOLEAN /\ session \in 0..MaxSessions
    /\ fs \in 0..MaxSessions /\ dressed \in BOOLEAN
    /\ opened \subseteq Objects /\ of \in [Objects -> 0..MaxSessions]
    /\ offset \in [Files -> Nat] /\ position \in [Files -> Nat]
    /\ left \in [Dirs -> 0..1] /\ ended \subseteq Dirs
    /\ agent \subseteq Objects /\ closing \subseteq agent
    /\ pc \in [Threads -> {"idle", "ask", "seek", "seeked", "transfer", "moved",
                           "list", "done"}]
    /\ late \subseteq Objects /\ disturbed \subseteq Files
    /\ unsettled \in BOOLEAN /\ crashed \in BOOLEAN

Init ==
    /\ phase = "init" /\ conn = [p \in Runners |-> IF p = "init" THEN "connect" ELSE "idle"]
    /\ armed = FALSE /\ link = FALSE /\ session = 0 /\ fs = 0 /\ dressed = FALSE
    /\ opened = {} /\ of = [o \in Objects |-> 0]
    /\ offset = [f \in Files |-> 0] /\ position = [f \in Files |-> 0]
    /\ left = [d \in Dirs |-> 0] /\ ended = {} /\ agent = {} /\ closing = {}
    /\ pc = [t \in Threads |-> "idle"] /\ call = [t \in Threads |-> NoCall]
    /\ late = {} /\ disturbed = {} /\ unsettled = FALSE /\ crashed = FALSE

-----------------------------------------------------------------------------
(* The connection                                                          *)

\* a connection that ends takes with it what the agent holds for it
Dropped == agent' = {} /\ closing' = {} /\ UNCHANGED <<opened, of, late>>

\* start_retry, and the return of the thread that failed: FUSE serves then
Retry(p) ==
    /\ armed' = TRUE
    /\ conn' = [conn EXCEPT ![p] = "idle"]
    /\ phase' = IF p = "init" THEN "serving" ELSE phase
    /\ unsettled' = TRUE

TimerFires ==
    /\ armed /\ conn["rpc"] = "idle" /\ phase \notin {"stopped", "gone"}
    /\ armed' = FALSE
    /\ conn' = [conn EXCEPT !["rpc"] = "connect"]
    /\ UNCHANGED <<phase, link, session, fs, dressed, unsettled, handles, cursors, entries,
                   pc, call, crashed>>

\* a connection that is there is replaced; its end may be told later
Connected(p) ==
    /\ conn[p] = "connect" /\ session < MaxSessions /\ phase # "stopped"
    /\ link' = TRUE /\ session' = session + 1
    /\ armed' \in IF link THEN BOOLEAN ELSE {armed}
    /\ conn' = [conn EXCEPT ![p] = "open"]
    /\ Dropped
    /\ UNCHANGED <<phase, fs, dressed, unsettled, cursors, entries, pc, call, crashed>>

\* Mutant: try_connect leaves the next attempt to on_disconnect.
ConnectGivesUp(p) ==
    /\ conn[p] = "connect" /\ conn' = [conn EXCEPT ![p] = "idle"]
    /\ phase' = IF p = "init" THEN "serving" ELSE phase
    /\ unsettled' = TRUE
    /\ UNCHANGED <<armed, link, session, fs, dressed, handles, cursors, entries, pc, call, crashed>>

ConnectFails(p) ==
    /\ conn[p] = "connect" /\ Retry(p)
    /\ UNCHANGED <<link, session, fs, dressed, handles, cursors, entries, pc, call, crashed>>

\* fs_.reset: calls go to the new object, which does not have its callbacks yet,
\* and the one that calls in progress use is deleted
FsMade(p) ==
    /\ conn[p] = "open" /\ link
    /\ fs' = session /\ dressed' = FALSE
    /\ conn' = [conn EXCEPT ![p] = "config"]
    /\ UNCHANGED <<phase, armed, link, session, unsettled, handles, cursors, entries, pc,
                   call, crashed>>

\* the call of fs_impl's constructor throws
FsFails(p) ==
    /\ conn[p] = "open" /\ Retry(p)
    /\ UNCHANGED <<link, session, fs, dressed, handles, cursors, entries, pc, call, crashed>>

FsConfigured(p) ==
    /\ conn[p] = "config"
    /\ dressed' = TRUE
    /\ conn' = [conn EXCEPT ![p] = "idle"]
    /\ phase' = IF p = "init" THEN "serving" ELSE phase
    /\ UNCHANGED <<armed, link, session, fs, unsettled, handles, cursors, entries, pc, call,
                   crashed>>

\* on_disconnect
Lose ==
    /\ link /\ phase # "gone"
    /\ link' = FALSE /\ armed' = TRUE /\ unsettled' = TRUE /\ Dropped
    /\ UNCHANGED <<phase, conn, session, fs, dressed, cursors, entries, pc, call, crashed>>

\* stopall, then the destructor
Destroy ==
    \/ /\ phase = "serving" /\ \A t \in Threads : pc[t] = "idle"
       /\ phase' = "cancelled" /\ armed' = FALSE
       /\ UNCHANGED <<conn, link, unsettled, handles>>
    \/ /\ phase = "cancelled" /\ phase' = "disconnected"
       /\ link' = FALSE /\ armed' = (armed \/ link) /\ Dropped
       /\ UNCHANGED <<conn, unsettled>>
    \/ /\ phase = "disconnected" /\ phase' = "stopped"
       /\ UNCHANGED <<conn, armed, link, unsettled, handles>>
    \/ /\ phase = "stopped" /\ conn["rpc"] = "idle" /\ phase' = "gone"
       /\ opened' = {} /\ link' = FALSE /\ agent' = {} /\ closing' = {}
       /\ UNCHANGED <<conn, armed, unsettled, of, late>>

DestroyStep ==
    Destroy /\ UNCHANGED <<session, fs, dressed, cursors, entries, pc, call, crashed>>

-----------------------------------------------------------------------------
(* Calls                                                                   *)

\* a proxy of an earlier connection throws or reports an error
Reaches(s) == link /\ s = session

Begin(t, at, c) ==
    /\ phase = "serving" /\ pc[t] = "idle"
    /\ pc' = [pc EXCEPT ![t] = at]
    /\ call' = [call EXCEPT ![t] = c]

End(t) ==
    /\ pc' = [pc EXCEPT ![t] = "idle"]
    /\ call' = [call EXCEPT ![t] = NoCall]

\* read and write: what was moved is looked at before the thread goes on
Tell(t, res) ==
    /\ pc' = [pc EXCEPT ![t] = "done"]
    /\ call' = [call EXCEPT ![t].res = res]

Return(t) ==
    /\ pc[t] = "done" /\ End(t)
    /\ UNCHANGED <<connection, handles, cursors, entries, crashed>>

Unused(o) == of[o] = 0 /\ o \notin late /\ \A t \in Threads : call[t].obj # o

\* open and mknod go over a channel of the connection of the day
Open(t, f, op) ==
    /\ Unused(f)
    /\ Begin(t, "ask", [NoCall EXCEPT !.op = op, !.obj = f, !.fs = session])
    /\ UNCHANGED <<connection, handles, cursors, entries, crashed>>

\* getattr, rename, chmod, utime, truncate and opendir look at fs_ before they use
\* it; unlink, rmdir and mkdir do not
Checked == {"path", "opendir"}
ViaFs   == Checked \cup {"make"}

PathCall(t, op, o) ==
    /\ op = "opendir" => Unused(o)
    /\ IF fs # 0
       THEN /\ Begin(t, "ask", [NoCall EXCEPT !.op = op, !.obj = o, !.fs = fs])
            /\ UNCHANGED crashed
       ELSE /\ phase = "serving" /\ pc[t] = "idle" /\ UNCHANGED <<pc, call>>
            /\ crashed' = (op \notin Checked)
    /\ UNCHANGED <<connection, handles, cursors, entries>>

\* the agent opens o and the client keeps it, closes it at once (mknod), or never
\* learns of it: the call was given up, or iter_begin threw with o in its map
Answered(t, o) ==
    /\ of' = [of EXCEPT ![o] = session] /\ agent' = agent \cup {o}
    /\ \E n \in 0..1 :
        /\ left' = [d \in Dirs |-> IF d = o THEN n ELSE left[d]]
        /\ ended' = IF n = 0 THEN ended \cup (Dirs \cap {o}) ELSE ended
    /\ \/ /\ call[t].op # "mknod" /\ opened' = opened \cup {o}
          /\ End(t) /\ UNCHANGED <<closing, late>>
       \/ /\ call[t].op = "mknod" /\ closing' = closing \cup {o}
          /\ End(t) /\ UNCHANGED <<opened, late>>
       \/ /\ late' = late \cup {o} /\ End(t) /\ UNCHANGED <<opened, closing>>

\* The answer.  An error of an fs_ that has no callbacks throws through the FUSE
\* library; an fs_ that was replaced meanwhile is used after its end.
Ask(t) ==
    /\ pc[t] = "ask"
    /\ LET c == call[t]  o == c.obj  viaFs == c.op \in ViaFs IN
        \/ /\ Reaches(c.fs)
           /\ IF c.op \in {"open", "mknod", "opendir"} THEN Answered(t, o)
              ELSE End(t) /\ UNCHANGED <<handles, entries>>
           /\ crashed' \in IF viaFs /\ fs # c.fs THEN BOOLEAN ELSE {crashed}
        \/ /\ End(t) /\ UNCHANGED <<handles, entries>>
           /\ crashed' \in IF viaFs /\ fs # c.fs THEN BOOLEAN
                           ELSE {crashed \/ (viaFs /\ ~dressed)}
    /\ UNCHANGED <<connection, cursors>>

Busy(o) == \E t \in Threads : call[t].obj = o

\* Mutant: release leaves the object in the map.
ReleaseKeeps(o) ==
    /\ phase = "serving" /\ o \in opened /\ ~Busy(o)
    /\ opened' = opened \ {o}
    /\ UNCHANGED <<connection, of, agent, closing, late, cursors, entries, pc, call, crashed>>

\* release and releasedir: the destructor of the proxy sends a close and does not wait
Release(o) ==
    /\ phase = "serving" /\ o \in opened /\ ~Busy(o)
    /\ opened' = opened \ {o}
    /\ closing' = IF Reaches(of[o]) THEN closing \cup {o} ELSE closing
    /\ UNCHANGED <<connection, of, agent, late, cursors, entries, pc, call, crashed>>

\* the agent's close
Closed(o) ==
    /\ o \in closing
    /\ agent' = agent \ {o} /\ closing' = closing \ {o}
    /\ UNCHANGED <<connection, opened, of, late, cursors, entries, pc, call, crashed>>

Flush(t, f) ==
    /\ f \in opened
    /\ Begin(t, "ask", [NoCall EXCEPT !.op = "flush", !.obj = f, !.fs = of[f]])
    /\ UNCHANGED <<connection, handles, cursors, entries, crashed>>

-----------------------------------------------------------------------------
(* read and write: read_write_impl                                         *)

Move(t, f, op, off, len) ==
    /\ f \in opened
    /\ Begin(t, IF offset[f] # off THEN "seek" ELSE "transfer",
             [NoCall EXCEPT !.op = op, !.obj = f, !.fs = of[f], !.off = off, !.len = len])
    /\ disturbed' = IF Busy(f) THEN disturbed \cup {f} ELSE disturbed
    /\ UNCHANGED <<connection, handles, offset, position, entries, crashed>>

\* the agent's seek; a call that is given up has been made all the same
Seek(t) ==
    /\ pc[t] = "seek"
    /\ LET f == call[t].obj IN
        \/ /\ Reaches(of[f])
           /\ position' = [position EXCEPT ![f] = call[t].off]
           /\ \/ pc' = [pc EXCEPT ![t] = "seeked"] /\ UNCHANGED <<call, disturbed>>
              \/ End(t) /\ disturbed' = disturbed \cup {f}
        \/ End(t) /\ UNCHANGED <<position, disturbed>>
    /\ UNCHANGED <<connection, handles, offset, entries, crashed>>

Seeked(t) ==
    /\ pc[t] = "seeked"
    /\ offset' = [offset EXCEPT ![call[t].obj] = call[t].off]
    /\ pc' = [pc EXCEPT ![t] = "transfer"]
    /\ UNCHANGED <<connection, handles, position, disturbed, entries, call, crashed>>

\* what one request can move: a read ends with the file, a write with the disk
Chunks(op, at, want) ==
    IF op = "write" THEN {n \in 1..want : at + n <= Space}
    ELSE IF at >= Size THEN {0} ELSE {n \in 1..want : at + n <= Size}

\* the bytes moved for this call, while the property speaks of the file
Record(f, at, n) ==
    IF f \in disturbed THEN {} ELSE at \cup position[f]..(position[f] + n - 1)

\* Mutant: the loop does not stop at the end of the file.
EndlessRead(t) ==
    /\ pc[t] = "transfer"
    /\ LET c == call[t]  f == c.obj IN
        \/ /\ Reaches(of[f])
           /\ \E n \in Chunks(c.op, position[f], c.len - c.cur) :
                /\ position' = [position EXCEPT ![f] = @ + n]
                /\ call' = [call EXCEPT ![t].next = n,
                            ![t].at = Record(f, @, n)]
                /\ pc' = [pc EXCEPT ![t] = "moved"]
           /\ UNCHANGED disturbed
        \/ End(t) /\ UNCHANGED <<position, disturbed>>
    /\ UNCHANGED <<connection, handles, offset, entries, crashed>>

\* One request: the agent moves what it can at its own position.  One that fails may
\* have moved that part all the same, and offset_ does not follow: its answer was given
\* up, or the agent's loop of writes threw after the first of them.
Transfer(t) ==
    /\ pc[t] = "transfer"
    /\ LET c == call[t]  f == c.obj IN
        \/ /\ Reaches(of[f])
           /\ \E n \in Chunks(c.op, position[f], c.len - c.cur) :
                /\ position' = [position EXCEPT ![f] = @ + n]
                /\ \/ /\ n > 0
                      /\ call' = [call EXCEPT ![t].next = n,
                                  ![t].at = Record(f, @, n)]
                      /\ pc' = [pc EXCEPT ![t] = "moved"] /\ UNCHANGED disturbed
                   \/ n = 0 /\ Tell(t, c.cur) /\ UNCHANGED disturbed
                   \/ /\ End(t)
                      /\ disturbed' = IF n > 0 THEN disturbed \cup {f} ELSE disturbed
        \/ End(t) /\ UNCHANGED <<position, disturbed>>
    /\ UNCHANGED <<connection, handles, offset, entries, crashed>>

\* Mutant: offset_ is set when the whole request is done.
OffsetAtEnd(t) ==
    /\ pc[t] = "moved"
    /\ LET c == call[t]  cur == c.cur + c.next IN
        /\ offset' = [offset EXCEPT ![c.obj] = IF cur = c.len THEN @ + cur ELSE @]
        /\ pc' = [pc EXCEPT ![t] = IF cur = c.len THEN "done" ELSE "transfer"]
        /\ call' = [call EXCEPT ![t].cur = cur, ![t].next = 0, ![t].res = cur]
    /\ UNCHANGED <<connection, handles, position, disturbed, entries, crashed>>

Moved(t) ==
    /\ pc[t] = "moved"
    /\ LET c == call[t]  cur == c.cur + c.next IN
        /\ offset' = [offset EXCEPT ![c.obj] = @ + c.next]
        /\ pc' = [pc EXCEPT ![t] = IF cur = c.len THEN "done" ELSE "transfer"]
        /\ call' = [call EXCEPT ![t].cur = cur, ![t].next = 0, ![t].res = cur]
    /\ UNCHANGED <<connection, handles, position, disturbed, entries, crashed>>

-----------------------------------------------------------------------------
(* readdir                                                                 *)

Readdir(t, d) ==
    /\ d \in opened
    /\ Begin(t, "list", [NoCall EXCEPT !.op = "readdir", !.obj = d, !.fs = of[d]])
    /\ UNCHANGED <<connection, handles, cursors, entries, crashed>>

\* The iterator is asked for the next entry until end_ is set.  An error is forgotten
\* in the next round and leaves end_ as it is, also when the agent's iterator has moved
\* (the answer was given up) or is at its end (++iter threw); there it answers ENODATA.
List(t) ==
    /\ pc[t] = "list"
    /\ LET d == call[t].obj IN
        \/ d \in ended /\ End(t) /\ UNCHANGED entries
        \/ /\ d \notin ended /\ left[d] > 0 /\ Reaches(of[d])
           /\ left' = [left EXCEPT ![d] = @ - 1]
           /\ ended' \in {ended, IF left[d] = 1 THEN ended \cup {d} ELSE ended}
           /\ UNCHANGED <<pc, call>>
    /\ UNCHANGED <<connection, handles, cursors, crashed>>

ListIsFull(t) ==
    /\ pc[t] = "list" /\ call[t].obj \notin ended
    /\ End(t)
    /\ UNCHANGED <<connection, handles, cursors, entries, crashed>>

-----------------------------------------------------------------------------

Serve(t) == Return(t) \/ Ask(t) \/ Seek(t) \/ Seeked(t) \/ Transfer(t) \/ Moved(t) \/ List(t)

Kernel ==
    \/ \E o \in Objects : Release(o) \/ Closed(o)
    \/ \E t \in Threads :
        \/ \E f \in Files :
            \/ \E op \in {"open", "mknod"} : Open(t, f, op)
            \/ Flush(t, f)
            \/ \E op \in {"read", "write"}, off \in 0..Size, len \in 1..MaxLen :
                    Move(t, f, op, off, len)
        \/ \E d \in Dirs : PathCall(t, "opendir", d) \/ Readdir(t, d)
        \/ PathCall(t, "path", "none") \/ PathCall(t, "make", "none")
        \/ ListIsFull(t)

Connect(p) == Connected(p) \/ ConnectFails(p) \/ FsMade(p) \/ FsFails(p) \/ FsConfigured(p)

Next ==
    /\ ~crashed
    /\ \/ Kernel \/ \E t \in Threads : Serve(t)
       \/ \E p \in Runners : Connect(p)
       \/ TimerFires \/ Lose \/ DestroyStep

\* The kernel calls as it likes; a call that began goes on.  The timer fires, and
\* connecting succeeds when it is tried again and again.
Fairness ==
    /\ \A t \in Threads : WF_vars(~crashed /\ Serve(t))
    /\ WF_vars(~crashed /\ TimerFires)
    /\ \A p \in Runners : /\ WF_vars(~crashed /\ Connect(p))
                          /\ SF_vars(~crashed /\ Connected(p))
                          /\ SF_vars(~crashed /\ FsMade(p))

Spec == Init /\ [][Next]_vars /\ Fairness

-----------------------------------------------------------------------------
(* Properties                                                              *)

\* A read or write that tells the kernel n bytes has moved exactly the n bytes from
\* the offset it was asked for: offset_ and the agent's position have not drifted
\* apart, over seeks, short answers and calls that failed before they moved anything.
\* The code does not keep it, and it is not claimed, for a file on which two calls
\* overlapped or a call failed after the agent had moved in it: a seek or a transfer
\* that was given up, a write that threw after a part.
MovedWhereAsked ==
    \A t \in Threads : LET c == call[t] IN
        (pc[t] = "done" /\ c.obj \notin disturbed)
            => c.at = c.off..(c.off + c.res - 1)

\* While a connection lasts the agent has open what the kernel holds over it, and
\* nothing else but what it is about to close and what it opened for a call that
\* was given up or that threw after that.
MountAgrees ==
    /\ agent \subseteq opened \cup closing \cup late
    /\ {o \in opened : Reaches(of[o])} \subseteq agent \ closing

\* A mount that got its first connection at once and never lost it does not use an
\* fs_ that is null, replaced or without its callbacks.
SettledMountLives == ~unsettled => ~crashed

\* Both: what the kernel was given stands for something that is there.
MountSafe == MountAgrees /\ SettledMountLives

\* A mount that has lost its connection comes to use a new one, unless it ends.
MountComesBack ==
    []<>(crashed \/ phase # "serving" \/ session = MaxSessions \/ (Reaches(fs) /\ dressed))

\* a readdir that has lost its connection, or missed the answer that told of the end
GoesRound(t) ==
    /\ pc[t] = "list"
    /\ LET d == call[t].obj IN
        \/ ~Reaches(of[d])
        \/ left[d] = 0 /\ d \notin ended

\* Every call of the kernel returns, but for a readdir that goes round: that one ends when
\* the kernel's buffer is full.
CallsReturn ==
    \A t \in Threads : pc[t] # "idle" ~> (pc[t] = "idle" \/ crashed \/ GoesRound(t))

=============================================================================
