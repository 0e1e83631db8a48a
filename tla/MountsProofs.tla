---------------------------- MODULE MountsProofs ----------------------------
(***************************************************************************)
(* Theorems about Mounts, for any number of kernel threads, files,         *)
(* directories and connections.  The inductive invariant is IInv: the      *)
(* types, where the connection's threads are in each phase (Phases), what  *)
(* a mount that never lost its connection has (Settled), over which        *)
(* connection the agent has an object open (Held), that a call which opens *)
(* has an object of its own (Opening), and how far offset_ and the agent's *)
(* position are apart at each point of a transfer (Aligned, AtRest).       *)
(***************************************************************************)
EXTENDS Mounts, TLAPS

CallRecord ==
    [op : {"none", "open", "mknod", "path", "opendir", "make", "flush", "read", "write", "readdir"},
     obj : Objects \cup {"none"}, fs : 0..MaxSessions, off : Nat, len : Nat,
     cur : Nat, next : Nat, at : SUBSET Int, res : Nat]
Transferring == {"seek", "seeked", "transfer", "moved", "done"}

\* Who calls has an object of the kind its call is for.
Typed ==
    /\ call \in [Threads -> CallRecord]
    /\ \A t \in Threads :
        /\ pc[t] \in Transferring => call[t].obj \in Files
        /\ pc[t] = "list" => call[t].obj \in Dirs

\* The kernel calls while the application serves, and init_app runs before that.
Phases ==
    /\ conn["init"] # "idle" <=> phase = "init"
    /\ phase # "serving" => \A t \in Threads : pc[t] = "idle"
    /\ link => session # 0

\* fs_ is the one that the first connection made.
Settled ==
    ~unsettled =>
        /\ ~crashed
        /\ phase \in {"init", "serving"} => conn["rpc"] = "idle" /\ ~armed
        /\ conn["init"] = "connect" => ~link
        /\ conn["init"] = "config" => fs # 0
        /\ phase = "serving" =>
            /\ fs # 0 /\ dressed
            /\ \A t \in Threads : pc[t] = "ask" /\ call[t].op \in ViaFs => call[t].fs = fs

\* The agent's objects are of the connection of the day, and no later one is known.
Held ==
    /\ \A o \in Objects : of[o] <= session
    /\ \A o \in agent : link /\ of[o] = session
    /\ \A o \in opened : of[o] # 0

\* The object that a call opens is not open, and no other call opens it.
Opens(t) == pc[t] = "ask" /\ call[t].op \in {"open", "mknod", "opendir"}
Opening ==
    \A t \in Threads : Opens(t) =>
        /\ call[t].obj \in Objects /\ of[call[t].obj] = 0
        /\ \A u \in Threads : Opens(u) /\ call[u].obj = call[t].obj => u = t

\* Who reads or writes a file that nothing has disturbed is alone on it, and knows
\* where the agent's position and offset_ are.
Moves(t, f) == pc[t] \in Transferring /\ call[t].obj = f
Fits(t, f) ==
    /\ pc[t] = "seek" => offset[f] = position[f] /\ call[t].cur = 0 /\ call[t].at = {}
    /\ pc[t] = "seeked" => position[f] = call[t].off /\ call[t].cur = 0 /\ call[t].at = {}
    /\ pc[t] = "transfer" => /\ offset[f] = position[f]
                             /\ position[f] = call[t].off + call[t].cur
                             /\ call[t].at = call[t].off..(position[f] - 1)
    /\ pc[t] = "moved" => /\ offset[f] = call[t].off + call[t].cur
                          /\ position[f] = call[t].off + call[t].cur + call[t].next
                          /\ call[t].at = call[t].off..(position[f] - 1)
    /\ pc[t] = "done" => /\ offset[f] = position[f]
                         /\ call[t].at = call[t].off..(call[t].off + call[t].res - 1)
Aligned ==
    \A t \in Threads : \A f \in Files \ disturbed : Moves(t, f) =>
        /\ \A u \in Threads : Moves(u, f) => u = t
        /\ Fits(t, f)
AtRest ==
    \A f \in Files \ disturbed : (\A t \in Threads : ~Moves(t, f)) => offset[f] = position[f]

IInv ==
    /\ TypeOK /\ Typed /\ Phases /\ Settled /\ Held /\ Opening /\ MountAgrees
    /\ Aligned /\ AtRest

USE DEF entries

Places == {"idle", "ask", "seek", "seeked", "transfer", "moved", "list", "done"}
-----------------------------------------------------------------------------
(* What a step leaves alone                                                *)

LEMMA CursorsKept ==
    ASSUME IInv, UNCHANGED cursors,
           \A t \in Threads : pc'[t] \in Transferring => pc'[t] = pc[t] /\ call'[t] = call[t],
           \A t \in Threads : pc[t] \in Transferring /\ pc'[t] \notin Transferring
                                => pc[t] \in {"seek", "transfer", "done"}
    PROVE  Aligned' /\ AtRest'
<1>1. UNCHANGED <<offset, position, disturbed>>
  BY DEF cursors
<1>2. \A t \in Threads, f \in Files : Moves(t, f)' => Moves(t, f)
  BY DEF Moves
<1>3. \A t \in Threads, f \in Files : Moves(t, f)' /\ Fits(t, f) => Fits(t, f)'
  BY <1>1 DEF Moves, Fits
<1>4. Aligned'
  BY <1>1, <1>2, <1>3 DEF IInv, Aligned
<1>5. ASSUME NEW f \in Files \ disturbed', \A t \in Threads : ~Moves(t, f)'
      PROVE  offset[f] = position[f]
  <2>1. CASE \A t \in Threads : ~Moves(t, f)
    BY <1>1, <2>1 DEF IInv, AtRest
  <2>2. ASSUME NEW t \in Threads, Moves(t, f) PROVE offset[f] = position[f]
    <3>1. Fits(t, f)
      BY <1>1, <2>2 DEF IInv, Aligned
    <3>2. pc[t] \in {"seek", "transfer", "done"}
      BY <1>5, <2>2 DEF Moves
    <3> QED
      BY <3>1, <3>2 DEF Fits
  <2> QED
    BY <2>1, <2>2
<1> QED
  BY <1>1, <1>4, <1>5 DEF AtRest

\* One thread goes on with its transfer; no other file moves.
LEMMA OneMoves ==
    ASSUME IInv, NEW t \in Threads, NEW f \in Files, Moves(t, f),
           \A u \in Threads : u # t => pc'[u] = pc[u] /\ call'[u] = call[u],
           \A g \in Files : g # f => offset'[g] = offset[g] /\ position'[g] = position[g],
           disturbed \subseteq disturbed', disturbed' \subseteq disturbed \cup {f},
           \A g \in Files : Moves(t, g)' => g = f,
           f \notin disturbed' => Fits(t, f)',
           f \notin disturbed' /\ ~Moves(t, f)' => offset'[f] = position'[f]
    PROVE  Aligned' /\ AtRest'
<1>1. \A u \in Threads, g \in Files : u # t => (Moves(u, g)' <=> Moves(u, g))
  BY DEF Moves
<1>2. ASSUME NEW u \in Threads, NEW g \in Files, g \notin disturbed', Moves(u, g)'
      PROVE  (\A v \in Threads : Moves(v, g)' => v = u) /\ Fits(u, g)'
  <2>1. CASE g = f
    <3>1. u = t
      BY <1>1, <1>2, <2>1 DEF IInv, Aligned
    <3>2. \A v \in Threads : Moves(v, g)' => v = t
      BY <1>1, <1>2, <2>1 DEF IInv, Aligned
    <3> QED
      BY <1>2, <2>1, <3>1, <3>2
  <2>2. CASE g # f
    <3>1. u # t /\ \A v \in Threads : Moves(v, g)' => v # t
      BY <1>2, <2>2
    <3>2. Fits(u, g) /\ \A v \in Threads : Moves(v, g) => v = u
      BY <1>1, <1>2, <3>1 DEF IInv, Aligned
    <3>3. Fits(u, g)'
      BY <2>2, <3>1, <3>2 DEF Fits
    <3> QED
      BY <1>1, <3>1, <3>2, <3>3
  <2> QED
    BY <2>1, <2>2
<1>3. ASSUME NEW g \in Files, g \notin disturbed', \A u \in Threads : ~Moves(u, g)'
      PROVE  offset'[g] = position'[g]
  <2>1. CASE g = f
    BY <1>3, <2>1
  <2>2. CASE g # f
    <3>1. \A u \in Threads : ~Moves(u, g)
      BY <1>1, <1>3, <2>2 DEF Moves
    <3> QED
      BY <1>3, <2>2, <3>1 DEF IInv, AtRest
  <2> QED
    BY <2>1, <2>2
<1> QED
  BY <1>2, <1>3 DEF Aligned, AtRest

\* A thread begins a call or goes on with it, and the connection and the handles stay.
LEMMA ThreadStep ==
    ASSUME IInv, NEW t \in Threads, phase = "serving",
           UNCHANGED <<connection, handles>>,
           crashed' = crashed \/ (unsettled /\ crashed' \in BOOLEAN),
           \A u \in Threads : u # t => pc'[u] = pc[u] /\ call'[u] = call[u],
           pc'[t] = "ask" /\ call'[t].op \in ViaFs => call'[t].fs = fs,
           Opens(t)' => /\ call'[t].obj \in Objects /\ of[call'[t].obj] = 0
                        /\ \A u \in Threads : call[u].obj # call'[t].obj
    PROVE  Phases' /\ Settled' /\ Held' /\ Opening' /\ MountAgrees'
<1> USE DEF connection, handles
<1>1. Phases'
  BY DEF IInv, Phases
<1>2. Settled'
  BY DEF IInv, Settled
<1>3. Held' /\ MountAgrees'
  BY DEF IInv, Held, MountAgrees, Reaches
<1>4. \A u \in Threads : u # t => (Opens(u)' <=> Opens(u))
  BY DEF Opens
<1>5. Opening'
  BY <1>4 DEF IInv, Opening
<1> QED
  BY <1>1, <1>2, <1>3, <1>5

\* What the connection's threads do leaves the calls and the files alone.
LEMMA CallsStay ==
    ASSUME IInv, UNCHANGED <<cursors, entries, pc, call>>
    PROVE  Typed' /\ Aligned' /\ AtRest'
BY DEF cursors, IInv, Typed, Aligned, AtRest, Moves, Fits, Transferring

-----------------------------------------------------------------------------
(* The connection                                                          *)

LEMMA TimerFiresPreserves == ASSUME IInv, TimerFires PROVE IInv'
<1> USE MountsAssumption DEF TimerFires, Runners, connection, handles, cursors
<1>1. TypeOK'
  BY DEF IInv, TypeOK
<1>2. Phases'
  BY DEF IInv, TypeOK, Phases
<1>3. Settled'
  BY DEF IInv, TypeOK, Phases, Settled
<1>4. Held'
  BY DEF IInv, TypeOK, Held
<1>5. Opening'
  BY DEF IInv, Opening, Opens
<1>6. MountAgrees'
  BY DEF IInv, TypeOK, Held, MountAgrees, Reaches
<1>7. Typed' /\ Aligned' /\ AtRest'
  BY CallsStay
<1> QED
  BY <1>1, <1>2, <1>3, <1>4, <1>5, <1>6, <1>7 DEF IInv

\* No handle is of the connection that comes up.
LEMMA ConnectedPreserves == ASSUME IInv, NEW p \in Runners, Connected(p) PROVE IInv'
<1> USE MountsAssumption DEF Connected, Dropped, Runners, connection, handles, cursors
<1>1. TypeOK'
  BY DEF IInv, TypeOK
<1>2. Phases'
  BY DEF IInv, TypeOK, Phases
<1>3. Settled'
  BY DEF IInv, TypeOK, Phases, Settled
<1>4. Held'
  BY DEF IInv, TypeOK, Held
<1>5. Opening'
  BY DEF IInv, Opening, Opens
<1>6. MountAgrees'
  BY DEF IInv, TypeOK, Held, MountAgrees, Reaches
<1>7. Typed' /\ Aligned' /\ AtRest'
  BY CallsStay
<1> QED
  BY <1>1, <1>2, <1>3, <1>4, <1>5, <1>6, <1>7 DEF IInv

LEMMA ConnectFailsPreserves ==
    ASSUME IInv, NEW p \in Runners, ConnectFails(p) \/ FsFails(p)
    PROVE  IInv'
<1> USE MountsAssumption DEF ConnectFails, FsFails, Retry, Runners, connection, handles, cursors
<1>1. TypeOK'
  BY DEF IInv, TypeOK
<1>2. Phases'
  BY DEF IInv, TypeOK, Phases
<1>3. Settled'
  BY DEF IInv, TypeOK, Phases, Settled
<1>4. Held'
  BY DEF IInv, TypeOK, Held
<1>5. Opening'
  BY DEF IInv, Opening, Opens
<1>6. MountAgrees'
  BY DEF IInv, TypeOK, Held, MountAgrees, Reaches
<1>7. Typed' /\ Aligned' /\ AtRest'
  BY CallsStay
<1> QED
  BY <1>1, <1>2, <1>3, <1>4, <1>5, <1>6, <1>7 DEF IInv

\* A mount that is settled and serves replaces no fs_.
LEMMA FsMadePreserves == ASSUME IInv, NEW p \in Runners, FsMade(p) PROVE IInv'
<1> USE MountsAssumption DEF FsMade, Runners, connection, handles, cursors
<1>1. TypeOK'
  BY DEF IInv, TypeOK
<1>2. Phases'
  BY DEF IInv, TypeOK, Phases
<1>3. Settled'
  BY DEF IInv, TypeOK, Phases, Settled
<1>4. Held'
  BY DEF IInv, TypeOK, Held
<1>5. Opening'
  BY DEF IInv, Opening, Opens
<1>6. MountAgrees'
  BY DEF IInv, TypeOK, Held, MountAgrees, Reaches
<1>7. Typed' /\ Aligned' /\ AtRest'
  BY CallsStay
<1> QED
  BY <1>1, <1>2, <1>3, <1>4, <1>5, <1>6, <1>7 DEF IInv

LEMMA FsConfiguredPreserves == ASSUME IInv, NEW p \in Runners, FsConfigured(p) PROVE IInv'
<1> USE MountsAssumption DEF FsConfigured, Runners, connection, handles, cursors
<1>1. TypeOK'
  BY DEF IInv, TypeOK
<1>2. Phases'
  BY DEF IInv, TypeOK, Phases
<1>3. Settled'
  BY DEF IInv, TypeOK, Phases, Settled
<1>4. Held'
  BY DEF IInv, TypeOK, Held
<1>5. Opening'
  BY DEF IInv, Opening, Opens
<1>6. MountAgrees'
  BY DEF IInv, TypeOK, Held, MountAgrees, Reaches
<1>7. Typed' /\ Aligned' /\ AtRest'
  BY CallsStay
<1> QED
  BY <1>1, <1>2, <1>3, <1>4, <1>5, <1>6, <1>7 DEF IInv

LEMMA LosePreserves == ASSUME IInv, Lose PROVE IInv'
<1> USE MountsAssumption DEF Lose, Dropped, connection, handles, cursors
<1>1. TypeOK'
  BY DEF IInv, TypeOK
<1>2. Phases'
  BY DEF IInv, TypeOK, Phases
<1>3. Settled'
  BY DEF IInv, TypeOK, Phases, Settled
<1>4. Held'
  BY DEF IInv, TypeOK, Held
<1>5. Opening'
  BY DEF IInv, Opening, Opens
<1>6. MountAgrees'
  BY DEF IInv, TypeOK, Held, MountAgrees, Reaches
<1>7. Typed' /\ Aligned' /\ AtRest'
  BY CallsStay
<1> QED
  BY <1>1, <1>2, <1>3, <1>4, <1>5, <1>6, <1>7 DEF IInv

LEMMA DestroyPreserves == ASSUME IInv, DestroyStep PROVE IInv'
<1> USE MountsAssumption DEF DestroyStep, Destroy, Dropped, connection, handles, cursors
<1>1. TypeOK'
  BY DEF IInv, TypeOK
<1>2. Phases'
  BY DEF IInv, TypeOK, Phases
<1>3. Settled'
  BY DEF IInv, TypeOK, Phases, Settled
<1>4. Held'
  BY DEF IInv, TypeOK, Held
<1>5. Opening'
  BY DEF IInv, Opening, Opens
<1>6. MountAgrees'
  BY DEF IInv, TypeOK, Held, MountAgrees, Reaches
<1>7. Typed' /\ Aligned' /\ AtRest'
  BY CallsStay
<1> QED
  BY <1>1, <1>2, <1>3, <1>4, <1>5, <1>6, <1>7 DEF IInv

-----------------------------------------------------------------------------
(* Calls begin and end                                                     *)

LEMMA Begun ==
    ASSUME IInv, NEW t \in Threads, NEW at \in Places, NEW c \in CallRecord, Begin(t, at, c)
    PROVE  /\ phase = "serving" /\ pc[t] = "idle"
           /\ pc' \in [Threads -> Places] /\ call' \in [Threads -> CallRecord]
           /\ pc'[t] = at /\ call'[t] = c
           /\ \A u \in Threads : u # t => pc'[u] = pc[u] /\ call'[u] = call[u]
BY DEF Begin, IInv, TypeOK, Typed, Places

LEMMA NoCallTyped == NoCall \in CallRecord
BY MountsAssumption DEF NoCall, CallRecord

LEMMA Ended ==
    ASSUME IInv, NEW t \in Threads, End(t)
    PROVE  /\ pc' \in [Threads -> Places] /\ call' \in [Threads -> CallRecord]
           /\ pc'[t] = "idle" /\ call'[t] = NoCall
           /\ \A u \in Threads : u # t => pc'[u] = pc[u] /\ call'[u] = call[u]
BY NoCallTyped DEF End, IInv, TypeOK, Typed, Places

LEMMA Serving ==
    ASSUME IInv, NEW t \in Threads, pc[t] # "idle"
    PROVE  phase = "serving"
BY DEF IInv, Phases

\* A call that moves no bytes begins.
LEMMA BeginPreserves ==
    ASSUME IInv, NEW t \in Threads, NEW at \in {"ask", "list"}, NEW c \in CallRecord,
           Begin(t, at, c), UNCHANGED <<connection, handles, cursors, entries, crashed>>,
           at = "list" => c.obj \in Dirs,
           at = "ask" /\ c.op \in ViaFs => c.fs = fs,
           at = "ask" /\ c.op \in {"open", "mknod", "opendir"} => c.obj \in Objects /\ Unused(c.obj)
    PROVE  IInv'
<1>1. /\ phase = "serving" /\ pc[t] = "idle"
      /\ pc' \in [Threads -> Places] /\ call' \in [Threads -> CallRecord]
      /\ pc'[t] = at /\ call'[t] = c
      /\ \A u \in Threads : u # t => pc'[u] = pc[u] /\ call'[u] = call[u]
  BY Begun DEF Places
<1>2. TypeOK'
  BY <1>1 DEF IInv, TypeOK, Places, connection, handles, cursors
<1>3. Typed'
  BY <1>1 DEF IInv, Typed, Transferring
<1>4. Aligned' /\ AtRest'
  BY <1>1, CursorsKept DEF Transferring
<1>5. Opens(t)' => /\ call'[t].obj \in Objects /\ of[call'[t].obj] = 0
                   /\ \A u \in Threads : call[u].obj # call'[t].obj
  BY <1>1 DEF Opens, Unused
<1>6. Phases' /\ Settled' /\ Held' /\ Opening' /\ MountAgrees'
  BY <1>1, <1>5, ThreadStep
<1> QED
  BY <1>2, <1>3, <1>4, <1>6 DEF IInv

LEMMA OpenPreserves ==
    ASSUME IInv, NEW t \in Threads, NEW f \in Files, NEW op \in {"open", "mknod"}, Open(t, f, op)
    PROVE  IInv'
<1> DEFINE c == [NoCall EXCEPT !.op = op, !.obj = f, !.fs = session]
<1>1. c \in CallRecord /\ c.op = op /\ c.obj = f
  BY NoCallTyped DEF IInv, TypeOK, CallRecord, Objects
<1>2. Unused(f) /\ Begin(t, "ask", c) /\ UNCHANGED <<connection, handles, cursors, entries, crashed>>
  BY DEF Open
<1> HIDE DEF c
<1> QED
  BY <1>1, <1>2, BeginPreserves DEF ViaFs, Checked, Objects

LEMMA PathCallPreserves ==
    ASSUME IInv, NEW t \in Threads, NEW op \in {"path", "make", "opendir"}, NEW o,
           o \in Objects \cup {"none"}, op = "opendir" => o \in Dirs, PathCall(t, op, o)
    PROVE  IInv'
<1>1. CASE fs # 0
  <2> DEFINE c == [NoCall EXCEPT !.op = op, !.obj = o, !.fs = fs]
  <2>1. c \in CallRecord /\ c.op = op /\ c.obj = o /\ c.fs = fs
    BY NoCallTyped DEF IInv, TypeOK, CallRecord
  <2>2. /\ op = "opendir" => Unused(o)
        /\ Begin(t, "ask", c) /\ UNCHANGED <<connection, handles, cursors, entries, crashed>>
    BY <1>1 DEF PathCall
  <2> HIDE DEF c
  <2> QED
    BY <2>1, <2>2, BeginPreserves DEF Objects
<1>2. CASE fs = 0
  <2>1. /\ phase = "serving" /\ crashed' \in BOOLEAN
        /\ UNCHANGED <<connection, handles, cursors, entries, pc, call>>
    BY <1>2 DEF PathCall, Checked
  <2>2. unsettled
    BY <1>2, <2>1 DEF IInv, Settled
  <2>3. TypeOK'
    BY <2>1 DEF IInv, TypeOK, connection, handles, cursors
  <2>4. Phases' /\ Settled' /\ Held' /\ Opening' /\ MountAgrees'
    BY <2>1, <2>2 DEF IInv, Phases, Settled, Held, Opening, Opens, MountAgrees, Reaches,
                      connection, handles
  <2> QED
    BY <2>1, <2>3, <2>4, CallsStay DEF IInv
<1> QED
  BY <1>1, <1>2

LEMMA FlushPreserves ==
    ASSUME IInv, NEW t \in Threads, NEW f \in Files, Flush(t, f)
    PROVE  IInv'
<1> DEFINE c == [NoCall EXCEPT !.op = "flush", !.obj = f, !.fs = of[f]]
<1>1. c \in CallRecord /\ c.op = "flush"
  BY NoCallTyped DEF IInv, TypeOK, CallRecord, Objects
<1>2. Begin(t, "ask", c) /\ UNCHANGED <<connection, handles, cursors, entries, crashed>>
  BY DEF Flush
<1> HIDE DEF c
<1> QED
  BY <1>1, <1>2, BeginPreserves DEF ViaFs, Checked

LEMMA ReaddirPreserves ==
    ASSUME IInv, NEW t \in Threads, NEW d \in Dirs, Readdir(t, d)
    PROVE  IInv'
<1> DEFINE c == [NoCall EXCEPT !.op = "readdir", !.obj = d, !.fs = of[d]]
<1>1. c \in CallRecord /\ c.obj = d
  BY NoCallTyped DEF IInv, TypeOK, CallRecord, Objects
<1>2. Begin(t, "list", c) /\ UNCHANGED <<connection, handles, cursors, entries, crashed>>
  BY DEF Readdir
<1> HIDE DEF c
<1> QED
  BY <1>1, <1>2, BeginPreserves

\* A call that is answered, or whose transfer is over, ends.
LEMMA EndPreserves ==
    ASSUME IInv, NEW t \in Threads, pc[t] \in {"ask", "list", "seek", "transfer", "done"}, End(t),
           UNCHANGED <<connection, handles, cursors, entries>>,
           crashed' = crashed \/ (unsettled /\ crashed' \in BOOLEAN)
    PROVE  IInv'
<1>1. /\ pc' \in [Threads -> Places] /\ call' \in [Threads -> CallRecord]
      /\ pc'[t] = "idle" /\ call'[t] = NoCall
      /\ \A u \in Threads : u # t => pc'[u] = pc[u] /\ call'[u] = call[u]
  BY Ended
<1>2. TypeOK'
  BY <1>1 DEF IInv, TypeOK, Places, connection, handles, cursors
<1>3. Typed'
  BY <1>1 DEF IInv, Typed, Transferring
<1>4. Aligned' /\ AtRest'
  BY <1>1, CursorsKept DEF Transferring
<1>5. Phases' /\ Settled' /\ Held' /\ Opening' /\ MountAgrees'
  BY <1>1, Serving, ThreadStep DEF Opens
<1> QED
  BY <1>2, <1>3, <1>4, <1>5 DEF IInv

-----------------------------------------------------------------------------
(* Answers, and the agent's close                                          *)

\* The answer of a call that opens: the agent has a new object, which the client keeps,
\* closes at once, or has given up.
LEMMA AnsweredPreserves ==
    ASSUME IInv, NEW t \in Threads, Opens(t), Reaches(call[t].fs), Answered(t, call[t].obj),
           UNCHANGED <<connection, cursors>>,
           crashed' = crashed \/ (unsettled /\ crashed' \in BOOLEAN)
    PROVE  IInv'
<1> PICK o \in Objects : o = call[t].obj
  BY DEF IInv, Opening
<1>1. /\ pc' \in [Threads -> Places] /\ call' \in [Threads -> CallRecord]
      /\ pc'[t] = "idle" /\ call'[t] = NoCall
      /\ \A u \in Threads : u # t => pc'[u] = pc[u] /\ call'[u] = call[u]
  BY Ended DEF Answered
<1>2. /\ of' = [of EXCEPT ![o] = session] /\ agent' = agent \cup {o}
      /\ of'[o] = session /\ \A x \in Objects : x # o => of'[x] = of[x]
      /\ of' \in [Objects -> 0..MaxSessions]
      /\ left' \in [Dirs -> 0..1] /\ ended' \subseteq Dirs
  BY MountsAssumption DEF Answered, IInv, TypeOK
<1>3. \/ opened' = opened \cup {o} /\ UNCHANGED <<closing, late>>
      \/ closing' = closing \cup {o} /\ UNCHANGED <<opened, late>>
      \/ late' = late \cup {o} /\ UNCHANGED <<opened, closing>>
  BY DEF Answered
<1>4. /\ link /\ session # 0 /\ of[o] = 0 /\ o \notin opened /\ o \notin agent
      /\ session \in 0..MaxSessions /\ session <= session
      /\ phase = "serving"
  BY Serving DEF IInv, TypeOK, Phases, Held, Opening, Opens, Reaches
<1>5. TypeOK'
  BY <1>1, <1>2, <1>3 DEF IInv, TypeOK, Places, connection, cursors
<1>6. Typed'
  BY <1>1 DEF IInv, Typed, Transferring
<1>7. Aligned' /\ AtRest'
  BY <1>1, CursorsKept DEF Transferring, Opens
<1>8. Phases' /\ Settled'
  BY <1>1, <1>4 DEF IInv, Phases, Settled, connection
<1>9. Held'
  BY <1>2, <1>3, <1>4 DEF IInv, TypeOK, Held, connection
<1>10. Opening'
  <2>1. \A u \in Threads : Opens(u)' => u # t /\ Opens(u) /\ call'[u] = call[u]
    BY <1>1 DEF Opens
  <2>2. \A u \in Threads : u # t /\ Opens(u) => call[u].obj \in Objects /\ call[u].obj # o
    BY DEF IInv, Opening
  <2> QED
    BY <1>2, <2>1, <2>2 DEF IInv, Opening
<1>11. MountAgrees'
  <2>1. closing \subseteq agent
    BY DEF IInv, TypeOK
  <2> QED
    BY <1>2, <1>3, <1>4, <2>1 DEF IInv, TypeOK, MountAgrees, Reaches, connection
<1> QED
  BY <1>5, <1>6, <1>7, <1>8, <1>9, <1>10, <1>11 DEF IInv

\* A mount that is settled calls over an fs_ that is there and has its callbacks.
LEMMA AskPreserves == ASSUME IInv, NEW t \in Threads, Ask(t) PROVE IInv'
<1>1. crashed' = crashed \/ (unsettled /\ crashed' \in BOOLEAN)
  <2>1. crashed \in BOOLEAN /\ phase = "serving"
    BY Serving DEF Ask, IInv, TypeOK
  <2>2. CASE unsettled
    BY <2>1, <2>2 DEF Ask
  <2>3. CASE ~unsettled
    <3>1. dressed /\ (call[t].op \in ViaFs => call[t].fs = fs)
      BY <2>1, <2>3 DEF Ask, IInv, Settled
    <3> QED
      BY <2>1, <3>1 DEF Ask
  <2> QED
    BY <2>2, <2>3
<1>2. CASE End(t) /\ UNCHANGED <<handles, entries>>
  BY <1>1, <1>2, EndPreserves DEF Ask
<1>3. CASE /\ call[t].op \in {"open", "mknod", "opendir"} /\ Reaches(call[t].fs)
           /\ Answered(t, call[t].obj)
  BY <1>1, <1>3, AnsweredPreserves DEF Ask, Opens
<1> QED
  BY <1>2, <1>3 DEF Ask

\* The kernel lets an object go: what the agent still has of it is about to be closed.
LEMMA ReleasePreserves == ASSUME IInv, NEW o \in Objects, Release(o) PROVE IInv'
<1>1. /\ o \in opened /\ opened' = opened \ {o}
      /\ closing' = IF Reaches(of[o]) THEN closing \cup {o} ELSE closing
      /\ UNCHANGED <<connection, of, agent, late, cursors, entries, pc, call, crashed>>
  BY DEF Release
<1>2. Reaches(of[o]) <=> o \in agent
  BY <1>1 DEF IInv, Held, MountAgrees, Reaches
<1>3. TypeOK'
  BY <1>1, <1>2 DEF IInv, TypeOK, connection, cursors
<1>4. Phases' /\ Settled' /\ Held' /\ Opening'
  BY <1>1 DEF IInv, Phases, Settled, Held, Opening, Opens, connection
<1>5. MountAgrees'
  BY <1>1, <1>2 DEF IInv, MountAgrees, Reaches, connection
<1> QED
  BY <1>1, <1>3, <1>4, <1>5, CallsStay DEF IInv

LEMMA ClosedPreserves == ASSUME IInv, NEW o \in Objects, Closed(o) PROVE IInv'
<1>1. /\ o \in closing /\ agent' = agent \ {o} /\ closing' = closing \ {o}
      /\ UNCHANGED <<connection, opened, of, late, cursors, entries, pc, call, crashed>>
  BY DEF Closed
<1>2. TypeOK'
  BY <1>1 DEF IInv, TypeOK, connection, cursors
<1>3. Phases' /\ Settled' /\ Held' /\ Opening'
  BY <1>1 DEF IInv, Phases, Settled, Held, Opening, Opens, connection
<1>4. MountAgrees'
  BY <1>1 DEF IInv, MountAgrees, Reaches, connection
<1> QED
  BY <1>1, <1>2, <1>3, <1>4, CallsStay DEF IInv

-----------------------------------------------------------------------------
(* Reads and writes                                                        *)

\* Who comes to a file that nobody uses finds offset_ and the agent's position agreed.
LEMMA MovePreserves ==
    ASSUME IInv, NEW t \in Threads, NEW f \in Files, NEW op \in {"read", "write"},
           NEW off \in 0..Size, NEW len \in 1..MaxLen, Move(t, f, op, off, len)
    PROVE  IInv'
<1> DEFINE c == [NoCall EXCEPT !.op = op, !.obj = f, !.fs = of[f], !.off = off, !.len = len]
           at == IF offset[f] # off THEN "seek" ELSE "transfer"
<1>1. c \in CallRecord /\ c.op = op /\ c.obj = f /\ c.off = off /\ c.cur = 0 /\ c.at = {}
  <2>1. off \in Nat /\ len \in Nat /\ of[f] \in 0..MaxSessions /\ f \in Objects
    BY MountsAssumption DEF IInv, TypeOK, Objects
  <2>2. NoCall.cur = 0 /\ NoCall.at = {}
    BY DEF NoCall
  <2> QED
    BY <2>1, <2>2, NoCallTyped DEF CallRecord
<1>2. at \in Places /\ at \in {"seek", "transfer"} /\ (at = "transfer" => offset[f] = off)
  BY DEF Places
<1>3. /\ Begin(t, at, c)
      /\ disturbed' = (IF Busy(f) THEN disturbed \cup {f} ELSE disturbed)
      /\ UNCHANGED <<connection, handles, offset, position, entries, crashed>>
  BY DEF Move
<1> HIDE DEF c, at
<1>4. /\ phase = "serving" /\ pc[t] = "idle"
      /\ pc' \in [Threads -> Places] /\ call' \in [Threads -> CallRecord]
      /\ pc'[t] = at /\ call'[t] = c
      /\ \A u \in Threads : u # t => pc'[u] = pc[u] /\ call'[u] = call[u]
  BY <1>1, <1>2, <1>3, Begun
<1>5. TypeOK'
  BY <1>3, <1>4 DEF IInv, TypeOK, Places, connection, handles
<1>6. Typed'
  BY <1>1, <1>2, <1>4 DEF IInv, Typed
<1>7. Phases' /\ Settled' /\ Held' /\ Opening' /\ MountAgrees'
  BY <1>2, <1>3, <1>4, ThreadStep DEF Opens
<1>8. /\ disturbed \subseteq disturbed'
      /\ \A u \in Threads, g \in Files : u # t => (Moves(u, g)' <=> Moves(u, g))
      /\ \A u \in Threads, g \in Files : u # t /\ Fits(u, g) => Fits(u, g)'
      /\ \A g \in Files : ~Moves(t, g) /\ (Moves(t, g)' <=> g = f)
  BY <1>1, <1>2, <1>3, <1>4 DEF Moves, Fits, Transferring
<1>9. ASSUME f \notin disturbed'
      PROVE  (\A u \in Threads : ~Moves(u, f)) /\ Fits(t, f)'
  <2>1. ~Busy(f) /\ f \notin disturbed
    BY <1>3, <1>9
  <2>2. \A u \in Threads : ~Moves(u, f)
    BY <2>1 DEF Busy, Moves
  <2>3. offset[f] = position[f]
    BY <2>1, <2>2 DEF IInv, AtRest
  <2>4. off..(off - 1) = {} /\ off = off + 0
    BY MountsAssumption
  <2>5. Fits(t, f)'
    BY <1>1, <1>2, <1>3, <1>4, <2>3, <2>4 DEF Fits
  <2> QED
    BY <2>2, <2>5
<1>10. Aligned'
  BY <1>8, <1>9 DEF IInv, Aligned
<1>11. AtRest'
  BY <1>3, <1>8 DEF IInv, AtRest
<1> QED
  BY <1>5, <1>6, <1>7, <1>10, <1>11 DEF IInv

\* A thread that goes on: its place, its call and the cursors are all that changes.
LEMMA Goes ==
    ASSUME IInv, NEW t \in Threads, pc[t] \in Transferring,
           NEW f \in Files, f = call[t].obj, NEW to \in Transferring,
           pc' = [pc EXCEPT ![t] = to], NEW c \in CallRecord, call' = [call EXCEPT ![t] = c],
           c.obj = f, UNCHANGED <<connection, handles, entries, crashed>>,
           offset' \in [Files -> Nat], position' \in [Files -> Nat], disturbed' = disturbed,
           \A g \in Files : g # f => offset'[g] = offset[g] /\ position'[g] = position[g],
           f \notin disturbed => Fits(t, f)'
    PROVE  IInv'
<1>1. /\ pc' \in [Threads -> Places] /\ call' \in [Threads -> CallRecord]
      /\ pc'[t] = to /\ call'[t] = c
      /\ \A u \in Threads : u # t => pc'[u] = pc[u] /\ call'[u] = call[u]
  BY DEF IInv, TypeOK, Typed, Transferring, Places
<1>2. TypeOK'
  BY <1>1 DEF IInv, TypeOK, Places, connection, handles
<1>3. Typed'
  BY <1>1 DEF IInv, Typed, Transferring
<1>4. Phases' /\ Settled' /\ Held' /\ Opening' /\ MountAgrees'
  BY <1>1, Serving, ThreadStep DEF Opens, Transferring
<1>5. Moves(t, f) /\ \A g \in Files : Moves(t, g)' <=> g = f
  BY <1>1 DEF Moves
<1>6. Aligned' /\ AtRest'
  BY <1>1, <1>5, OneMoves
<1> QED
  BY <1>2, <1>3, <1>4, <1>6 DEF IInv

\* A call that is given up while the agent moves the file disturbs it.
LEMMA GivesUp ==
    ASSUME IInv, NEW t \in Threads, pc[t] \in {"seek", "transfer"}, End(t),
           UNCHANGED <<connection, handles, entries, offset, crashed>>,
           position' \in [Files -> Nat], disturbed' = disturbed \cup {call[t].obj},
           \A g \in Files : g # call[t].obj => position'[g] = position[g]
    PROVE  IInv'
<1> PICK f \in Files : f = call[t].obj
  BY DEF IInv, Typed, Transferring
<1>1. /\ pc' \in [Threads -> Places] /\ call' \in [Threads -> CallRecord]
      /\ pc'[t] = "idle" /\ call'[t] = NoCall
      /\ \A u \in Threads : u # t => pc'[u] = pc[u] /\ call'[u] = call[u]
  BY Ended
<1>2. TypeOK'
  BY <1>1 DEF IInv, TypeOK, Places, connection, handles
<1>3. Typed'
  BY <1>1 DEF IInv, Typed, Transferring
<1>4. Phases' /\ Settled' /\ Held' /\ Opening' /\ MountAgrees'
  BY <1>1, Serving, ThreadStep DEF Opens
<1>5. Moves(t, f) /\ \A g \in Files : ~Moves(t, g)'
  BY <1>1 DEF Moves, Transferring
<1>6. Aligned' /\ AtRest'
  BY <1>1, <1>5, OneMoves
<1> QED
  BY <1>2, <1>3, <1>4, <1>6 DEF IInv

\* What is known of the call and the file of a thread that transfers.
LEMMA Transfers ==
    ASSUME IInv, NEW t \in Threads, pc[t] \in Transferring
    PROVE  /\ call[t] \in CallRecord /\ call[t].obj \in Files
           /\ call[t].off \in Nat /\ call[t].cur \in Nat /\ call[t].next \in Nat
           /\ call[t].len \in Nat /\ call[t].res \in Nat
           /\ offset[call[t].obj] \in Nat /\ position[call[t].obj] \in Nat
           /\ offset \in [Files -> Nat] /\ position \in [Files -> Nat]
           /\ call[t].obj \notin disturbed => Fits(t, call[t].obj)
           /\ call' = call => call' = [call EXCEPT ![t] = call[t]]
<1>1. call[t] \in CallRecord /\ call[t].obj \in Files /\ call \in [Threads -> CallRecord]
  BY DEF IInv, Typed
<1>2. call[t].obj \notin disturbed => Fits(t, call[t].obj)
  BY <1>1 DEF IInv, Aligned, Moves
<1> QED
  BY <1>1, <1>2 DEF IInv, TypeOK, CallRecord

LEMMA SeekPreserves == ASSUME IInv, NEW t \in Threads, Seek(t) PROVE IInv'
<1>1. pc[t] = "seek" /\ pc[t] \in Transferring
  BY DEF Seek, Transferring
<1> PICK f \in Files : f = call[t].obj
  BY <1>1, Transfers
<1>2. UNCHANGED <<connection, handles, offset, entries, crashed>>
  BY DEF Seek
<1>3. CASE /\ position' = [position EXCEPT ![f] = call[t].off]
           /\ pc' = [pc EXCEPT ![t] = "seeked"] /\ UNCHANGED <<call, disturbed>>
  <2>1. /\ position'[f] = call[t].off /\ position' \in [Files -> Nat]
        /\ \A g \in Files : g # f => position'[g] = position[g]
    BY <1>1, <1>3, Transfers DEF IInv, TypeOK
  <2>2. pc'[t] = "seeked" /\ "seeked" \in Transferring
    BY <1>3 DEF IInv, TypeOK, Transferring
  <2>3. f \notin disturbed => Fits(t, f)'
    BY <1>1, <1>3, <2>1, <2>2, Transfers DEF Fits
  <2>4. call[t] \in CallRecord /\ call' = [call EXCEPT ![t] = call[t]] /\ offset \in [Files -> Nat]
    BY <1>1, <1>3, Transfers
  <2> QED
    BY <1>1, <1>2, <1>3, <2>1, <2>2, <2>3, <2>4, Goes
<1>4. CASE /\ position' = [position EXCEPT ![f] = call[t].off]
           /\ End(t) /\ disturbed' = disturbed \cup {f}
  <2>1. /\ position' \in [Files -> Nat]
        /\ \A g \in Files : g # f => position'[g] = position[g]
    BY <1>1, <1>4, Transfers DEF IInv, TypeOK
  <2> QED
    BY <1>1, <1>4, <2>1, GivesUp DEF Seek
<1>5. CASE End(t) /\ UNCHANGED <<position, disturbed>>
  BY <1>1, <1>5, EndPreserves DEF Seek, cursors
<1> QED
  BY <1>3, <1>4, <1>5 DEF Seek

LEMMA SeekedPreserves == ASSUME IInv, NEW t \in Threads, Seeked(t) PROVE IInv'
<1>1. pc[t] = "seeked" /\ pc[t] \in Transferring
  BY DEF Seeked, Transferring
<1> PICK f \in Files : f = call[t].obj
  BY <1>1, Transfers
<1>2. /\ offset' = [offset EXCEPT ![f] = call[t].off] /\ pc' = [pc EXCEPT ![t] = "transfer"]
      /\ UNCHANGED <<connection, handles, position, disturbed, entries, call, crashed>>
  BY DEF Seeked
<1>3. /\ offset'[f] = call[t].off /\ offset' \in [Files -> Nat]
      /\ \A g \in Files : g # f => offset'[g] = offset[g]
  BY <1>1, <1>2, Transfers DEF IInv, TypeOK
<1>4. pc'[t] = "transfer" /\ "transfer" \in Transferring
  BY <1>2 DEF IInv, TypeOK, Transferring
<1>5. ASSUME f \notin disturbed PROVE Fits(t, f)'
  <2>1. position[f] = call[t].off /\ call[t].cur = 0 /\ call[t].at = {} /\ call[t].off \in Nat
    BY <1>1, <1>5, Transfers DEF Fits
  <2>2. call[t].off..(position[f] - 1) = {} /\ position[f] = call[t].off + call[t].cur
    BY <2>1
  <2> QED
    BY <1>2, <1>3, <1>4, <2>1, <2>2 DEF Fits
<1>6. /\ call[t] \in CallRecord /\ call' = [call EXCEPT ![t] = call[t]]
      /\ position \in [Files -> Nat]
  BY <1>1, <1>2, Transfers
<1> QED
  BY <1>1, <1>2, <1>3, <1>4, <1>5, <1>6, Goes

\* The agent moves n bytes from where offset_ says.
LEMMA TransferPreserves == ASSUME IInv, NEW t \in Threads, Transfer(t) PROVE IInv'
<1>1. pc[t] = "transfer" /\ pc[t] \in Transferring
  BY DEF Transfer, Transferring
<1> PICK f \in Files : f = call[t].obj
  BY <1>1, Transfers
<1>2. UNCHANGED <<connection, handles, offset, entries, crashed>>
  BY DEF Transfer
<1>3. ASSUME NEW n \in Nat, position' = [position EXCEPT ![f] = @ + n]
      PROVE  /\ position'[f] = position[f] + n /\ position' \in [Files -> Nat]
             /\ \A g \in Files : g # f => position'[g] = position[g]
  BY <1>3 DEF IInv, TypeOK
<1>4. ASSUME NEW n \in Nat, position' = [position EXCEPT ![f] = @ + n], UNCHANGED disturbed,
             call' = [call EXCEPT ![t].next = n, ![t].at = Record(f, @, n)],
             pc' = [pc EXCEPT ![t] = "moved"]
      PROVE  IInv'
  <2>1. call[t] \in CallRecord /\ Record(f, call[t].at, n) \subseteq Int
    BY <1>1, Transfers DEF CallRecord, Record, IInv, TypeOK
  <2>2. /\ [call[t] EXCEPT !.next = n, !.at = Record(f, @, n)] \in CallRecord
        /\ call' = [call EXCEPT ![t] = [call[t] EXCEPT !.next = n, !.at = Record(f, @, n)]]
    BY <1>4, <2>1 DEF CallRecord, IInv, Typed
  <2>3. PICK c \in CallRecord :
          /\ c.obj = f /\ c.off = call[t].off /\ c.cur = call[t].cur
          /\ c.next = n /\ c.at = Record(f, call[t].at, n) /\ call' = [call EXCEPT ![t] = c]
    BY <2>1, <2>2 DEF CallRecord
  <2>4. call'[t] = c /\ pc'[t] = "moved"
    BY <1>4, <2>3 DEF IInv, TypeOK, Typed
  <2>5. ASSUME f \notin disturbed PROVE Fits(t, f)'
    <3>1. /\ offset[f] = position[f] /\ position[f] = call[t].off + call[t].cur
          /\ call[t].at = call[t].off..(position[f] - 1)
      BY <1>1, <2>5, Transfers DEF Fits
    <3>2. c.at = call[t].off..(position[f] - 1) \cup position[f]..(position[f] + n - 1)
      BY <2>3, <2>5, <3>1 DEF Record
    <3>3. call[t].off \in Nat /\ call[t].cur \in Nat /\ position[f] \in Nat
      BY <1>1, Transfers
    <3>4. c.at = call[t].off..(position[f] + n - 1)
      BY <3>1, <3>2, <3>3
    <3>5. position'[f] = position[f] + n /\ offset'[f] = offset[f]
      BY <1>2, <1>3, <1>4
    <3> QED
      BY <2>3, <2>4, <3>1, <3>3, <3>4, <3>5 DEF Fits
  <2>6. "moved" \in Transferring /\ offset \in [Files -> Nat]
    BY <1>1, Transfers DEF Transferring
  <2>7. /\ position' \in [Files -> Nat]
        /\ \A g \in Files : g # f => offset'[g] = offset[g] /\ position'[g] = position[g]
    BY <1>2, <1>3, <1>4
  <2> QED
    BY <1>1, <1>2, <1>4, <2>3, <2>5, <2>6, <2>7, Goes
<1>5. ASSUME position' = [position EXCEPT ![f] = @ + 0], UNCHANGED disturbed, Tell(t, call[t].cur)
      PROVE  IInv'
  <2>1. /\ [call[t] EXCEPT !.res = call[t].cur] \in CallRecord /\ call[t] \in CallRecord
        /\ call' = [call EXCEPT ![t] = [call[t] EXCEPT !.res = call[t].cur]]
    BY <1>1, <1>5, Transfers DEF CallRecord, Tell, IInv, Typed
  <2>2. PICK c \in CallRecord :
          /\ c.obj = f /\ c.off = call[t].off /\ c.at = call[t].at /\ c.res = call[t].cur
          /\ call' = [call EXCEPT ![t] = c]
    BY <2>1 DEF CallRecord
  <2>3. call'[t] = c /\ pc'[t] = "done" /\ pc' = [pc EXCEPT ![t] = "done"]
    BY <1>5, <2>2 DEF Tell, IInv, TypeOK, Typed
  <2>4. position'[f] = position[f]
    BY <1>1, <1>3, <1>5, Transfers
  <2>5. f \notin disturbed =>
           /\ offset[f] = position[f] /\ position[f] = call[t].off + call[t].cur
           /\ call[t].at = call[t].off..(call[t].off + call[t].cur - 1)
    BY <1>1, Transfers DEF Fits
  <2>6. f \notin disturbed => Fits(t, f)'
    BY <1>1, <1>2, <2>2, <2>3, <2>4, <2>5, Transfers DEF Fits
  <2>7. "done" \in Transferring /\ offset \in [Files -> Nat]
    BY <1>1, Transfers DEF Transferring
  <2>8. /\ position' \in [Files -> Nat]
        /\ \A g \in Files : g # f => offset'[g] = offset[g] /\ position'[g] = position[g]
    BY <1>2, <1>3, <1>5
  <2> QED
    BY <1>1, <1>2, <1>5, <2>2, <2>3, <2>6, <2>7, <2>8, Goes
<1>6. ASSUME NEW n \in Nat, position' = [position EXCEPT ![f] = @ + n], End(t),
             disturbed' = IF n > 0 THEN disturbed \cup {f} ELSE disturbed
      PROVE  IInv'
  <2>1. CASE n > 0
    BY <1>1, <1>2, <1>3, <1>6, <2>1, GivesUp
  <2>2. CASE n = 0
    <3>1. position \in [Files -> Nat] /\ position[f] + n = position[f]
      BY <2>2 DEF IInv, TypeOK
    <3>2. position' = [position EXCEPT ![f] = position[f]]
      BY <1>6, <3>1
    <3>3. UNCHANGED <<position, disturbed>>
      BY <1>6, <2>2, <3>1, <3>2
    <3> QED
      BY <1>1, <1>2, <1>6, <3>3, EndPreserves DEF cursors
  <2> QED
    BY <2>1, <2>2
<1>7. CASE End(t) /\ UNCHANGED <<position, disturbed>>
  BY <1>1, <1>2, <1>7, EndPreserves DEF cursors
<1>8. \A n \in Chunks(call[t].op, position[f], call[t].len - call[t].cur) : n \in Nat
  BY DEF Chunks
<1> QED
  BY <1>4, <1>5, <1>6, <1>7, <1>8 DEF Transfer

LEMMA MovedPreserves == ASSUME IInv, NEW t \in Threads, Moved(t) PROVE IInv'
<1>1. pc[t] = "moved" /\ pc[t] \in Transferring
  BY DEF Moved, Transferring
<1> PICK f \in Files : f = call[t].obj
  BY <1>1, Transfers
<1> PICK k \in Nat : k = call[t].cur + call[t].next
  BY <1>1, Transfers
<1> PICK to \in {"done", "transfer"} : to = (IF k = call[t].len THEN "done" ELSE "transfer")
  OBVIOUS
<1>2. /\ [call[t] EXCEPT !.cur = k, !.next = 0, !.res = k] \in CallRecord /\ call[t] \in CallRecord
      /\ call' = [call EXCEPT ![t] = [call[t] EXCEPT !.cur = k, !.next = 0, !.res = k]]
  <2>1. call[t] \in CallRecord
    BY <1>1, Transfers
  <2>2. call' = [call EXCEPT ![t] = [call[t] EXCEPT !.cur = k, !.next = 0, !.res = k]]
    BY DEF Moved, IInv, Typed
  <2> QED
    BY <2>1, <2>2 DEF CallRecord
<1>3. PICK c \in CallRecord :
        /\ c.obj = f /\ c.off = call[t].off /\ c.at = call[t].at /\ c.cur = k /\ c.res = k
        /\ call' = [call EXCEPT ![t] = c]
  BY <1>2 DEF CallRecord
<1>4. /\ offset' = [offset EXCEPT ![f] = @ + call[t].next] /\ pc' = [pc EXCEPT ![t] = to]
      /\ UNCHANGED <<connection, handles, position, disturbed, entries, crashed>>
  BY DEF Moved
<1>5. offset \in [Files -> Nat] /\ position \in [Files -> Nat] /\ call[t].next \in Nat
  BY <1>1, Transfers
<1>6. /\ offset'[f] = offset[f] + call[t].next /\ offset' \in [Files -> Nat]
      /\ \A g \in Files : g # f => offset'[g] = offset[g]
  BY <1>4, <1>5
<1>7. call'[t] = c /\ pc'[t] = to /\ to \in Transferring
  BY <1>3, <1>4 DEF IInv, TypeOK, Typed, Transferring
<1>8. ASSUME f \notin disturbed PROVE Fits(t, f)'
  <2>1. /\ offset[f] + call[t].next = position[f] /\ position[f] = call[t].off + k
        /\ call[t].at = call[t].off..(position[f] - 1)
    BY <1>1, <1>8, Transfers DEF Fits
  <2>2. offset[f] \in Nat /\ position[f] \in Nat /\ call[t].off \in Nat
    BY <1>1, Transfers
  <2> QED
    BY <1>3, <1>4, <1>6, <1>7, <2>1, <2>2 DEF Fits
<1> QED
  BY <1>1, <1>3, <1>4, <1>5, <1>6, <1>7, <1>8, Goes

LEMMA ReturnPreserves == ASSUME IInv, NEW t \in Threads, Return(t) PROVE IInv'
BY EndPreserves DEF Return

-----------------------------------------------------------------------------
(* readdir                                                                 *)

LEMMA ListPreserves == ASSUME IInv, NEW t \in Threads, List(t) \/ ListIsFull(t) PROVE IInv'
<1>1. pc[t] = "list" /\ UNCHANGED <<connection, handles, cursors, crashed>>
  BY DEF List, ListIsFull
<1>2. CASE End(t) /\ UNCHANGED entries
  BY <1>1, <1>2, EndPreserves
<1>3. CASE List(t) /\ ~(End(t) /\ UNCHANGED entries)
  <2>1. /\ left[call[t].obj] > 0 /\ left' = [left EXCEPT ![call[t].obj] = @ - 1]
        /\ ended' \in {ended, ended \cup {call[t].obj}} /\ UNCHANGED <<pc, call>>
    BY <1>3 DEF List
  <2>2. call[t].obj \in Dirs
    BY <1>1 DEF IInv, Typed
  <2>3. left' \in [Dirs -> 0..1] /\ ended' \subseteq Dirs
    BY <2>1, <2>2 DEF IInv, TypeOK
  <2>4. TypeOK'
    BY <1>1, <2>1, <2>3 DEF IInv, TypeOK, connection, handles, cursors
  <2>5. Typed' /\ Aligned' /\ AtRest'
    BY <1>1, <2>1 DEF IInv, Typed, Aligned, AtRest, Moves, Fits, Transferring, cursors
  <2>6. Phases' /\ Settled' /\ Held' /\ Opening' /\ MountAgrees'
    BY <1>1, <2>1 DEF IInv, Phases, Settled, Held, Opening, Opens, MountAgrees, Reaches,
                      connection, handles
  <2> QED
    BY <2>4, <2>5, <2>6 DEF IInv
<1> QED
  BY <1>1, <1>2, <1>3 DEF ListIsFull

-----------------------------------------------------------------------------
(* Every step                                                              *)

LEMMA Begins == Init => IInv
<1> SUFFICES ASSUME Init PROVE IInv
  OBVIOUS
<1> USE MountsAssumption DEF Init
<1>1. TypeOK
  <2>1. conn \in [Runners -> {"idle", "connect", "open", "config"}]
    BY DEF Runners
  <2>2. /\ left \in [Dirs -> 0..1] /\ of \in [Objects -> 0..MaxSessions]
        /\ offset \in [Files -> Nat] /\ position \in [Files -> Nat]
    OBVIOUS
  <2>3. pc \in [Threads -> Places]
    BY DEF Places
  <2>4. 0 \in 0..MaxSessions
    OBVIOUS
  <2> QED
    BY <2>1, <2>2, <2>3, <2>4 DEF TypeOK, Places
<1>2. Typed
  BY NoCallTyped DEF Typed, Transferring
<1>3. Phases /\ Settled /\ Held /\ Opening /\ MountAgrees
  BY DEF Phases, Settled, Held, Opening, Opens, MountAgrees, Runners, Reaches
<1>4. Aligned /\ AtRest
  BY DEF Aligned, AtRest, Moves, Transferring
<1> QED
  BY <1>1, <1>2, <1>3, <1>4 DEF IInv

LEMMA StutterPreserves == ASSUME IInv, UNCHANGED vars PROVE IInv'
<1>1. TypeOK' /\ Typed'
  BY DEF vars, IInv, TypeOK, Typed
<1>2. Phases' /\ Settled' /\ Held' /\ Opening' /\ MountAgrees'
  BY DEF vars, IInv, Phases, Settled, Held, Opening, Opens, MountAgrees, Reaches
<1>3. Aligned' /\ AtRest'
  BY CallsStay DEF vars, cursors
<1> QED
  BY <1>1, <1>2, <1>3 DEF IInv

LEMMA Inductive == Spec => []IInv
<1>1. ASSUME IInv, [Next]_vars PROVE IInv'
  <2>1. ASSUME NEW o \in Objects, Release(o) \/ Closed(o) PROVE IInv'
    BY <1>1, <2>1, ReleasePreserves, ClosedPreserves
  <2>2. ASSUME NEW t \in Threads, NEW f \in Files,
               \/ \E op \in {"open", "mknod"} : Open(t, f, op)
               \/ Flush(t, f)
               \/ \E op \in {"read", "write"}, off \in 0..Size, len \in 1..MaxLen :
                    Move(t, f, op, off, len)
        PROVE  IInv'
    BY <1>1, <2>2, OpenPreserves, FlushPreserves, MovePreserves
  <2>3. ASSUME NEW t \in Threads, NEW d \in Dirs, PathCall(t, "opendir", d) \/ Readdir(t, d)
        PROVE  IInv'
    BY <1>1, <2>3, PathCallPreserves, ReaddirPreserves DEF Objects
  <2>4. ASSUME NEW t \in Threads, PathCall(t, "path", "none") \/ PathCall(t, "make", "none")
        PROVE  IInv'
    BY <1>1, <2>4, PathCallPreserves
  <2>5. ASSUME NEW t \in Threads, ListIsFull(t) \/ Serve(t) PROVE IInv'
    BY <1>1, <2>5, ListPreserves, ReturnPreserves, AskPreserves, SeekPreserves, SeekedPreserves,
       TransferPreserves, MovedPreserves DEF Serve
  <2>6. ASSUME NEW p \in Runners, Connect(p) PROVE IInv'
    BY <1>1, <2>6, ConnectedPreserves, ConnectFailsPreserves, FsMadePreserves,
       FsConfiguredPreserves DEF Connect
  <2>7. CASE TimerFires \/ Lose \/ DestroyStep
    BY <1>1, <2>7, TimerFiresPreserves, LosePreserves, DestroyPreserves
  <2> QED
    BY <1>1, <2>1, <2>2, <2>3, <2>4, <2>5, <2>6, <2>7, StutterPreserves DEF Next, Kernel
<1> QED
  BY <1>1, Begins, PTL DEF Spec

-----------------------------------------------------------------------------
\* The variables of the mount, its connection and the agent have their types.
THEOREM TypeCorrect == Spec => []TypeOK
<1>1. IInv => TypeOK
  BY DEF IInv
<1> QED
  BY <1>1, Inductive, PTL

\* What the kernel was given stands for something that is there: the agent has open what
\* the kernel holds, over any number of connections and lost answers, and the fs_ of a
\* mount that never lost its connection is there with its callbacks when it is called.
THEOREM HandlesStand == Spec => []MountSafe
<1>1. IInv => MountSafe
  BY DEF IInv, Settled, MountSafe, SettledMountLives
<1> QED
  BY <1>1, Inductive, PTL

\* A read or write of any length, cut into any requests, that tells n bytes has moved the n
\* bytes from the offset it was asked for, on every file that no two calls overlapped on
\* and in which no failed call had moved.
THEOREM BytesWhereAsked == Spec => []MovedWhereAsked
<1>1. IInv => MovedWhereAsked
  <2> SUFFICES ASSUME IInv, NEW t \in Threads, pc[t] = "done", call[t].obj \notin disturbed
               PROVE  call[t].at = call[t].off..(call[t].off + call[t].res - 1)
    BY DEF MovedWhereAsked
  <2>1. Fits(t, call[t].obj)
    BY Transfers DEF Transferring
  <2> QED
    BY <2>1 DEF Fits
<1> QED
  BY <1>1, Inductive, PTL
=============================================================================
