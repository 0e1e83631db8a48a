---------------------------- MODULE ScriptProofs ----------------------------
(***************************************************************************)
(* Theorems about the two programs that run scripts: the threads of the Lua*)
(* client (LuaEvents) and the Lua command of the console (Console), for    *)
(* every value of their constants.  The two share no name.                 *)
(***************************************************************************)
EXTENDS LuaEvents, Console, SequenceTheorems, TLAPS

-----------------------------------------------------------------------------
(* LuaEvents: timers and the console's reader                              *)

\* The handler that the io thread runs is of a timer that expired or was
\* aborted, or of a reader.
IoTyped ==
  /\ io \in [at : {"idle", "push", "erase", "release", "arm", "call"},
             of : Timers \cup Nat \cup {"nothing"}, err : BOOLEAN]
  /\ io.at \in {"push", "erase", "release"} => io.of \in Timers /\ timer[io.of] = "done"
  /\ io.at = "arm" => io.of \in 1..readers
TimersTyped ==
  /\ timer \in [Timers -> {"unused", "waiting", "fired", "aborted", "done"}]
  /\ told \in [Timers -> {"no", "nil", "error", "lost"}]

\* The teardown: working_ is off in it, and once main has joined the pool no
\* handler runs, nor will one.
TearsDown ==
  /\ working \in BOOLEAN /\ (~working <=> TearingDown)
  /\ lua \in {"join", "modules", "ended"} => "pp" \in stopped
  /\ lua \in {"modules", "ended"} => io = Idle

\* A timer that has been handled is still in timers_ only while its handler
\* has to erase it; an error comes from a cancel or from the teardown.
MapKept ==
  \A t \in Timers :
    /\ timer[t] = "waiting" => t \in map
    /\ t \in map /\ timer[t] = "done" => (io.at \in {"push", "erase"} /\ io.of = t) \/ ~working
ErrorsKept ==
  /\ \A t \in Timers : /\ timer[t] = "aborted" => t \in cancelled \/ ~working
                       /\ told[t] = "error" => t \in cancelled
  /\ io.at = "push" /\ io.err => io.of \in cancelled

EvtInv == IoTyped /\ TimersTyped /\ TearsDown /\ MapKept /\ ErrorsKept

\* The calls of the script: no step of the teardown, no handler.
LEMMA TimerCallStep ==
  ASSUME EvtInv, NEW t \in Timers, TimerPost(t) \/ TimerCancel(t) PROVE EvtInv'
<1> USE DEF EvtInv
<1>1. UNCHANGED <<lua, stopped, io, working, told, readers>>
  BY DEF TimerPost, TimerCancel, consoleVars
<1>2. CASE TimerPost(t)
  <2>1. /\ timer[t] = "unused" /\ map' = map \cup {t} /\ timer' = [timer EXCEPT ![t] = "waiting"]
        /\ cancelled' = cancelled
    BY <1>2 DEF TimerPost
  <2>2. timer'[t] = "waiting" /\ \A u \in Timers \ {t} : timer'[u] = timer[u]
    BY <2>1 DEF TimersTyped
  <2>3. IoTyped' /\ TimersTyped'
    BY <1>1, <2>1, <2>2 DEF IoTyped, TimersTyped
  <2>4. MapKept' /\ ErrorsKept'
    BY <1>1, <2>1, <2>2 DEF MapKept, ErrorsKept
  <2> QED BY <1>1, <2>3, <2>4 DEF TearsDown, TearingDown
<1>3. CASE TimerCancel(t)
  <2>1. /\ map' = map \ {t} /\ cancelled' = cancelled \cup {t}
        /\ timer' = [u \in Timers |-> IF u \in map \cap {t} /\ timer[u] = "waiting" THEN "aborted" ELSE timer[u]]
    BY <1>3 DEF TimerCancel, Cancelled
  <2>2. /\ \A u \in Timers \ {t} : timer'[u] = timer[u]
        /\ timer'[t] = timer[t] \/ (timer[t] = "waiting" /\ timer'[t] = "aborted")
        /\ timer'[t] # "waiting"
    BY <2>1 DEF TimersTyped, MapKept
  <2>3. TimersTyped'
    BY <1>1, <2>1 DEF TimersTyped
  <2>4. IoTyped'
    BY <1>1, <2>2 DEF IoTyped
  <2>5. MapKept'
    BY <1>1, <2>1, <2>2 DEF MapKept
  <2>6. ErrorsKept'
    BY <1>1, <2>1, <2>2 DEF ErrorsKept
  <2> QED BY <1>1, <2>3, <2>4, <2>5, <2>6 DEF TearsDown, TearingDown
<1> QED BY <1>2, <1>3

LEMMA OtherCallStep ==
  ASSUME EvtInv, UNCHANGED <<io, timer, told, map, cancelled, working>>,
         readers' \in {readers, readers + 1}, readers \in Nat,
         TearingDown' <=> TearingDown, stopped \subseteq stopped',
         lua' \in {"join", "modules", "ended"} => lua \in {"join", "modules", "ended"},
         lua' \in {"modules", "ended"} => lua \in {"modules", "ended"}
  PROVE  EvtInv'
<1> USE DEF EvtInv
<1>1. 1..readers \subseteq 1..readers'
  OBVIOUS
<1>2. IoTyped' /\ TimersTyped'
  BY <1>1 DEF IoTyped, TimersTyped
<1>3. MapKept' /\ ErrorsKept'
  BY DEF MapKept, ErrorsKept
<1>4. TearsDown'
  BY DEF TearsDown
<1> QED BY <1>2, <1>3, <1>4

\* The steps of the Lua thread that no script makes.
LEMMA LuaThreadStep == ASSUME EvtInv, LuaThread, readers \in Nat PROVE EvtInv'
<1> USE DEF EvtInv
<1>1. UNCHANGED <<io, readers, told, cancelled>>
  BY DEF LuaThread, MainReturns, MainThrows, CallReturns, Attached, Deinit,
         ClearTimers, StopPool, JoinPool, ClearModules, LuaGoes, timerVars, consoleVars
<1>2. CASE MainReturns \/ MainThrows \/ CallReturns \/ Attached
  <2>1. /\ lua \in {"script", "call", "attached"} /\ lua' \in {"attached", "deinit", "call"}
        /\ UNCHANGED <<stopped, timer, map, working>>
    BY <1>2 DEF MainReturns, MainThrows, CallReturns, Attached, LuaGoes, timerVars
  <2> QED BY <1>1, <2>1, OtherCallStep DEF TearingDown
<1>3. CASE Deinit
  <2>1. /\ lua = "deinit" /\ lua' = "clear" /\ working' = FALSE /\ UNCHANGED <<stopped, map, timer>>
    BY <1>3 DEF Deinit, LuaGoes
  <2>2. TearsDown'
    BY <2>1 DEF TearsDown, TearingDown
  <2>3. MapKept' /\ ErrorsKept'
    BY <1>1, <2>1 DEF MapKept, ErrorsKept
  <2>4. IoTyped' /\ TimersTyped'
    BY <1>1, <2>1 DEF IoTyped, TimersTyped
  <2> QED BY <2>2, <2>3, <2>4
<1>4. CASE ClearTimers
  <2>1. /\ lua = "clear" /\ lua' = "stop" /\ UNCHANGED <<stopped, working>> /\ map' = {}
        /\ timer' = [u \in Timers |-> IF u \in map /\ timer[u] = "waiting" THEN "aborted" ELSE timer[u]]
    BY <1>4 DEF ClearTimers, LuaGoes, Cancelled
  <2>2. ~working /\ TearsDown'
    BY <2>1 DEF TearsDown, TearingDown
  <2>3. \A u \in Timers : /\ timer'[u] # "waiting"
                          /\ timer'[u] = timer[u] \/ (timer[u] = "waiting" /\ timer'[u] = "aborted")
    BY <2>1 DEF TimersTyped, MapKept
  <2>4. TimersTyped'
    BY <1>1, <2>1 DEF TimersTyped
  <2>5. IoTyped'
    BY <1>1, <2>3 DEF IoTyped
  <2>6. MapKept' /\ ErrorsKept'
    BY <1>1, <2>1, <2>2, <2>3 DEF MapKept, ErrorsKept
  <2> QED BY <2>2, <2>4, <2>5, <2>6
<1>5. CASE StopPool \/ JoinPool \/ ClearModules
  <2>1. /\ lua \in {"stop", "join", "modules"} /\ UNCHANGED <<timer, map, working>> /\ stopped \subseteq stopped'
        /\ \/ lua' = "join" /\ "pp" \in stopped'
           \/ lua = "join" /\ lua' = "modules" /\ io = Idle
           \/ lua = "modules" /\ lua' = "ended"
    BY <1>5 DEF StopPool, JoinPool, ClearModules, LuaGoes, timerVars
  <2>2. TearsDown'
    BY <1>1, <2>1 DEF TearsDown, TearingDown
  <2>3. MapKept' /\ ErrorsKept'
    BY <1>1, <2>1 DEF MapKept, ErrorsKept
  <2>4. IoTyped' /\ TimersTyped'
    BY <1>1, <2>1 DEF IoTyped, TimersTyped
  <2> QED BY <2>2, <2>3, <2>4
<1> QED BY <1>2, <1>3, <1>4, <1>5 DEF LuaThread

\* The handlers: all of them run before the pool is joined.
LEMMA HandlerBefore ==
  ASSUME EvtInv, io # Idle \/ "pp" \notin stopped, UNCHANGED <<lua, stopped, working>>
  PROVE  TearsDown'
BY DEF EvtInv, TearsDown, TearingDown

LEMMA TimerHandlerStep == ASSUME EvtInv, NEW t \in Timers, TimerHandler(t) PROVE EvtInv'
<1> USE DEF EvtInv
<1>1. /\ io = Idle /\ "pp" \notin stopped /\ timer[t] \in {"fired", "aborted"}
      /\ timer' = [timer EXCEPT ![t] = "done"]
      /\ UNCHANGED <<lua, stopped, working, map, told, cancelled, readers>>
  BY DEF TimerHandler, Works, consoleVars
<1>2. /\ io' = [at |-> IF working THEN "push" ELSE "release", of |-> t, err |-> timer[t] = "aborted"]
  BY DEF TimerHandler, Works
<1>3. /\ io'.of = t /\ io'.err \in BOOLEAN /\ (io'.err <=> timer[t] = "aborted")
      /\ (working => io'.at = "push") /\ (~working => io'.at = "release")
  BY <1>2
<1>4. timer'[t] = "done" /\ \A u \in Timers \ {t} : timer'[u] = timer[u]
  BY <1>1 DEF TimersTyped
<1>5. TearsDown'
  BY <1>1, HandlerBefore
<1>6. TimersTyped'
  BY <1>1 DEF TimersTyped
<1>7. IoTyped'
  <2>1. io' \in [at : {"idle", "push", "erase", "release", "arm", "call"},
                 of : Timers \cup Nat \cup {"nothing"}, err : BOOLEAN]
    BY <1>2
  <2> QED BY <1>3, <1>4, <2>1 DEF IoTyped
<1>8. MapKept'
  <2>1. io.at = "idle"
    BY <1>1 DEF Idle
  <2> QED BY <1>1, <1>3, <1>4, <2>1 DEF MapKept
<1>9. ErrorsKept'
  BY <1>1, <1>3, <1>4 DEF ErrorsKept
<1> QED BY <1>5, <1>6, <1>7, <1>8, <1>9

LEMMA InTimerStep == ASSUME EvtInv, TimerPush \/ TimerErase \/ TimerRelease PROVE EvtInv'
<1> USE DEF EvtInv
<1>1. /\ io.at \in {"push", "erase", "release"} /\ io.of \in Timers /\ timer[io.of] = "done"
      /\ UNCHANGED <<lua, stopped, working, timer, cancelled, readers>>
  BY DEF TimerPush, TimerErase, TimerRelease, Works, timerVars, consoleVars, IoTyped
<1>2. TearsDown'
  BY <1>1, HandlerBefore DEF Idle
<1>3. PICK t \in Timers : t = io.of
  BY <1>1
<1>4. CASE TimerPush
  <2>1. /\ io.at = "push" /\ io' = [io EXCEPT !.at = "erase"] /\ map' = map
        /\ told' = [told EXCEPT ![t] = IF ~enabled THEN "lost" ELSE IF io.err THEN "error" ELSE "nil"]
    BY <1>3, <1>4 DEF TimerPush, Works
  <2>2. io'.at = "erase" /\ io'.of = io.of
    BY <2>1 DEF IoTyped
  <2>3. IoTyped'
    BY <1>1, <2>1 DEF IoTyped
  <2>4. /\ told'[t] \in {"lost", "error", "nil"} /\ told' = [told EXCEPT ![t] = told'[t]]
        /\ told'[t] = "error" => io.err
    BY <2>1 DEF TimersTyped
  <2>5. TimersTyped' /\ \A u \in Timers \ {t} : told'[u] = told[u]
    BY <1>1, <2>4 DEF TimersTyped
  <2>6. MapKept'
    BY <1>1, <2>1, <2>2 DEF MapKept
  <2>7. ErrorsKept'
    BY <1>1, <1>3, <2>1, <2>2, <2>4, <2>5 DEF ErrorsKept
  <2> QED BY <1>2, <2>3, <2>5, <2>6, <2>7
<1>5. CASE TimerErase
  <2>1. io' = [io EXCEPT !.at = "release"] /\ map' = map \ {t} /\ told' = told /\ io.at = "erase"
    BY <1>3, <1>5 DEF TimerErase, Works
  <2>2. io'.at = "release" /\ io'.of = io.of
    BY <2>1 DEF IoTyped
  <2>3. IoTyped' /\ TimersTyped'
    BY <1>1, <2>1 DEF IoTyped, TimersTyped
  <2>4. MapKept'
    BY <1>1, <1>3, <2>1, <2>2 DEF MapKept
  <2>5. ErrorsKept'
    BY <1>1, <2>1, <2>2 DEF ErrorsKept
  <2> QED BY <1>2, <2>3, <2>4, <2>5
<1>6. CASE TimerRelease
  <2>1. io' = Idle /\ io.at = "release" /\ UNCHANGED <<map, told>>
    BY <1>6 DEF TimerRelease, Works, timerVars
  <2>2. io'.at = "idle"
    BY <2>1 DEF Idle
  <2>3. IoTyped' /\ TimersTyped'
    BY <1>1, <2>1 DEF IoTyped, TimersTyped, Idle
  <2>4. MapKept' /\ ErrorsKept'
    BY <1>1, <2>1, <2>2 DEF MapKept, ErrorsKept
  <2> QED BY <1>2, <2>3, <2>4
<1> QED BY <1>4, <1>5, <1>6

LEMMA ReaderStep ==
  ASSUME EvtInv, readers \in Nat,
         (\E r \in reads : r.of \in 1..readers /\ ReaderHandler(r)) \/ ReaderArm \/ ReaderCall
  PROVE  EvtInv'
<1> USE DEF EvtInv
<1>1. /\ UNCHANGED <<lua, stopped, working, map, timer, told, cancelled, readers>>
      /\ io # Idle \/ "pp" \notin stopped
  BY DEF ReaderHandler, ReaderArm, ReaderCall, Works, timerVars, consoleVars, Idle
<1>2. TearsDown'
  BY <1>1, HandlerBefore
<1>3. /\ io.at \notin {"push", "erase"} /\ io'.at \notin {"push", "erase", "release"}
      /\ io' \in [at : {"idle", "push", "erase", "release", "arm", "call"},
                  of : Timers \cup Nat \cup {"nothing"}, err : BOOLEAN]
      /\ io'.at = "arm" => io'.of \in 1..readers
  <2>1. CASE ReaderArm
    <3>1. io.at = "arm" /\ io' = [io EXCEPT !.at = "call"]
      BY <2>1 DEF ReaderArm, Works
    <3> QED BY <3>1 DEF IoTyped
  <2>2. CASE ReaderCall
    <3>1. io.at = "call" /\ io' = Idle
      BY <2>2 DEF ReaderCall, Works
    <3> QED BY <3>1 DEF Idle
  <2>3. ASSUME NEW r \in reads, r.of \in 1..readers, ReaderHandler(r)
        PROVE  /\ io.at \notin {"push", "erase"} /\ io'.at \notin {"push", "erase", "release"}
               /\ io' \in [at : {"idle", "push", "erase", "release", "arm", "call"},
                           of : Timers \cup Nat \cup {"nothing"}, err : BOOLEAN]
               /\ io'.at = "arm" => io'.of \in 1..readers
    <3>1. io = Idle
      BY <2>3 DEF ReaderHandler
    <3>2. CASE ~onRead
      <4>1. io' = Idle
        BY <2>3, <3>2 DEF ReaderHandler, Works
      <4> QED BY <3>1, <4>1 DEF Idle
    <3>3. CASE onRead
      <4>1. io' = [at |-> IF r.is = "read" THEN "arm" ELSE "call", of |-> r.of, err |-> r.is = "error"]
        BY <2>3, <3>3 DEF ReaderHandler, Works
      <4> QED BY <2>3, <3>1, <4>1 DEF Idle
    <3> QED BY <3>2, <3>3
  <2> QED BY <2>1, <2>2, <2>3
<1>4. IoTyped' /\ TimersTyped'
  BY <1>1, <1>3 DEF IoTyped, TimersTyped
<1>5. MapKept' /\ ErrorsKept'
  BY <1>1, <1>3 DEF MapKept, ErrorsKept
<1> QED BY <1>2, <1>4, <1>5

\* Each read is of a reader that was made, and one of the module's reader that
\* failed met the end of the input: what is aborted is of an older reader.
Listening ==
  /\ readers \in Nat /\ con \in 0..readers /\ (con # 0 => onRead)
  /\ stdout \in {"console", "closed", "other"}
  /\ reads \subseteq [of : 1..readers, is : {"pending", "read", "error"}]
  /\ \A r \in reads : r.is = "error" /\ r.of = con => con \in eof
  /\ ConsoleListens

\* Steps that leave the console alone.
LEMMA ListeningKept ==
  ASSUME Listening, UNCHANGED <<con, stdout, readers, onRead, reads, eof>>,
         io.at = "arm" => io'.at = "arm" /\ io'.of = io.of
  PROVE  Listening'
<1>1. ConsoleListens'
  BY DEF Listening, ConsoleListens
<1> QED BY <1>1 DEF Listening

\* Where an uncaught exception leads.
LEMMA ThrowGoes == ASSUME Escapes PROVE lua' \in {"attached", "deinit"} /\ running' = "nothing"
<1>1. CASE lua = "call"
  BY <1>1 DEF Escapes
<1>2. CASE lua # "call"
  BY <1>2 DEF Escapes
<1> QED BY <1>1, <1>2

LEMMA SubscriptionStep ==
  ASSUME EvtInv, Listening, ConsoleSubscribe \/ ConsoleUnsubscribe PROVE EvtInv' /\ Listening'
<1> USE DEF Listening
<1>1. EvtInv'
  <2>1. /\ UNCHANGED <<stopped, io, timer, told, map, cancelled, working>>
        /\ readers' \in {readers, readers + 1}
    BY DEF ConsoleSubscribe, SubscribeReads, SubscribeThrows, ConsoleUnsubscribe, timerVars
  <2>2. lua' = lua \/ (lua \in {"script", "call"} /\ lua' \in {"attached", "deinit"})
    BY ThrowGoes DEF ConsoleSubscribe, SubscribeReads, SubscribeThrows, ConsoleUnsubscribe, InLua
  <2> QED BY <2>1, <2>2, OtherCallStep DEF TearingDown
<1>2. \A r \in Aborted(reads) :
         r \in [of : 1..readers, is : {"pending", "read", "error"}]
  BY DEF Aborted
<1>3. CASE ConsoleSubscribe /\ SubscribeReads
  <2>1. /\ readers' = readers + 1 /\ con' = readers + 1 /\ onRead' = TRUE /\ UNCHANGED <<io, eof, stdout>>
        /\ reads' = reads \cup {[of |-> readers + 1, is |-> "pending"]}
    BY <1>3 DEF ConsoleSubscribe, SubscribeReads
  <2>2. readers' \in Nat /\ con' \in 0..readers' /\ con' # 0 /\ readers + 1 \in 1..readers'
        /\ 1..readers \subseteq 1..readers' /\ \A i \in 1..readers : i # con'
    BY <2>1
  <2>3. reads' \subseteq [of : 1..readers', is : {"pending", "read", "error"}]
    BY <2>1, <2>2
  <2>4. \A r \in reads' : r.of = con' => r.is = "pending"
    BY <2>1, <2>2
  <2>5. [of |-> con', is |-> "pending"] \in reads'
    BY <2>1
  <2>6. ConsoleListens'
    BY <2>2, <2>5 DEF ConsoleListens
  <2> QED BY <1>1, <2>1, <2>2, <2>3, <2>4, <2>6
<1>4. CASE ConsoleSubscribe /\ SubscribeThrows
  <2>1. UNCHANGED <<con, readers, reads, io, stdout, eof>> /\ onRead' = TRUE
        /\ (con # 0 \/ stdout # "console")
    BY <1>4 DEF ConsoleSubscribe, SubscribeThrows
  <2>2. ConsoleListens'
    BY <2>1 DEF ConsoleListens
  <2> QED BY <1>1, <2>1, <2>2
<1>5. CASE ConsoleUnsubscribe
  <2>1. /\ con' = 0 /\ onRead' = FALSE /\ readers' = readers /\ reads' = Aborted(reads)
        /\ stdout' \in {"closed", stdout}
    BY <1>5 DEF ConsoleUnsubscribe
  <2>2. reads' \subseteq [of : 1..readers, is : {"pending", "read", "error"}]
    BY <1>2, <2>1
  <2>3. \A r \in reads' : r.of # con'
    BY <2>1, <2>2
  <2> QED BY <1>1, <2>1, <2>2, <2>3 DEF ConsoleListens
<1> QED BY <1>3, <1>4, <1>5 DEF ConsoleSubscribe

LEMMA TypeStep == ASSUME EvtInv, Listening, Type PROVE EvtInv' /\ Listening'
<1> USE DEF Listening
<1>1. /\ UNCHANGED <<lua, stopped, io, timer, told, map, cancelled, working, readers, con, stdout, onRead>>
  BY DEF Type, timerVars
<1>2. EvtInv'
  BY <1>1, OtherCallStep DEF TearingDown
<1>3. PICK r \in reads, is \in {"read", "error"} :
         /\ reads' = (reads \ {r}) \cup {[r EXCEPT !.is = is]}
         /\ eof' = IF is = "error" THEN eof \cup {r.of} ELSE eof
  BY DEF Type
<1>4. PICK s \in [of : 1..readers, is : {"pending", "read", "error"}] :
         s = [r EXCEPT !.is = is] /\ s.of = r.of /\ s.is = is
  <2>1. r \in [of : 1..readers, is : {"pending", "read", "error"}]
    OBVIOUS
  <2>2. [r EXCEPT !.is = is] \in [of : 1..readers, is : {"pending", "read", "error"}]
    BY <2>1
  <2>3. [r EXCEPT !.is = is].of = r.of /\ [r EXCEPT !.is = is].is = is
    BY <2>1
  <2> QED BY <2>2, <2>3
<1>5. reads' \subseteq [of : 1..readers, is : {"pending", "read", "error"}]
  BY <1>3, <1>4
<1>6. eof \subseteq eof' /\ (s.is = "error" => s.of \in eof')
  BY <1>3, <1>4
<1>7. \A x \in reads' : x.is = "error" /\ x.of = con => con \in eof'
  BY <1>3, <1>4, <1>6
<1>8. \A x \in reads : \E y \in reads' : y.of = x.of
  BY <1>3, <1>4
<1>9. ConsoleListens'
  BY <1>1, <1>6, <1>8 DEF ConsoleListens
<1> QED BY <1>1, <1>2, <1>5, <1>7, <1>9

LEMMA ReaderListens ==
  ASSUME EvtInv, Listening, (\E r \in reads : ReaderHandler(r)) \/ ReaderArm \/ ReaderCall
  PROVE  EvtInv' /\ Listening'
<1> USE DEF Listening
<1>1. \A r \in reads : r.of \in 1..readers /\ r.is \in {"pending", "read", "error"}
  OBVIOUS
<1>2. EvtInv'
  BY <1>1, ReaderStep
<1>3. UNCHANGED <<con, stdout, readers, onRead, eof>>
  BY DEF ReaderHandler, ReaderArm, ReaderCall, consoleVars
<1>4. ASSUME NEW r \in reads, ReaderHandler(r) PROVE Listening'
  <2>1. /\ io = Idle /\ r.is # "pending" /\ reads' = reads \ {r}
    BY <1>4 DEF ReaderHandler
  <2>2. CASE con = 0
    BY <1>3, <2>1, <2>2 DEF ConsoleListens
  <2>3. CASE con # 0
    <3>1. io' = [at |-> IF r.is = "read" THEN "arm" ELSE "call", of |-> r.of, err |-> r.is = "error"]
      BY <1>4, <2>3 DEF ReaderHandler, Works
    <3>2. r.is = "read" => io'.at = "arm" /\ io'.of = r.of
      BY <3>1
    <3>3. r.of = con /\ con \notin eof => r.is = "read"
      BY <1>1, <2>1
    <3>4. ConsoleListens'
      BY <1>3, <2>1, <3>2, <3>3 DEF ConsoleListens, Idle
    <3> QED BY <1>3, <2>1, <3>4
  <2> QED BY <2>2, <2>3
<1>5. CASE ReaderArm
  <2>1. /\ io.at = "arm"
        /\ \/ io.of = con /\ reads' = reads \cup {[of |-> con, is |-> "pending"]}
           \/ io.of # con /\ reads' = reads
           \/ io.of # con /\ reads' = reads \cup {[of |-> io.of, is |-> "error"]}
    BY <1>5 DEF ReaderArm
  <2>2. io.of \in 1..readers
    BY <2>1 DEF EvtInv, IoTyped
  <2>3. reads \subseteq reads' /\ (io.of = con => [of |-> con, is |-> "pending"] \in reads')
    BY <2>1
  <2>4. /\ reads' \subseteq [of : 1..readers, is : {"pending", "read", "error"}]
        /\ \A x \in reads' : x \in reads \/ x.is = "pending" \/ x.of # con
    BY <2>1, <2>2
  <2>5. ConsoleListens'
    <3>1. io.of = con => \E x \in reads' : x.of = con
      BY <2>3
    <3>2. (\E x \in reads : x.of = con) => \E x \in reads' : x.of = con
      BY <2>3
    <3>3. con # 0 /\ con \notin eof => \E x \in reads' : x.of = con
      BY <3>1, <3>2 DEF ConsoleListens
    <3>4. con' = con /\ eof' = eof /\ onRead' = onRead /\ stdout' = stdout
      BY <1>3
    <3>5. onRead /\ stdout = "console" => con # 0
      BY DEF ConsoleListens
    <3> QED BY <3>3, <3>4, <3>5, Zenon DEF ConsoleListens
  <2> QED BY <1>2, <1>3, <2>4, <2>5
<1>6. CASE ReaderCall
  <2>1. io.at = "call" /\ reads' = reads
    BY <1>6, Zenon DEF ReaderCall, consoleVars
  <2> QED BY <1>2, <1>3, <2>1, ListeningKept
<1> QED BY <1>2, <1>4, <1>5, <1>6

LEMMA EvtBegins == Init => EvtInv /\ Listening
<1> SUFFICES ASSUME Init PROVE EvtInv /\ Listening
  OBVIOUS
<1>1. /\ io = Idle /\ timer = [t \in Timers |-> "unused"] /\ told = [t \in Timers |-> "no"] /\ working = TRUE
      /\ lua = "script" /\ map = {} /\ con = 0 /\ readers = 0 /\ reads = {}
      /\ stdout = "console" /\ onRead = FALSE
  BY DEF Init
<1>2. IoTyped /\ TimersTyped /\ ErrorsKept
  BY <1>1 DEF IoTyped, TimersTyped, ErrorsKept, Idle
<1>3. MapKept /\ TearsDown
  BY <1>1 DEF MapKept, TearsDown, TearingDown
<1>4. Listening
  BY <1>1 DEF Listening, ConsoleListens
<1> QED BY <1>2, <1>3, <1>4 DEF EvtInv

LEMMA EvtStep == ASSUME EvtInv, Listening, [Next]_(vars) PROVE EvtInv' /\ Listening'
<1>0. readers \in Nat
  BY DEF Listening
<1>1. CASE Post \/ Run \/ Exit
  <2>1. /\ UNCHANGED <<lua, io, timer, told, map, cancelled, working, con, stdout, readers, onRead, reads, eof>>
        /\ stopped \subseteq stopped'
    BY <1>1 DEF Post, Run, Exit, timerVars, consoleVars
  <2> QED BY <1>0, <2>1, OtherCallStep, ListeningKept DEF TearingDown
<1>2. ASSUME NEW t \in Timers, TimerPost(t) \/ TimerCancel(t) PROVE EvtInv' /\ Listening'
  <2>1. UNCHANGED <<io, con, stdout, readers, onRead, reads, eof>>
    BY <1>2 DEF TimerPost, TimerCancel, consoleVars
  <2> QED BY <1>2, <2>1, TimerCallStep, ListeningKept
<1>3. CASE Script
  BY <1>1, <1>2, <1>3, SubscriptionStep DEF Script
<1>4. CASE LuaThread
  <2>1. CASE ClearModules
    <3>1. /\ con' = 0 /\ UNCHANGED <<io, readers, onRead, reads, eof>>
          /\ stdout' = IF con # 0 THEN "closed" ELSE stdout
      BY <2>1 DEF ClearModules
    <3>2. Listening'
      BY <3>1 DEF Listening, ConsoleListens
    <3> QED BY <1>0, <1>4, <3>2, LuaThreadStep
  <2>2. CASE ~ClearModules
    <3>1. UNCHANGED <<io, con, stdout, readers, onRead, reads, eof>>
      BY <1>4, <2>2
      DEF LuaThread, MainReturns, MainThrows, CallReturns, Attached, Deinit,
          ClearTimers, StopPool, JoinPool, LuaGoes, consoleVars
    <3> QED BY <1>0, <1>4, <3>1, LuaThreadStep, ListeningKept
  <2> QED BY <2>1, <2>2
<1>5. CASE TimerPush \/ TimerErase \/ TimerRelease
  <2>1. io.at # "arm" /\ UNCHANGED <<con, stdout, readers, onRead, reads, eof>>
    BY <1>5 DEF TimerPush, TimerErase, TimerRelease, consoleVars
  <2> QED BY <1>5, <2>1, InTimerStep, ListeningKept
<1>6. ASSUME NEW t \in Timers, TimerHandler(t) PROVE EvtInv' /\ Listening'
  <2>1. io.at # "arm" /\ UNCHANGED <<con, stdout, readers, onRead, reads, eof>>
    BY <1>6 DEF TimerHandler, consoleVars, Idle
  <2> QED BY <1>6, <2>1, TimerHandlerStep, ListeningKept
<1>7. CASE IoThread
  BY <1>5, <1>6, <1>7, ReaderListens DEF IoThread, InHandler
<1>8. ASSUME NEW t \in Timers, Expire(t) PROVE EvtInv' /\ Listening'
  <2>1. /\ timer[t] = "waiting" /\ timer' = [timer EXCEPT ![t] = "fired"]
        /\ UNCHANGED <<lua, stopped, io, working, map, told, cancelled, con, stdout, readers, onRead, reads, eof>>
    BY <1>8 DEF Expire, consoleVars
  <2>2. timer'[t] = "fired" /\ \A u \in Timers \ {t} : timer'[u] = timer[u]
    BY <2>1 DEF EvtInv, TimersTyped
  <2>3. IoTyped' /\ TimersTyped'
    BY <2>1, <2>2 DEF EvtInv, IoTyped, TimersTyped
  <2>4. MapKept' /\ ErrorsKept' /\ TearsDown'
    BY <2>1, <2>2 DEF EvtInv, MapKept, ErrorsKept, TearsDown, TearingDown
  <2> QED BY <2>1, <2>3, <2>4, ListeningKept DEF EvtInv
<1>9. CASE UNCHANGED vars
  <2>1. /\ UNCHANGED <<lua, stopped, io, timer, told, map, cancelled, working, con, stdout, readers, onRead, reads, eof>>
    BY <1>9 DEF vars
  <2> QED BY <1>0, <2>1, OtherCallStep, ListeningKept DEF TearingDown
<1>10. CASE Reuse
  <2>1. /\ UNCHANGED <<lua, stopped, io, timer, told, map, cancelled, working, con, readers, onRead, reads, eof>>
        /\ stdout' = "other"
    BY <1>10 DEF Reuse, timerVars
  <2>2. Listening'
    BY <2>1 DEF Listening, ConsoleListens
  <2> QED BY <1>0, <2>1, <2>2, OtherCallStep DEF TearingDown
<1> QED BY <1>3, <1>4, <1>7, <1>8, <1>9, <1>10, TypeStep DEF Next

\* No handler of the io thread meets a module that is gone, timers_ holds the
\* delayed_call of each timer that waits and none that was handled, and only a
\* cancelled timer is told of an error: for any timers, calls and readers, and
\* with the teardown at any moment.
THEOREM TimersStaySafe == Spec => []TimersSafe
<1>1. EvtInv => TimersSafe
  <2> SUFFICES ASSUME EvtInv PROVE TimersSafe
    OBVIOUS
  <2> USE DEF EvtInv
  <2>1. HandlersFindModule
    BY DEF HandlersFindModule, TearsDown
  <2>2. MapHoldsPending
    BY DEF MapHoldsPending, MapKept, TearsDown
  <2>3. ErrorsWereCancelled
    BY DEF ErrorsWereCancelled, ErrorsKept
  <2> QED BY <2>1, <2>2, <2>3 DEF TimersSafe
<1> QED BY <1>1, EvtBegins, EvtStep, PTL DEF Spec

\* A script that subscribed has its reader until it gives the console up, and
\* the reader is read on: over any calls and lines, subscriptions that throw
\* and descriptors that take the console's number.
THEOREM ConsoleKeepsListening == Spec => []ConsoleListens
<1>1. Listening => ConsoleListens
  BY DEF Listening
<1> QED BY <1>1, EvtBegins, EvtStep, PTL DEF Spec

-----------------------------------------------------------------------------
(* The types of the Lua client's threads                                   *)

\* What TypeOK says of the variables that the invariant leaves open.
ThreadsTyped ==
  /\ lua \in {"script", "attached", "call", "deinit", "clear", "stop", "join", "modules", "ended"}
  /\ posts \in Seq(Timers \cup {"post", "line"})
  /\ running \in Timers \cup {"post", "line", "nothing"}
  /\ enabled \in BOOLEAN /\ stopped \subseteq {"tp", "pp"}
  /\ map \subseteq Timers /\ cancelled \subseteq Timers
  /\ readers <= MaxReaders /\ onRead \in BOOLEAN
  /\ lines \in 0..MaxLines /\ eof \subseteq 1..readers /\ crashed \in BOOLEAN

\* push_call appends one of the calls, or nothing.
LEMMA PushedTypes ==
  ASSUME ThreadsTyped, NEW c \in Timers \cup {"post", "line"}, PushCall(c)
  PROVE  posts' \in Seq(Timers \cup {"post", "line"}) /\ enabled' = enabled
BY DEF PushCall, ThreadsTyped

LEMMA CallsTyped == ASSUME Listening, ThreadsTyped, Script PROVE ThreadsTyped'
<1>1. CASE Post
  <2>1. posts' \in Seq(Timers \cup {"post", "line"}) /\ enabled' = enabled
    BY <1>1, PushedTypes DEF Post
  <2> QED BY <1>1, <2>1 DEF Post, ThreadsTyped, timerVars, consoleVars
<1>2. CASE Run \/ Exit
  BY <1>2 DEF Run, Exit, ThreadsTyped, timerVars, consoleVars
<1>3. CASE ConsoleSubscribe
  <2>1. /\ onRead' = TRUE /\ crashed' \in BOOLEAN
        /\ UNCHANGED <<stopped, lines, eof, queueVars, timerVars>>
    BY <1>3 DEF ConsoleSubscribe, Racing, ThreadsTyped
  <2>2. \/ readers' = readers
        \/ readers' = readers + 1 /\ readers < MaxReaders
    BY <1>3 DEF ConsoleSubscribe, SubscribeReads, SubscribeThrows
  <2>3. readers' <= MaxReaders /\ eof' \subseteq 1..readers'
    BY <2>1, <2>2, LuaEventsAssumption DEF Listening, ThreadsTyped
  <2>4. \/ UNCHANGED <<lua, running>>
        \/ lua' \in {"attached", "deinit"} /\ running' = "nothing"
    BY <1>3, ThrowGoes DEF ConsoleSubscribe, SubscribeReads, SubscribeThrows
  <2> QED BY <2>1, <2>3, <2>4 DEF ThreadsTyped, queueVars, timerVars
<1>4. CASE ConsoleUnsubscribe
  <2>1. /\ onRead' = FALSE /\ crashed' \in BOOLEAN
        /\ UNCHANGED <<lua, running, stopped, readers, lines, eof, queueVars, timerVars>>
    BY <1>4 DEF ConsoleUnsubscribe, Racing, ThreadsTyped
  <2> QED BY <2>1 DEF ThreadsTyped, queueVars, timerVars
<1>5. ASSUME NEW t \in Timers, TimerPost(t) \/ TimerCancel(t) PROVE ThreadsTyped'
  <2>1. /\ map' \subseteq Timers /\ cancelled' \subseteq Timers /\ crashed' \in BOOLEAN
        /\ UNCHANGED <<lua, running, stopped, queueVars, consoleVars>>
    BY <1>5 DEF TimerPost, TimerCancel, Racing, ThreadsTyped
  <2> QED BY <2>1 DEF ThreadsTyped, queueVars, consoleVars
<1> QED BY <1>1, <1>2, <1>3, <1>4, <1>5 DEF Script

LEMMA LuaThreadTyped == ASSUME ThreadsTyped, LuaThread PROVE ThreadsTyped'
<1>1. CASE Attached
  <2>1. CASE posts # <<>> /\ lua' = "call" /\ running' = Head(posts) /\ posts' = Tail(posts)
             /\ UNCHANGED <<enabled, consoleVars>>
    <3>1. posts' \in Seq(Timers \cup {"post", "line"}) /\ running' \in Timers \cup {"post", "line"}
      BY <2>1 DEF ThreadsTyped
    <3> QED BY <1>1, <2>1, <3>1 DEF Attached, ThreadsTyped, timerVars, consoleVars
  <2>2. CASE LuaGoes("deinit") /\ UNCHANGED running
    BY <1>1, <2>2 DEF Attached, LuaGoes, ThreadsTyped, queueVars, timerVars, consoleVars
  <2> QED BY <1>1, <2>1, <2>2, Zenon DEF Attached
<1>2. CASE MainReturns \/ MainThrows \/ CallReturns \/ StopPool \/ JoinPool
  BY <1>2 DEF MainReturns, MainThrows, CallReturns, StopPool, JoinPool, LuaGoes,
              ThreadsTyped, queueVars, timerVars, consoleVars
<1>3. CASE Deinit \/ ClearTimers
  BY <1>3 DEF Deinit, ClearTimers, Racing, LuaGoes, ThreadsTyped, queueVars, consoleVars
<1>4. CASE ClearModules
  BY <1>4 DEF ClearModules, ThreadsTyped, queueVars, timerVars
<1> QED BY <1>1, <1>2, <1>3, <1>4 DEF LuaThread

LEMMA IoThreadTyped ==
  ASSUME EvtInv, Listening, ThreadsTyped,
         IoThread \/ Type \/ Reuse \/ \E t \in Timers : Expire(t)
  PROVE  ThreadsTyped'
<1>1. CASE TimerPush
  <2>1. io.of \in Timers
    BY <1>1 DEF TimerPush, EvtInv, IoTyped
  <2>2. posts' \in Seq(Timers \cup {"post", "line"}) /\ enabled' = enabled
    BY <1>1, <2>1, PushedTypes DEF TimerPush
  <2> QED BY <1>1, <2>2 DEF TimerPush, Works, ThreadsTyped, consoleVars
<1>2. CASE TimerErase \/ TimerRelease
  BY <1>2 DEF TimerErase, TimerRelease, Works, Racing, ThreadsTyped, queueVars, timerVars, consoleVars
<1>3. CASE ReaderArm \/ \E r \in reads : ReaderHandler(r)
  BY <1>3 DEF ReaderArm, ReaderHandler, Works, ThreadsTyped, queueVars, timerVars
<1>4. CASE ReaderCall
  <2>1. posts' \in Seq(Timers \cup {"post", "line"}) /\ enabled' = enabled
    <3>1. CASE PushCall("line")
      BY <3>1, PushedTypes
    <3>2. CASE UNCHANGED queueVars
      BY <3>2 DEF queueVars, ThreadsTyped
    <3> QED BY <1>4, <3>1, <3>2 DEF ReaderCall
  <2> QED BY <1>4, <2>1 DEF ReaderCall, Works, ThreadsTyped, timerVars, consoleVars
<1>5. CASE \E t \in Timers : TimerHandler(t) \/ Expire(t)
  BY <1>5 DEF TimerHandler, Expire, Works, ThreadsTyped, queueVars, consoleVars
<1>6. CASE Type
  <2>1. PICK r \in reads, is \in {"read", "error"} :
           eof' = IF is = "error" THEN eof \cup {r.of} ELSE eof
    BY <1>6 DEF Type
  <2>2. r.of \in 1..readers
    BY DEF Listening
  <2>3. eof' \subseteq 1..readers /\ lines' \in 0..MaxLines
    BY <1>6, <2>1, <2>2, LuaEventsAssumption DEF Type, ThreadsTyped
  <2> QED BY <1>6, <2>3 DEF Type, ThreadsTyped, queueVars, timerVars
<1>7. CASE Reuse
  BY <1>7 DEF Reuse, ThreadsTyped, queueVars, timerVars
<1> QED BY <1>1, <1>2, <1>3, <1>4, <1>5, <1>6, <1>7 DEF IoThread, InHandler

\* The variables of the Lua client's threads keep their types: what is posted
\* and run are the calls of its timers, its console and its script, and every
\* read is of a reader that was made.
THEOREM TypeCorrect == Spec => []TypeOK
<1>1. ASSUME Init PROVE ThreadsTyped
  <2>1. <<>> \in Seq(Timers \cup {"post", "line"}) /\ 0 \in 0..MaxLines /\ 0 <= MaxReaders
    BY LuaEventsAssumption
  <2> QED BY <1>1, <2>1 DEF Init, ThreadsTyped
<1>2. ASSUME EvtInv, Listening, ThreadsTyped, [Next]_vars PROVE ThreadsTyped'
  <2>1. CASE UNCHANGED vars
    BY <1>2, <2>1 DEF vars, ThreadsTyped
  <2> QED BY <1>2, <2>1, CallsTyped, LuaThreadTyped, IoThreadTyped DEF Next
<1>3. ASSUME EvtInv, Listening, ThreadsTyped PROVE TypeOK
  <2>1. io.at \in {"idle", "push", "erase", "release", "arm", "call"} /\ working \in BOOLEAN
    BY <1>3 DEF EvtInv, IoTyped, TearsDown
  <2>2. 1..readers \subseteq 1..MaxReaders /\ 0..readers \subseteq 0..MaxReaders /\ readers \in 0..readers
    BY <1>3, LuaEventsAssumption DEF Listening, ThreadsTyped
  <2>3. reads \subseteq [of : 1..MaxReaders, is : {"pending", "read", "error"}]
    BY <1>3, <2>2 DEF Listening
  <2>4. con \in 0..readers /\ eof \subseteq 1..readers
    BY <1>3 DEF Listening, ThreadsTyped
  <2>5. con \in 0..MaxReaders /\ readers \in 0..MaxReaders /\ eof \subseteq 1..MaxReaders
    BY <2>2, <2>4
  <2>6. stdout \in {"console", "closed", "other"}
    BY <1>3 DEF Listening
  <2> QED BY <1>3, <2>1, <2>3, <2>5, <2>6 DEF EvtInv, TimersTyped, ThreadsTyped, TypeOK
<1> QED BY <1>1, <1>2, <1>3, EvtBegins, EvtStep, PTL DEF Spec

-----------------------------------------------------------------------------
(* The Lua console.                                                        *)
(*                                                                         *)
(* Between a call and its answer the main thread holds what it found when  *)
(* the call began (Called): while it waits no object is opened or closed,  *)
(* only the connection may be lost.  The rest is what the two properties   *)
(* say, for all live objects and not only those of the connection.         *)

ConsoleTyped ==
  /\ session \in Nat /\ link \in BOOLEAN
  /\ addr \in [Objs -> Addrs \cup {None}] /\ of \in [Objs -> Nat]
  /\ sub \in [Watched -> Nat] /\ count \in [Watched -> Nat]
  /\ DOMAIN named = Addrs /\ DOMAIN refs = Addrs
  /\ \A o \in Objs : of[o] <= session

\* Two live objects have two addresses.
Apart == \A o, x \in Live : o # x => addr[o] # addr[x]

\* What has been opened; the agent sends events for no other object, and for
\* no registration that was not made.
Opening ==
  /\ Live \subseteq used /\ agent \subseteq used /\ closing \subseteq agent /\ strays \subseteq agent
  /\ \A o \in Watched : (o \notin used => sub[o] = 0) /\ sub[o] <= count[o]

\* The agent has open what is live and was opened over this connection.
OpenedHere ==
  /\ link => agent = {o \in Live : of[o] = session} \cup closing \cup strays
  /\ ~link => agent = {}
  /\ phase = "connect" => ~link
  /\ closing \cap Live = {} /\ strays \cap (Live \cup closing) = {}

Called ==
  /\ phase = "clear" => call.obj \in Live \cap Watched /\ sub[call.obj] = 0
  /\ phase = "call" =>
      /\ call.op = "open" => /\ call.obj \in Objs \ used /\ call.addr \in Addrs
                             /\ \A x \in Live : addr[x] # call.addr
      /\ call.op \in {"use", "register", "unregister"} => call.obj \in Live
      /\ call.op \in {"register", "unregister"} => call.obj \in Watched
      /\ call.op = "register" => /\ named[addr[call.obj]] = <<call.obj, count[call.obj]>>
                                 /\ refs[addr[call.obj]] = <<call.obj, count[call.obj]>>

ConInv == /\ ConsoleTyped /\ Apart /\ Opening /\ OpenedHere /\ Called
          /\ SubscriptionIntact /\ StateOutlivesHandler

LEMMA ConsoleFacts ==
  /\ \A o : o \in Live <=> o \in Objs /\ addr[o] # None
  /\ Watched \subseteq Objs
  /\ Gpios \subseteq Watched /\ Files \subseteq Watched
BY DEF Live, Watched, Objs

\* A step that opens, closes and registers nothing: a call begins with what
\* it found, or the script goes on.
LEMMA ScriptGoesOn ==
  ASSUME ConInv, UNCHANGED <<addr, of, used, agent, sub, closing, strays, count, named, refs, session>>,
         link' = link, phase' # "connect" \/ phase' = phase, Called',
         handler' # None => state'
  PROVE  ConInv'
<1>1. Live' = Live
  BY DEF Live
<1>2. ConsoleTyped' /\ Apart'
  BY <1>1 DEF ConInv, ConsoleTyped, Apart
<1>3. Opening' /\ OpenedHere'
  BY <1>1 DEF ConInv, Opening, OpenedHere
<1>4. SubscriptionIntact' /\ StateOutlivesHandler'
  BY <1>1 DEF ConInv, SubscriptionIntact, StateOutlivesHandler
<1> QED BY <1>2, <1>3, <1>4 DEF ConInv

LEMMA CrashStep == ASSUME ConInv, Crash PROVE ConInv'
<1>1. UNCHANGED <<phase, call, addr, of, used, agent, sub, closing, strays, count, named, refs, session, link,
                  handler, state>>
  BY DEF Crash, connection, objects, remote, registry, events
<1>2. Called'
  BY <1>1 DEF ConInv, Called, Live
<1> QED BY <1>1, <1>2, ScriptGoesOn DEF ConInv, StateOutlivesHandler

\* An open that the agent answered.
LEMMA OpenedStep == ASSUME ConInv, Opened PROVE ConInv'
<1> DEFINE o == call.obj
<1>0. /\ phase = "call" /\ call.op = "open"
      /\ UNCHANGED <<session, link, count, named, refs, sub, handler, state>>
  BY DEF Opened, Left, connection, registry, events, remote
<1>1. /\ o \in Objs \ used /\ call.addr \in Addrs
      /\ \A x \in Live : addr[x] # call.addr
  BY <1>0 DEF ConInv, Called
<1>2. CASE UNCHANGED <<addr, of, used, agent, closing, strays>> /\ (Returns \/ Throws)
  <2>1. phase' \in {"lua", "ending"}
    BY <1>2 DEF Returns, Throws
  <2>2. Called' /\ (handler' # None => state')
    BY <1>0, <2>1 DEF Called, ConInv, StateOutlivesHandler
  <2> QED BY <1>0, <1>2, <2>1, <2>2, ScriptGoesOn
<1>3. CASE /\ link /\ Returns
           /\ addr' = [addr EXCEPT ![o] = call.addr] /\ of' = [of EXCEPT ![o] = session]
           /\ used' = used \cup {o} /\ agent' = agent \cup {o} /\ UNCHANGED <<closing, strays>>
  <2>1. /\ addr'[o] = call.addr /\ of'[o] = session
        /\ \A x \in Objs \ {o} : addr'[x] = addr[x] /\ of'[x] = of[x]
    BY <1>1, <1>3 DEF ConInv, ConsoleTyped
  <2>2. Live' = Live \cup {o} /\ o \notin Live /\ o \notin agent
    BY <1>1, <2>1, ConsoleAssumption DEF Live, ConInv, Opening
  <2>3. phase' = "lua"
    BY <1>3 DEF Returns
  <2>4. ConsoleTyped'
    BY <1>0, <1>1, <1>3 DEF ConInv, ConsoleTyped
  <2>5. Apart'
    BY <1>1, <2>1, <2>2, ConsoleFacts DEF ConInv, Apart
  <2>6. Opening'
    BY <1>0, <1>3, <2>2 DEF ConInv, Opening
  <2>7. OpenedHere'
    <3>1. {x \in Live' : of'[x] = session} = {x \in Live : of[x] = session} \cup {o}
      BY <2>1, <2>2, ConsoleFacts
    <3>2. agent' = {x \in Live' : of'[x] = session} \cup closing \cup strays
      BY <1>3, <3>1 DEF ConInv, OpenedHere
    <3>3. closing \cap Live' = {} /\ strays \cap (Live' \cup closing) = {}
      BY <2>2 DEF ConInv, OpenedHere, Opening
    <3> QED BY <1>0, <1>3, <2>3, <3>2, <3>3 DEF OpenedHere
  <2>8. SubscriptionIntact'
    <3>1. ASSUME NEW x \in Watched, sub[x] # 0, sub[x] = count[x], x \in Live'
          PROVE  named[addr'[x]] = <<x, count[x]>> /\ refs[addr'[x]] = <<x, count[x]>>
      <4>1. x # o
        BY <1>1, <3>1 DEF ConInv, Opening
      <4> QED BY <2>1, <2>2, <3>1, <4>1, ConsoleFacts DEF ConInv, SubscriptionIntact
    <3> QED BY <1>0, <3>1 DEF SubscriptionIntact
  <2>9. Called' /\ StateOutlivesHandler'
    BY <1>0, <2>3 DEF Called, ConInv, StateOutlivesHandler
  <2> QED BY <2>4, <2>5, <2>6, <2>7, <2>8, <2>9 DEF ConInv
<1>4. CASE /\ link /\ (Returns \/ Throws) /\ UNCHANGED <<addr, of>>
           /\ used' = used \cup {o} /\ agent' = agent \cup {o}
           /\ \/ closing' = closing \cup {o} /\ strays' = strays
              \/ closing' = closing /\ strays' = strays \cup {o}
  <2>1. phase' \in {"lua", "ending"} /\ Live' = Live /\ o \notin Live /\ o \notin agent
    BY <1>1, <1>4 DEF Returns, Throws, Live, ConInv, Opening
  <2>2. ConsoleTyped' /\ Apart'
    BY <1>0, <1>4, <2>1 DEF ConInv, ConsoleTyped, Apart
  <2>3. Opening'
    BY <1>0, <1>4, <2>1 DEF ConInv, Opening
  <2>4. OpenedHere'
    <3>1. o \notin closing /\ o \notin strays
      BY <2>1 DEF ConInv, Opening
    <3>2. link' /\ agent' = {x \in Live : of[x] = session} \cup closing' \cup strays'
      BY <1>0, <1>4 DEF ConInv, OpenedHere
    <3>3. closing' \cap Live = {} /\ strays' \cap (Live \cup closing') = {}
      BY <1>4, <2>1, <3>1 DEF ConInv, OpenedHere
    <3> QED BY <1>0, <1>4, <2>1, <3>2, <3>3 DEF OpenedHere
  <2>5. Called' /\ SubscriptionIntact' /\ StateOutlivesHandler'
    BY <1>0, <1>4, <2>1 DEF ConInv, Called, SubscriptionIntact, StateOutlivesHandler
  <2> QED BY <2>2, <2>3, <2>4, <2>5 DEF ConInv
<1> QED
  <2>1. \/ UNCHANGED <<addr, of, used, agent, closing, strays>> /\ (Returns \/ Throws)
        \/ /\ link /\ Returns
           /\ addr' = [addr EXCEPT ![o] = call.addr] /\ of' = [of EXCEPT ![o] = session]
           /\ used' = used \cup {o} /\ agent' = agent \cup {o} /\ UNCHANGED <<closing, strays>>
        \/ /\ link /\ (Returns \/ Throws) /\ UNCHANGED <<addr, of>>
           /\ used' = used \cup {o} /\ agent' = agent \cup {o}
           /\ \/ closing' = closing \cup {o} /\ strays' = strays
              \/ closing' = closing /\ strays' = strays \cup {o}
    <3>1. OpenThrows(o) => Returns \/ Throws
      BY Zenon DEF OpenThrows
    <3> QED BY <3>1, Zenon DEF Opened, Left, objects, remote
  <2> QED BY <1>2, <1>3, <1>4, <2>1

\* A registration takes the names under the object's address, and only those.
LEMMA RegisterStep ==
  ASSUME ConInv, NEW sort \in {Gpios, Files}, NEW a \in Addrs, Register(sort, a)
  PROVE  ConInv'
<1>1. CASE Crash
  BY <1>1, CrashStep
<1>2. CASE ~Crash
  <2>1. PICK o \in Named(sort, a) :
          /\ count[o] < MaxRegs
          /\ named' = [named EXCEPT ![addr[o]] = <<o, count[o] + 1>>]
          /\ refs' = [refs EXCEPT ![addr[o]] = <<o, count[o] + 1>>]
          /\ count' = [count EXCEPT ![o] = @ + 1]
          /\ Begin("register", o, a)
    BY <1>2 DEF Register, CallName
  <2>2. o \in Live /\ o \in Watched /\ addr[o] = a
    BY ConsoleFacts DEF Named
  <2>3. /\ UNCHANGED <<addr, of, used, agent, sub, closing, strays, session, link, handler, state>>
        /\ phase' = "call" /\ call' = [op |-> "register", obj |-> o, addr |-> a]
    BY <2>1 DEF Begin, connection, objects, remote, events
  <2>4. /\ count'[o] = count[o] + 1 /\ \A x \in Watched \ {o} : count'[x] = count[x]
        /\ named'[a] = <<o, count'[o]>> /\ refs'[a] = <<o, count'[o]>>
        /\ \A b \in Addrs \ {a} : named'[b] = named[b] /\ refs'[b] = refs[b]
    BY <2>1, <2>2 DEF ConInv, ConsoleTyped
  <2>5. Live' = Live
    BY <2>3 DEF Live
  <2>6. ConsoleTyped' /\ Apart'
    <3>1. count' \in [Watched -> Nat] /\ DOMAIN named' = Addrs /\ DOMAIN refs' = Addrs
      BY <2>1, <2>2 DEF ConInv, ConsoleTyped
    <3> QED BY <2>3, <2>5, <3>1 DEF ConInv, ConsoleTyped, Apart
  <2>7. Opening' /\ OpenedHere'
    <3>1. \A x \in Watched : sub[x] \in Nat /\ count[x] \in Nat /\ sub[x] <= count[x]
      BY DEF ConInv, ConsoleTyped, Opening
    <3>2. ASSUME NEW x \in Watched PROVE sub[x] <= count'[x]
      <4>1. sub[x] \in Nat /\ count[x] \in Nat /\ sub[x] <= count[x]
        BY <3>1
      <4>2. count'[x] = count[x] + 1 \/ count'[x] = count[x]
        BY <2>4
      <4> QED BY <4>1, <4>2
    <3>3. Opening'
      BY <2>3, <2>5, <3>2 DEF ConInv, Opening
    <3>4. OpenedHere'
      BY <2>3, <2>5 DEF ConInv, OpenedHere
    <3> QED BY <3>3, <3>4
  <2>8. SubscriptionIntact'
    <3>1. ASSUME NEW x \in Watched, sub[x] # 0, sub[x] = count'[x], x \in Live
          PROVE  named'[addr[x]] = <<x, count'[x]>> /\ refs'[addr[x]] = <<x, count'[x]>>
      <4>1. x # o
        <5>1. sub[o] \in Nat /\ count[o] \in Nat /\ sub[o] <= count[o]
          BY <2>2 DEF ConInv, ConsoleTyped, Opening
        <5> QED BY <2>4, <3>1, <5>1
      <4>2. count'[x] = count[x] /\ addr[x] \in Addrs \ {a}
        BY <2>2, <2>4, <3>1, <4>1, ConsoleFacts DEF ConInv, ConsoleTyped, Apart
      <4> QED BY <2>4, <3>1, <4>2 DEF ConInv, SubscriptionIntact
    <3> QED BY <2>3, <2>5, <3>1 DEF SubscriptionIntact
  <2>9. Called' /\ StateOutlivesHandler'
    BY <2>2, <2>3, <2>4, <2>5 DEF Called, ConInv, StateOutlivesHandler
  <2> QED BY <2>6, <2>7, <2>8, <2>9 DEF ConInv
<1> QED BY <1>1, <1>2

\* The answer to a call on an object.
LEMMA AnsweredStep == ASSUME ConInv, Answered PROVE ConInv'
<1> DEFINE o == call.obj
<1>0. /\ phase = "call" /\ call.op \in {"use", "register", "unregister"}
      /\ UNCHANGED <<session, link, addr, of, used, agent, closing, strays, count, named, refs,
                     handler, state>>
  BY DEF Answered, connection, objects, events, registry
<1>1. /\ o \in Live /\ Live' = Live
      /\ call.op \in {"register", "unregister"} => o \in Watched
  BY <1>0 DEF ConInv, Called, Live
<1>2. /\ \/ phase' \in {"lua", "ending", "store"}
         \/ phase' = "clear" /\ call.op = "unregister" /\ Told(o) /\ UNCHANGED call
      /\ Told(o) \/ UNCHANGED sub
  BY DEF Answered, Throws, Returns
<1>3. CASE UNCHANGED sub /\ phase' # "clear"
  <2>1. Called'
    BY <1>2, <1>3 DEF Called
  <2> QED BY <1>0, <1>2, <1>3, <2>1, ScriptGoesOn DEF ConInv, StateOutlivesHandler
<1>4. CASE Told(o)
  <2>1. /\ o \in Watched /\ o \in used
        /\ sub' = [sub EXCEPT ![o] = IF call.op = "register" THEN count[o] ELSE 0]
    BY <1>0, <1>1, <1>4 DEF Told, ConInv, Opening
  <2>2. /\ sub'[o] = IF call.op = "register" THEN count[o] ELSE 0
        /\ \A x \in Watched \ {o} : sub'[x] = sub[x]
        /\ count[o] \in Nat
    BY <2>1 DEF ConInv, ConsoleTyped
  <2>3. ConsoleTyped' /\ Apart'
    BY <1>0, <1>1, <2>1, <2>2 DEF ConInv, ConsoleTyped, Apart
  <2>4. Opening'
    <3>1. \A x \in Watched : (x \notin used => sub'[x] = 0) /\ sub'[x] <= count[x]
      BY <2>1, <2>2 DEF ConInv, Opening
    <3> QED BY <1>0, <1>1, <3>1 DEF ConInv, Opening
  <2>5. OpenedHere'
    BY <1>0, <1>1, <1>2 DEF ConInv, OpenedHere
  <2>6. SubscriptionIntact'
    <3>1. call.op = "register" => named[addr[o]] = <<o, count[o]>> /\ refs[addr[o]] = <<o, count[o]>>
      BY <1>0 DEF ConInv, Called
    <3>2. \A x \in Watched : sub'[x] # 0 /\ sub'[x] = count[x] /\ x \in Live
                                 => named[addr[x]] = <<x, count[x]>> /\ refs[addr[x]] = <<x, count[x]>>
      BY <2>2, <3>1 DEF ConInv, SubscriptionIntact
    <3> QED BY <1>0, <1>1, <3>2 DEF SubscriptionIntact
  <2>7. Called' /\ StateOutlivesHandler'
    BY <1>0, <1>1, <1>2, <2>1, <2>2 DEF Called, ConInv, StateOutlivesHandler
  <2> QED BY <2>3, <2>4, <2>5, <2>6, <2>7 DEF ConInv
<1> QED BY <1>2, <1>3, <1>4

\* The names of a registration that the agent has dropped go.
LEMMA ClearedStep == ASSUME ConInv, Cleared PROVE ConInv'
<1> DEFINE o == call.obj
<1>1. /\ phase = "clear" /\ phase' = "lua"
      /\ UNCHANGED <<session, link, addr, of, used, agent, sub, closing, strays, count, handler, state>>
      /\ named' = [named EXCEPT ![addr[o]] = None] /\ refs' = [refs EXCEPT ![addr[o]] = None]
  BY DEF Cleared, Returns, CallName, connection, objects, remote, events
<1>2. o \in Live /\ o \in Watched /\ sub[o] = 0 /\ Live' = Live
  BY <1>1 DEF ConInv, Called, Live
<1>3. ConsoleTyped' /\ Apart'
  BY <1>1, <1>2 DEF ConInv, ConsoleTyped, Apart
<1>4. Opening' /\ OpenedHere'
  BY <1>1, <1>2 DEF ConInv, Opening, OpenedHere
<1>5. SubscriptionIntact'
  <2>1. ASSUME NEW x \in Watched, sub[x] # 0, sub[x] = count[x], x \in Live
        PROVE  named'[addr[x]] = <<x, count[x]>> /\ refs'[addr[x]] = <<x, count[x]>>
    <3>1. x # o
      BY <1>2, <2>1
    <3>2. addr[x] # addr[o]
      BY <1>2, <2>1, <3>1 DEF ConInv, Apart
    <3>3. addr[x] \in Addrs
      BY <2>1, ConsoleFacts DEF ConInv, ConsoleTyped
    <3>4. named'[addr[x]] = named[addr[x]] /\ refs'[addr[x]] = refs[addr[x]]
      BY <1>1, <3>2, <3>3 DEF ConInv, ConsoleTyped
    <3> QED BY <2>1, <3>4 DEF ConInv, SubscriptionIntact
  <2> QED BY <1>1, <1>2, <2>1 DEF SubscriptionIntact
<1>6. Called' /\ StateOutlivesHandler'
  BY <1>1 DEF Called, ConInv, StateOutlivesHandler
<1> QED BY <1>3, <1>4, <1>5, <1>6 DEF ConInv

\* Objects that are destroyed: the agent still has them until the close comes.
LEMMA DestroyedStep ==
  ASSUME ConInv, NEW gone, gone \subseteq Live, Destroyed(gone),
         UNCHANGED <<session, link, count, named, refs, handler>>,
         phase' \in {"lua", "stopped"}, handler' # None => state'
  PROVE  ConInv'
<1>1. /\ addr' = [o \in Objs |-> IF o \in gone THEN None ELSE addr[o]]
      /\ closing' = closing \cup {o \in gone : Reaches(o)}
      /\ UNCHANGED <<of, used, agent, sub, strays>>
  BY DEF Destroyed
<1>2. Live' = Live \ gone
  BY <1>1 DEF Live
<1>3. \A o \in Live' : addr'[o] = addr[o]
  BY <1>1, <1>2, ConsoleFacts
<1>4. ConsoleTyped' /\ Apart'
  BY <1>1, <1>2, <1>3 DEF ConInv, ConsoleTyped, Apart
<1>5. \A o \in gone : Reaches(o) => o \in agent
  BY DEF ConInv, OpenedHere, Reaches
<1>6. Opening'
  BY <1>1, <1>2, <1>5 DEF ConInv, Opening
<1>7. OpenedHere'
  <2>1. link => agent = {o \in Live' : of[o] = session} \cup closing' \cup strays
    BY <1>1, <1>2, <1>5 DEF ConInv, OpenedHere, Reaches
  <2>2. closing' \cap Live' = {} /\ strays \cap (Live' \cup closing') = {}
    BY <1>1, <1>2 DEF ConInv, OpenedHere
  <2> QED BY <1>1, <2>1, <2>2 DEF ConInv, OpenedHere
<1>8. SubscriptionIntact'
  BY <1>1, <1>2, <1>3 DEF ConInv, SubscriptionIntact
<1>9. Called' /\ StateOutlivesHandler'
  BY DEF Called, StateOutlivesHandler
<1> QED BY <1>4, <1>6, <1>7, <1>8, <1>9 DEF ConInv

\* The connection is lost or left: the agent drops everything.
LEMMA ConnectionDropped ==
  ASSUME ConInv, Dropped, link' = FALSE,
         UNCHANGED <<addr, of, used, count, named, session, handler, state>>,
         refs' = refs \/ (phase' # "call" /\ DOMAIN refs' = Addrs),
         phase' \notin {"call", "clear"} \/ UNCHANGED <<phase, call>>
  PROVE  ConInv'
<1>1. agent' = {} /\ closing' = {} /\ strays' = {} /\ sub' = [o \in Watched |-> 0] /\ Live' = Live
  BY DEF Dropped, Live
<1>2. ConsoleTyped' /\ Apart'
  BY <1>1 DEF ConInv, ConsoleTyped, Apart
<1>3. Opening'
  <2>1. \A o \in Watched : sub'[o] = 0 /\ count[o] \in Nat
    BY <1>1 DEF ConInv, ConsoleTyped
  <2>2. \A o \in Watched : sub'[o] <= count[o]
    BY <2>1
  <2> QED BY <1>1, <2>1, <2>2 DEF ConInv, Opening
<1>4. OpenedHere'
  BY <1>1 DEF OpenedHere
<1>5. SubscriptionIntact' /\ StateOutlivesHandler'
  BY <1>1 DEF ConInv, SubscriptionIntact, StateOutlivesHandler
<1>6. Called'
  BY <1>1 DEF ConInv, Called
<1> QED BY <1>2, <1>3, <1>4, <1>5, <1>6 DEF ConInv

\* A connection without fr.client: what is left of the script's objects is older.
LEMMA InitThrowsStep == ASSUME ConInv, InitThrows PROVE ConInv'
<1>1. /\ phase = "connect" /\ phase' = "lua" /\ link' = TRUE /\ session' = session + 1
      /\ UNCHANGED <<addr, of, used, agent, sub, closing, strays, count, named, refs, handler, state>>
  BY DEF InitThrows, objects, remote, registry, events
<1>2. Live' = Live /\ agent = {} /\ closing = {} /\ strays = {}
  BY <1>1 DEF ConInv, OpenedHere, Opening, Live
<1>3. session \in Nat /\ \A o \in Live : of[o] \in Nat /\ of[o] <= session
  BY DEF ConInv, ConsoleTyped, Live
<1>4. \A o \in Live : of[o] # session + 1
  BY <1>3
<1>5. ConsoleTyped' /\ Apart'
  BY <1>1, <1>2 DEF ConInv, ConsoleTyped, Apart
<1>6. Opening' /\ OpenedHere'
  BY <1>1, <1>2, <1>4 DEF ConInv, Opening, OpenedHere
<1>7. Called' /\ SubscriptionIntact' /\ StateOutlivesHandler'
  BY <1>1, <1>2 DEF ConInv, Called, SubscriptionIntact, StateOutlivesHandler
<1> QED BY <1>5, <1>6, <1>7 DEF ConInv

LEMMA ConnectedStep == ASSUME ConInv, Connected PROVE ConInv'
<1>1. /\ phase = "connect" /\ phase' = "lua" /\ link' = TRUE /\ session' = session + 1
      /\ addr' = [o \in Objs |-> None]
      /\ UNCHANGED <<of, used, agent, sub, closing, strays, count, named, refs, handler, state>>
  BY DEF Connected, remote, registry, events
<1>2. Live' = {} /\ agent = {} /\ closing = {} /\ strays = {}
  BY <1>1 DEF ConInv, OpenedHere, Opening, Live
<1>3. ConsoleTyped' /\ Apart'
  BY <1>1, <1>2 DEF ConInv, ConsoleTyped, Apart
<1>4. Opening' /\ OpenedHere'
  BY <1>1, <1>2 DEF ConInv, Opening, OpenedHere
<1>5. Called' /\ SubscriptionIntact' /\ StateOutlivesHandler'
  BY <1>1, <1>2 DEF ConInv, Called, SubscriptionIntact, StateOutlivesHandler
<1> QED BY <1>3, <1>4, <1>5 DEF ConInv

LEMMA CloseArrivesStep == ASSUME ConInv, NEW o \in Objs, CloseArrives(o) PROVE ConInv'
<1>1. /\ o \in closing /\ closing' = closing \ {o} /\ agent' = agent \ {o}
      /\ sub' = [x \in Watched |-> IF x = o THEN 0 ELSE sub[x]]
      /\ UNCHANGED <<phase, call, session, link, addr, of, used, strays, count, named, refs, handler, state>>
  BY DEF CloseArrives, connection, objects, registry, events
<1>2. Live' = Live /\ o \notin Live
  BY <1>1 DEF ConInv, OpenedHere, Live
<1>3. \A x \in Watched : sub'[x] = 0 \/ sub'[x] = sub[x]
  BY <1>1
<1>4. ConsoleTyped' /\ Apart'
  BY <1>1, <1>2 DEF ConInv, ConsoleTyped, Apart
<1>5. Opening'
  <2>1. \A x \in Watched : sub'[x] <= count[x]
    <3>1. ASSUME NEW x \in Watched PROVE sub'[x] <= count[x]
      <4>1. count[x] \in Nat /\ sub[x] <= count[x]
        BY DEF ConInv, ConsoleTyped, Opening
      <4>2. sub'[x] = 0 \/ sub'[x] = sub[x]
        BY <1>3
      <4> QED BY <4>1, <4>2
    <3> QED BY <3>1
  <2>2. strays' \subseteq agent'
    BY <1>1 DEF ConInv, Opening, OpenedHere
  <2> QED BY <1>1, <1>2, <1>3, <2>1, <2>2 DEF ConInv, Opening
<1>6. OpenedHere'
  BY <1>1, <1>2 DEF ConInv, OpenedHere
<1>7. Called' /\ SubscriptionIntact' /\ StateOutlivesHandler'
  BY <1>1, <1>2, <1>3 DEF ConInv, Called, SubscriptionIntact, StateOutlivesHandler
<1> QED BY <1>4, <1>5, <1>6, <1>7 DEF ConInv

\* The handlers: no handler begins when the state is gone.
LEMMA HandlersStep == ASSUME ConInv, Rpc \/ \E o \in Watched : Event(o) PROVE ConInv'
<1>1. UNCHANGED <<phase, call, session, link, addr, of, used, agent, sub, closing, strays, count, named, refs>>
  BY DEF Rpc, HandlerBegins, HandlerUses, Race, HandlerEnds, Crash, Event,
         connection, objects, remote, registry
<1>2. handler' # None => state'
  BY DEF ConInv, StateOutlivesHandler, Rpc, HandlerBegins, HandlerUses, Race, HandlerEnds,
         Crash, Event, events
<1>3. Called'
  BY <1>1 DEF ConInv, Called, Live
<1> QED BY <1>1, <1>2, <1>3, ScriptGoesOn

\* The steps of the script that change no object.
LEMMA ScriptCalls ==
  ASSUME ConInv, NEW a \in Addrs,
         \/ GpioExport(a) \/ FileOpen(a) \/ IterBegin(a) \/ BusOpen(a)
         \/ GpioCall(a) \/ FileCall(a) \/ IterCall(a) \/ BusRead(a) \/ BusWrite(a)
         \/ GpioUnregister(a) \/ FileUnregister(a)
  PROVE  ConInv'
<1>1. CASE Crash
  BY <1>1, CrashStep
<1>2. CASE ~Crash /\ \E o \in Objs : Open(o, a)
  <2>1. PICK o \in Objs : Open(o, a) /\ ~Crash
    BY <1>2
  <2>2. /\ o \notin used /\ \A x \in Live : addr[x] # a
        /\ phase' = "call" /\ call' = [op |-> "open", obj |-> o, addr |-> a]
        /\ UNCHANGED <<addr, of, used, agent, sub, closing, strays, count, named, refs, session, link, handler, state>>
    BY <2>1 DEF Open, Begin, connection, objects, remote, events, registry
  <2>3. Called'
    BY <2>2 DEF Called, Live
  <2> QED BY <2>2, <2>3, ScriptGoesOn DEF ConInv, StateOutlivesHandler
<1>3. ASSUME NEW op \in {"use", "unregister"}, NEW sort, NEW o \in Named(sort, a), Begin(op, o, a),
             UNCHANGED registry, op = "unregister" => sort \in {Gpios, Files}
      PROVE  ConInv'
  <2>1. o \in Live /\ (op = "unregister" => o \in Watched)
    BY <1>3, ConsoleFacts DEF Named
  <2>2. /\ phase' = "call" /\ call' = [op |-> op, obj |-> o, addr |-> a]
        /\ UNCHANGED <<addr, of, used, agent, sub, closing, strays, count, named, refs, session, link, handler, state>>
    BY <1>3 DEF Begin, connection, objects, remote, events, registry
  <2>3. Called'
    BY <2>1, <2>2 DEF Called, Live
  <2> QED BY <2>2, <2>3, ScriptGoesOn DEF ConInv, StateOutlivesHandler
<1>4. CASE \E sort : Use(sort, a)
  BY <1>1, <1>3, <1>4 DEF Use
<1>5. CASE \E sort \in {Gpios, Files} : Unregister(sort, a)
  BY <1>1, <1>3, <1>5 DEF Unregister
<1> QED
  <2>1. CASE GpioExport(a) \/ FileOpen(a) \/ IterBegin(a) \/ BusOpen(a)
    BY <1>1, <1>2, <2>1 DEF GpioExport, FileOpen, IterBegin, BusOpen, Objs
  <2>2. CASE GpioCall(a) \/ FileCall(a) \/ IterCall(a) \/ BusRead(a) \/ BusWrite(a)
    BY <1>4, <2>2 DEF GpioCall, FileCall, IterCall, BusRead, BusWrite
  <2>3. CASE GpioUnregister(a) \/ FileUnregister(a)
    BY <1>5, <2>3 DEF GpioUnregister, FileUnregister
  <2> QED BY <2>1, <2>2, <2>3

LEMMA ScriptStep == ASSUME ConInv, ConsoleScript PROVE ConInv'
<1>1. CASE \E a \in Addrs : GpioRegister(a) \/ FileRegister(a)
  BY <1>1, RegisterStep DEF GpioRegister, FileRegister
<1>2. ASSUME NEW a \in Addrs, Close(a) PROVE ConInv'
  <2>1. CASE Crash
    BY <2>1, CrashStep
  <2>2. CASE ~Crash
    <3>1. /\ Destroyed({o \in Live : addr[o] = a}) /\ phase = "lua"
          /\ UNCHANGED <<phase, session, link, count, named, refs, handler, state>>
      BY <1>2, <2>2 DEF Close, ScriptRuns, connection, registry, events
    <3> QED BY <3>1, DestroyedStep DEF ConInv, StateOutlivesHandler
  <2> QED BY <2>1, <2>2
<1>3. CASE ~Crash /\ (PathCall \/ Sleep \/ ScriptEnds)
  <2>1. /\ UNCHANGED <<addr, of, used, agent, sub, closing, strays, count, named, refs, session, link, handler, state>>
        /\ \/ phase' = "call" /\ call'.op = "path"
           \/ phase' \in {"lua", "sleep", "ending"}
    BY <1>3 DEF PathCall, Begin, Sleep, ScriptEnds, ScriptRuns,
                connection, objects, remote, registry, events
  <2>2. Called'
    BY <2>1 DEF Called
  <2> QED BY <2>1, <2>2, ScriptGoesOn DEF ConInv, StateOutlivesHandler
<1>4. CASE Disconnect
  <2>1. /\ phase' \in {"lua", "connect"} /\ link' = FALSE /\ Dropped
        /\ refs' = [a \in Addrs |-> None]
        /\ UNCHANGED <<addr, of, used, count, named, session, handler, state>>
    BY <1>4 DEF Disconnect, objects, events
  <2> QED BY <2>1, ConnectionDropped
<1> QED BY <1>1, <1>2, <1>3, <1>4, ScriptCalls, CrashStep DEF ConsoleScript

LEMMA MainStep == ASSUME ConInv, Main PROVE ConInv'
<1>1. CASE PathAnswered \/ Stored \/ ConnectFails
  <2>1. /\ UNCHANGED <<addr, of, used, agent, sub, closing, strays, count, named, refs, session, link, handler, state>>
        /\ phase' \in {"lua", "ending"}
    BY <1>1 DEF PathAnswered, Stored, ConnectFails, Returns, Throws,
                connection, objects, remote, registry, events
  <2>2. Called'
    BY <2>1 DEF Called
  <2> QED BY <2>1, <2>2, ScriptGoesOn DEF ConInv, StateOutlivesHandler
<1>2. CASE Ending
  <2>1. /\ Destroyed(Live) /\ phase' = "stopped" /\ state' = (state /\ handler # None)
        /\ UNCHANGED <<session, link, count, named, refs, handler>>
    BY <1>2 DEF Ending, Released, connection, registry
  <2>2. handler' # None => state'
    BY <2>1 DEF ConInv, StateOutlivesHandler
  <2> QED BY <2>1, <2>2, DestroyedStep
<1> QED BY <1>1, <1>2, OpenedStep, AnsweredStep, ClearedStep, ConnectedStep, InitThrowsStep DEF Main

LEMMA ConStep == ASSUME ConInv, [ConsoleNext]_(scriptVars) PROVE ConInv'
<1>1. CASE Lose
  <2>1. /\ link' = FALSE /\ Dropped
        /\ UNCHANGED <<phase, call, addr, of, used, count, named, refs, session, handler, state>>
    BY <1>1 DEF Lose, objects, registry, events
  <2> QED BY <2>1, ConnectionDropped
<1>2. CASE UNCHANGED scriptVars
  <2>1. UNCHANGED <<phase, call, addr, of, used, agent, sub, closing, strays, count, named, refs, session, link,
                    handler, state>>
    BY <1>2 DEF scriptVars
  <2>2. Called'
    BY <2>1 DEF ConInv, Called, Live
  <2> QED BY <2>1, <2>2, ScriptGoesOn DEF ConInv, StateOutlivesHandler
<1> QED BY <1>1, <1>2, ScriptStep, MainStep, HandlersStep, CloseArrivesStep DEF ConsoleNext

LEMMA ConBegins == ConsoleInit => ConInv
<1> SUFFICES ASSUME ConsoleInit PROVE ConInv
  OBVIOUS
<1>1. /\ phase = "lua" /\ link = TRUE /\ session = 1 /\ addr = [o \in Objs |-> None]
      /\ of = [o \in Objs |-> 0] /\ agent = {} /\ closing = {} /\ strays = {} /\ sub = [o \in Watched |-> 0]
      /\ count = [o \in Watched |-> 0] /\ DOMAIN named = Addrs /\ DOMAIN refs = Addrs /\ handler = None
  BY DEF ConsoleInit
<1>2. Live = {}
  BY <1>1 DEF Live
<1>3. ConsoleTyped /\ Apart /\ Opening
  BY <1>1, <1>2 DEF ConsoleTyped, Apart, Opening
<1>4. OpenedHere /\ Called
  BY <1>1, <1>2 DEF OpenedHere, Called
<1>5. SubscriptionIntact /\ StateOutlivesHandler
  BY <1>1, <1>2 DEF SubscriptionIntact, StateOutlivesHandler
<1> QED BY <1>3, <1>4, <1>5 DEF ConInv

LEMMA ConInvariant == ConsoleSpec => []ConInv
BY ConBegins, ConStep, PTL DEF ConsoleSpec

\* The agent has open what the script's live objects stand for and what is
\* about to be closed, and an address names one object: the tables of
\* lua-gpio.cpp, lua-fs.cpp and lua-i2c.cpp over any sequence of connections.
THEOREM ConsoleStaysAgreed == ConsoleSpec => []ConsoleAgrees
<1>1. ConInv => ConsoleAgrees
  BY DEF ConInv, OpenedHere, Apart, ConsoleAgrees
<1> QED BY <1>1, ConInvariant, PTL

\* The function and the thread of the last registration of an object are its
\* own while the agent sends its events, and no handler runs in a Lua state
\* that was closed: register_event and unregister_event of lua-gpio.cpp and
\* lua-fs.cpp.
THEOREM HandlersKeepTheirs == ConsoleSpec => []HandlersFindTheirs
<1>1. ConInv => HandlersFindTheirs
  BY DEF ConInv, HandlersFindTheirs
<1> QED BY <1>1, ConInvariant, PTL

-----------------------------------------------------------------------------
(* The types of the console                                                *)

\* A registration that is not stored yet is one that was made, and what connects has no
\* fr.client.
MidCall ==
  /\ phase = "store" \/ (phase = "call" /\ call.op = "register")
        => call.obj \in Watched /\ count[call.obj] \in 1..MaxRegs
  /\ phase = "connect" => table = 0

LEMMA EntrySet ==
  ASSUME NEW S, NEW T, NEW f \in [S -> T], NEW x, NEW v \in T
  PROVE  [f EXCEPT ![x] = v] \in [S -> T]
OBVIOUS

\* What the types of the script's calls need.
LEMMA BeginTypes ==
  ASSUME ConsoleTypeOK, NEW op, NEW o, NEW a, Begin(op, o, a), UNCHANGED registry, op # "register"
  PROVE  ConsoleTypeOK' /\ MidCall'
BY DEF Begin, ConsoleTypeOK, MidCall, connection, objects, remote, events, registry

LEMMA CrashTypes ==
  ASSUME ConsoleTypeOK, MidCall, Crash PROVE ConsoleTypeOK' /\ MidCall'
BY DEF Crash, ConsoleTypeOK, MidCall, connection, objects, remote, events, registry

LEMMA RegisterTypes ==
  ASSUME ConsoleTypeOK, MidCall, NEW sort \in {Gpios, Files}, NEW a, Register(sort, a)
  PROVE  ConsoleTypeOK' /\ MidCall'
<1>1. ASSUME NEW o \in Named(sort, a), count[o] < MaxRegs, Begin("register", o, a),
             named' = [named EXCEPT ![CallName(o)] = <<o, count[o] + 1>>],
             refs' = [refs EXCEPT ![CallName(o)] = <<o, count[o] + 1>>],
             count' = [count EXCEPT ![o] = @ + 1], UNCHANGED acb
      PROVE  ConsoleTypeOK' /\ MidCall'
  <2>1. o \in Watched
    BY <1>1 DEF Named, Watched
  <2>2. count[o] + 1 \in 1..MaxRegs
    BY <1>1, <2>1, ConsoleAssumption DEF ConsoleTypeOK
  <2>3. <<o, count[o] + 1>> \in Regs
    BY <2>1, <2>2 DEF Regs
  <2>4. /\ named' \in [Addrs -> Regs \cup {None}] /\ refs' \in [Addrs -> Regs \cup {None}]
        /\ count' \in [Watched -> 0..MaxRegs] /\ count'[o] \in 1..MaxRegs
    <3>1. named \in [Addrs -> Regs \cup {None}] /\ refs \in [Addrs -> Regs \cup {None}]
      BY DEF ConsoleTypeOK
    <3>2. named' \in [Addrs -> Regs \cup {None}] /\ refs' \in [Addrs -> Regs \cup {None}]
      BY <1>1, <2>3, <3>1, EntrySet
    <3>3. count' \in [Watched -> 0..MaxRegs] /\ count'[o] \in 1..MaxRegs
      BY <1>1, <2>1, <2>2, ConsoleAssumption DEF ConsoleTypeOK
    <3> QED BY <3>2, <3>3
  <2> QED BY <1>1, <2>1, <2>4 DEF Begin, ConsoleTypeOK, MidCall, connection, objects, remote, events
<1> QED BY <1>1, CrashTypes, Zenon DEF Register

LEMMA ScriptTypes ==
  ASSUME ConsoleTypeOK, MidCall, ConsoleScript, ConInv' PROVE ConsoleTypeOK' /\ MidCall'
<1>1. ASSUME NEW o, NEW a, Open(o, a) PROVE ConsoleTypeOK' /\ MidCall'
  BY <1>1, BeginTypes, CrashTypes DEF Open
<1>2. ASSUME NEW sort, NEW a, Use(sort, a) PROVE ConsoleTypeOK' /\ MidCall'
  BY <1>2, BeginTypes, CrashTypes DEF Use
<1>3. ASSUME NEW sort, NEW a, Unregister(sort, a) PROVE ConsoleTypeOK' /\ MidCall'
  BY <1>3, BeginTypes, CrashTypes DEF Unregister
<1>4. ASSUME NEW a, Close(a) PROVE ConsoleTypeOK' /\ MidCall'
  <2>1. CASE ~Crash
    <3>1. /\ addr' \in [Objs -> Addrs \cup {None}] /\ UNCHANGED <<of, used, given, agent, sub, strays>>
          /\ closing' \subseteq agent'
      BY <1>4, <2>1 DEF Close, Destroyed, ConsoleTypeOK, ConInv, Opening
    <3> QED BY <1>4, <2>1, <3>1 DEF Close, ConsoleTypeOK, MidCall, connection, registry, events
  <2> QED BY <2>1, CrashTypes
<1>5. CASE PathCall
  BY <1>5, BeginTypes, CrashTypes DEF PathCall
<1>6. CASE Sleep \/ ScriptEnds
  BY <1>6 DEF Sleep, ScriptEnds, ScriptRuns, ConsoleTypeOK, MidCall,
              connection, objects, remote, registry, events
<1>7. CASE Disconnect
  <2>1. /\ agent' = {} /\ closing' = {} /\ strays' = {} /\ sub' \in [Watched -> 0..MaxRegs]
        /\ refs' \in [Addrs -> Regs \cup {None}] /\ phase' \in {"lua", "connect"}
    BY <1>7, ConsoleAssumption DEF Disconnect, Dropped
  <2> QED BY <1>7, <2>1 DEF Disconnect, ConsoleTypeOK, MidCall, objects, events
<1>8. CASE \E a \in Addrs : GpioRegister(a) \/ FileRegister(a)
  BY <1>8, RegisterTypes DEF GpioRegister, FileRegister
<1>9. CASE \E a \in Addrs : GpioExport(a) \/ FileOpen(a) \/ IterBegin(a) \/ BusOpen(a)
  BY <1>1, <1>9 DEF GpioExport, FileOpen, IterBegin, BusOpen
<1>10. CASE \E a \in Addrs : GpioCall(a) \/ FileCall(a) \/ IterCall(a) \/ BusRead(a) \/ BusWrite(a)
  BY <1>2, <1>10 DEF GpioCall, FileCall, IterCall, BusRead, BusWrite
<1>11. CASE \E a \in Addrs : GpioUnregister(a) \/ FileUnregister(a)
  BY <1>3, <1>11 DEF GpioUnregister, FileUnregister
<1> QED BY <1>4, <1>5, <1>6, <1>7, <1>8, <1>9, <1>10, <1>11 DEF ConsoleScript

LEMMA MainTypes ==
  ASSUME ConInv, ConsoleTypeOK, MidCall, Main, ConInv' PROVE ConsoleTypeOK' /\ MidCall'
<1>1. CASE Opened
  <2>1. call.obj \in Objs /\ call.addr \in Addrs
    BY <1>1 DEF Opened, ConInv, Called
  <2>2. CASE UNCHANGED <<objects, remote>> /\ phase' \in {"lua", "ending"}
    BY <1>1, <2>2 DEF Opened, ConsoleTypeOK, MidCall, connection, objects, remote, registry, events
  <2>3. CASE /\ phase' = "lua"
             /\ addr' = [addr EXCEPT ![call.obj] = call.addr] /\ of' = [of EXCEPT ![call.obj] = session]
             /\ used' = used \cup {call.obj} /\ given' = given \cup {call.addr}
             /\ agent' = agent \cup {call.obj} /\ UNCHANGED <<sub, closing, strays>>
    BY <1>1, <2>1, <2>3 DEF Opened, ConsoleTypeOK, MidCall, connection, registry, events
  <2>4. CASE /\ phase' \in {"lua", "ending"} /\ UNCHANGED <<addr, of, given, sub>>
             /\ used' = used \cup {call.obj} /\ agent' = agent \cup {call.obj}
             /\ \/ closing' = closing \cup {call.obj} /\ UNCHANGED strays
                \/ strays' = strays \cup {call.obj} /\ UNCHANGED closing
    BY <1>1, <2>1, <2>4 DEF Opened, ConsoleTypeOK, MidCall, connection, registry, events
  <2> QED
    <3>1. OpenThrows(call.obj) => phase' \in {"lua", "ending"}
      BY DEF OpenThrows, Returns, Throws
    <3>2. UNCHANGED <<used, remote>> /\ UNCHANGED <<addr, of, given>> => UNCHANGED <<objects, remote>>
      BY DEF objects
    <3> QED BY <1>1, <2>2, <2>3, <2>4, <3>1, <3>2, Zenon DEF Opened, Left, Returns
<1>2. CASE Answered
  <2>1. /\ phase = "call" /\ phase' \in {"lua", "ending", "store", "clear"}
        /\ phase' = "store" => call.op = "register" /\ UNCHANGED call
        /\ call.op \in {"use", "register", "unregister"}
        /\ Told(call.obj) \/ UNCHANGED sub
        /\ UNCHANGED <<connection, objects, registry, events, broken, agent, closing, strays>>
    BY <1>2 DEF Answered, Throws, Returns
  <2>2. call.op = "register" => call.obj \in Watched /\ count[call.obj] \in 1..MaxRegs
    BY <2>1 DEF MidCall
  <2>3. MidCall'
    BY <2>1, <2>2 DEF MidCall, registry
  <2>4. sub' \in [Watched -> 0..MaxRegs]
    <3>1. 0 \in 0..MaxRegs /\ \A n \in 1..MaxRegs : n \in 0..MaxRegs
      BY ConsoleAssumption
    <3> QED BY <2>1, <2>2, <3>1, EntrySet DEF Told, ConsoleTypeOK
  <2> QED BY <2>1, <2>3, <2>4 DEF ConsoleTypeOK, connection, objects, registry, events
<1>7. CASE Cleared
  <2>1. /\ named \in [Addrs -> Regs \cup {None}] /\ refs \in [Addrs -> Regs \cup {None}]
    BY DEF ConsoleTypeOK
  <2>2. /\ named' \in [Addrs -> Regs \cup {None}] /\ refs' \in [Addrs -> Regs \cup {None}]
    BY <1>7, <2>1, EntrySet DEF Cleared
  <2> QED BY <1>7, <2>2 DEF Cleared, Returns, ConsoleTypeOK, MidCall,
                            connection, objects, remote, events
<1>8. CASE InitThrows
  <2>1. session' \in 0..MaxSessions
    BY <1>8, ConsoleAssumption DEF InitThrows, ConsoleTypeOK
  <2>2. table = 0
    BY <1>8 DEF InitThrows, MidCall
  <2> QED BY <1>8, <2>1, <2>2 DEF InitThrows, ConsoleTypeOK, MidCall, objects, remote, registry, events
<1>3. CASE PathAnswered \/ ConnectFails
  BY <1>3 DEF PathAnswered, ConnectFails, Returns, Throws, ConsoleTypeOK, MidCall,
              connection, objects, remote, registry, events
<1>4. CASE Stored
  <2>1. <<call.obj, count[call.obj]>> \in Regs
    BY <1>4 DEF Stored, MidCall, Regs
  <2> QED BY <1>4, <2>1 DEF Stored, Returns, ConsoleTypeOK, MidCall,
                            connection, objects, remote, events
<1>5. CASE Connected
  <2>1. session' \in 0..MaxSessions /\ addr' \in [Objs -> Addrs \cup {None}] /\ table' = session'
    BY <1>5, ConsoleAssumption DEF Connected, ConsoleTypeOK
  <2> QED BY <1>5, <2>1 DEF Connected, ConsoleTypeOK, MidCall, remote, registry, events
<1>6. CASE Ending
  <2>1. /\ addr' \in [Objs -> Addrs \cup {None}] /\ UNCHANGED <<of, used, given, agent, sub, strays>>
        /\ phase' = "stopped" /\ state' \in BOOLEAN /\ closing' \subseteq agent'
    BY <1>6 DEF Ending, Destroyed, Released, ConsoleTypeOK, ConInv, Opening
  <2> QED BY <1>6, <2>1 DEF Ending, ConsoleTypeOK, MidCall, connection, registry
<1> QED BY <1>1, <1>2, <1>3, <1>4, <1>5, <1>6, <1>7, <1>8 DEF Main

LEMMA RpcTypes ==
  ASSUME ConInv, ConsoleTypeOK, MidCall,
         \/ Rpc \/ Lose \/ \E o \in Objs : CloseArrives(o)
         \/ \E o \in Watched : Event(o)
  PROVE  ConsoleTypeOK' /\ MidCall'
<1>1. CASE \E r \in Regs : HandlerBegins(r)
  BY <1>1 DEF HandlerBegins, ConsoleTypeOK, MidCall, connection, objects, remote, registry
<1>2. CASE \E kind \in {Gpios, Files, Iterators, Buses}, a \in Addrs : HandlerUses(kind, a)
  BY <1>2, CrashTypes DEF HandlerUses
<1>7. CASE Race
  BY <1>7, CrashTypes DEF Race
<1>3. CASE HandlerEnds
  BY <1>3 DEF HandlerEnds, ConsoleTypeOK, MidCall, connection, objects, remote, registry
<1>4. CASE Lose
  <2>1. agent' = {} /\ closing' = {} /\ strays' = {} /\ sub' \in [Watched -> 0..MaxRegs]
    BY <1>4, ConsoleAssumption DEF Lose, Dropped
  <2> QED BY <1>4, <2>1 DEF Lose, ConsoleTypeOK, MidCall, objects, registry, events
<1>5. ASSUME NEW o \in Objs, CloseArrives(o) PROVE ConsoleTypeOK' /\ MidCall'
  <2>1. sub' \in [Watched -> 0..MaxRegs] /\ strays \subseteq agent'
    BY <1>5, ConsoleAssumption DEF CloseArrives, ConsoleTypeOK, ConInv, OpenedHere
  <2> QED BY <1>5, <2>1 DEF CloseArrives, ConsoleTypeOK, MidCall, connection, objects, registry, events
<1>6. ASSUME NEW o \in Watched, Event(o) PROVE ConsoleTypeOK' /\ MidCall'
  <2>1. <<o, sub[o]>> \in Regs
    BY <1>6, ConsoleAssumption DEF Event, ConsoleTypeOK, Regs
  <2> QED BY <1>6, <2>1 DEF Event, ConsoleTypeOK, MidCall, connection, objects, remote, registry
<1> QED BY <1>1, <1>2, <1>3, <1>4, <1>5, <1>6, <1>7 DEF Rpc

LEMMA ConsoleTypesBegin == ConsoleInit => ConsoleTypeOK /\ MidCall
<1> SUFFICES ASSUME ConsoleInit PROVE ConsoleTypeOK /\ MidCall
  OBVIOUS
<1>1. /\ addr \in [Objs -> Addrs \cup {None}] /\ of \in [Objs -> 0..MaxSessions]
      /\ sub \in [Watched -> 0..MaxRegs] /\ count \in [Watched -> 0..MaxRegs]
      /\ session \in 0..MaxSessions
  BY ConsoleAssumption DEF ConsoleInit
<1>2. /\ named \in [Addrs -> Regs \cup {None}] /\ refs \in [Addrs -> Regs \cup {None}]
  BY DEF ConsoleInit
<1> QED BY <1>1, <1>2 DEF ConsoleInit, ConsoleTypeOK, MidCall

\* The console's variables keep their types: a proxy that an address names, a
\* registration in a table or on its way, and what the agent is to close are
\* among those that were made.
THEOREM ConsoleTypeCorrect == ConsoleSpec => []ConsoleTypeOK
<1>1. ASSUME ConInv, ConInv', ConsoleTypeOK /\ MidCall, [ConsoleNext]_scriptVars
      PROVE  ConsoleTypeOK' /\ MidCall'
  <2>1. CASE UNCHANGED scriptVars
    BY <1>1, <2>1 DEF scriptVars, ConsoleTypeOK, MidCall
  <2> QED BY <1>1, <2>1, ScriptTypes, MainTypes, RpcTypes DEF ConsoleNext
<1> QED BY <1>1, ConInvariant, ConsoleTypesBegin, PTL DEF ConsoleSpec
=============================================================================
