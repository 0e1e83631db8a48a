----------------------------- MODULE LuaEvents ------------------------------
(***************************************************************************)
(* The event queue of the Lua client (src/lua-client: main.cpp,            *)
(* event-caller.cpp, modules/event-queue.cpp, modules/console.cpp).        *)
(*                                                                         *)
(* Two threads.  The Lua thread runs the script's main function, then the  *)
(* calls that were posted (thread_pool::attach), then tears the program    *)
(* down.  The io thread (pool_pair) runs the handlers of timers and of the *)
(* console reader; each of them posts a call for the Lua thread.           *)
(*                                                                         *)
(* The reader takes over the number STDOUT_FILENO, as it does on POSIX: no *)
(* second reader can have it, and the end of the reader closes it.         *)
(***************************************************************************)
EXTENDS Naturals, Sequences, SequencesExt

CONSTANTS Timers,       \* the handles next_index gives to timers
          MaxPosts,     \* bound: fr.client.event_queue.post while fewer are queued
          MaxReaders,   \* bound: console subscriptions
          MaxLines      \* bound: lines typed on the console

ASSUME LuaEventsAssumption == /\ MaxPosts \in Nat
                              /\ MaxReaders \in Nat
                              /\ MaxLines \in Nat

VARIABLES lua,       \* what the Lua thread does
          posts,     \* calls in the strand
          running,   \* the posted call that runs
          enabled,   \* event_caller::enabled_
          stopped,   \* the pools that were stopped
          working,   \* module::working_ of the event queue
          map,       \* timers_
          timer,     \* the delayed_call of each timer and its handler
          told,      \* what push_call was told of each timer
          cancelled, \* timers the script cancelled
          io,        \* the handler that the io thread runs
          con,       \* con_reader_: the number of the reader, 0 if there is none
          stdout,    \* what STDOUT_FILENO names
          readers,   \* readers made so far
          onRead,    \* the container has a call for "on_read"
          reads,     \* reads that are not handled yet: reader and result
          lines,     \* what was typed: lines, or the end of the input
          eof,       \* readers that met the end of the input
          crashed    \* two threads were in one object at once

vars == <<lua, posts, running, enabled, stopped, working, map, timer, told,
          cancelled, io, con, stdout, readers, onRead, reads, lines, eof, crashed>>
queueVars   == <<posts, enabled>>
timerVars   == <<working, map, timer, told, cancelled>>
consoleVars == <<con, stdout, readers, onRead, reads, lines, eof>>

Idle  == [at |-> "idle", of |-> "nothing", err |-> FALSE]
InLua == lua \in {"script", "call"}
TearingDown == lua \in {"clear", "stop", "join", "modules", "ended"}

TypeOK ==
    /\ lua \in {"script", "attached", "call", "deinit"} \cup {"clear", "stop", "join", "modules", "ended"}
    /\ posts \in Seq(Timers \cup {"post", "line"})
    /\ running \in Timers \cup {"post", "line", "nothing"}
    /\ enabled \in BOOLEAN /\ stopped \subseteq {"tp", "pp"} /\ working \in BOOLEAN
    /\ map \subseteq Timers
    /\ timer \in [Timers -> {"unused", "waiting", "fired", "aborted", "done"}]
    /\ told \in [Timers -> {"no", "nil", "error", "lost"}]
    /\ cancelled \subseteq Timers
    /\ io.at \in {"idle", "push", "erase", "release", "arm", "call"}
    /\ stdout \in {"console", "closed", "other"}
    /\ con \in 0..MaxReaders /\ readers \in 0..MaxReaders /\ onRead \in BOOLEAN
    /\ reads \subseteq [of : 1..MaxReaders, is : {"pending", "read", "error"}]
    /\ lines \in 0..MaxLines /\ eof \subseteq 1..MaxReaders /\ crashed \in BOOLEAN

\* main.cpp:146-170: the module objects exist, nothing is posted, events are off
Init ==
    /\ lua = "script" /\ posts = <<>> /\ running = "nothing" /\ enabled = FALSE
    /\ stopped = {} /\ working = TRUE /\ map = {}
    /\ timer = [t \in Timers |-> "unused"] /\ told = [t \in Timers |-> "no"]
    /\ cancelled = {} /\ io = Idle
    /\ con = 0 /\ stdout = "console" /\ readers = 0 /\ onRead = FALSE /\ reads = {} /\ lines = 0 /\ eof = {}
    /\ crashed = FALSE

-----------------------------------------------------------------------------
(* Both threads                                                            *)

\* Unsynchronised use of one object: the program may crash, or it may do what
\* it does when the two uses happen one after the other.
Racing(both) == crashed' \in IF both THEN BOOLEAN ELSE {crashed}

\* event_caller::push_call: dropped while events are off
PushCall(call) ==
    /\ posts' = IF enabled THEN Append(posts, call) ELSE posts
    /\ UNCHANGED enabled

\* ~delayed_call cancels the timer: a completion that waits is aborted, one
\* that is already queued is not
Cancelled(ts) ==
    timer' = [t \in Timers |-> IF t \in ts /\ timer[t] = "waiting" THEN "aborted" ELSE timer[t]]

\* An exception that no call of the script catches: main ends the program, or
\* the thread pool goes on with the next call.
Escapes ==
    /\ lua' \in IF lua = "call" THEN {"attached", "deinit"} ELSE {"deinit"}
    /\ running' = "nothing"

\* the reads of the reader that is destroyed are aborted
Aborted(rs) ==
    {IF r.of = con /\ r.is = "pending" THEN [r EXCEPT !.is = "error"] ELSE r : r \in rs}

-----------------------------------------------------------------------------
(* Calls of the script                                                     *)

\* lcall_post
Post ==
    /\ InLua /\ Len(posts) < MaxPosts
    /\ PushCall("post")
    /\ UNCHANGED <<lua, running, stopped, io, crashed, timerVars, consoleVars>>

\* lcall_timer_post: add_timer and call_from_now
TimerPost(t) ==
    /\ InLua /\ timer[t] = "unused"
    /\ map' = map \cup {t}
    /\ timer' = [timer EXCEPT ![t] = "waiting"]
    /\ Racing(io.at = "erase")
    /\ UNCHANGED <<lua, running, stopped, io, working, told, cancelled, queueVars, consoleVars>>

\* lcall_timer_cancel: del_timer, whatever became of the timer
TimerCancel(t) ==
    /\ InLua /\ timer[t] # "unused" /\ t \notin cancelled
    /\ map' = map \ {t}
    /\ Cancelled(map \cap {t})
    /\ cancelled' = cancelled \cup {t}
    /\ Racing(io.at = "erase")
    /\ UNCHANGED <<lua, running, stopped, io, working, told, queueVars, consoleVars>>

\* console lcall_subscribe with a call, after the container took it: assign
\* throws while the reader is there, which has the same number, and when
\* nothing has that number; what another descriptor has may be taken or not
SubscribeThrows ==
    /\ con # 0 \/ stdout # "console"
    /\ Escapes
    /\ UNCHANGED <<con, readers, reads>>

SubscribeReads ==
    /\ con = 0 /\ stdout # "closed" /\ readers < MaxReaders
    /\ readers' = readers + 1
    /\ con' = readers'
    /\ reads' = reads \cup {[of |-> readers', is |-> "pending"]}
    /\ UNCHANGED <<lua, running>>

ConsoleSubscribe ==
    /\ InLua
    /\ onRead' = TRUE
    /\ SubscribeReads \/ SubscribeThrows
    /\ Racing(io.at = "call")
    /\ UNCHANGED <<stopped, io, stdout, lines, eof, queueVars, timerVars>>

\* Mutant: unsubscribing keeps the reader
UnsubscribeKeeps ==
    /\ InLua /\ onRead
    /\ onRead' = FALSE
    /\ UNCHANGED <<lua, running, stopped, io, con, stdout, readers, reads, lines, eof, queueVars, timerVars, crashed>>

\* console lcall_subscribe without a call: the reader goes and closes its number
ConsoleUnsubscribe ==
    /\ InLua /\ onRead
    /\ con' = 0
    /\ stdout' = IF con # 0 THEN "closed" ELSE stdout
    /\ onRead' = FALSE
    /\ reads' = Aborted(reads)
    /\ Racing(io.at = "call")
    /\ UNCHANGED <<lua, running, stopped, io, readers, lines, eof, queueVars, timerVars>>

\* lcall_start_events
Run ==
    /\ InLua /\ enabled' = TRUE
    /\ UNCHANGED <<lua, posts, running, stopped, io, crashed, timerVars, consoleVars>>

\* lcall_exit: does nothing while events are off
Exit ==
    /\ InLua /\ enabled
    /\ stopped' = stopped \cup {"tp"}
    /\ enabled' = FALSE
    /\ UNCHANGED <<lua, posts, running, io, crashed, timerVars, consoleVars>>

-----------------------------------------------------------------------------
(* The Lua thread around the script's calls                                *)

LuaGoes(to) ==
    /\ lua' = to
    /\ UNCHANGED <<io, queueVars, consoleVars>>

\* the script's main returns, or throws to main.cpp:227
MainReturns ==
    /\ lua = "script"
    /\ LuaGoes(IF enabled THEN "attached" ELSE "deinit")
    /\ UNCHANGED <<running, stopped, timerVars, crashed>>

MainThrows ==
    /\ lua = "script"
    /\ LuaGoes("deinit")
    /\ UNCHANGED <<running, stopped, timerVars, crashed>>

\* push_call_impl: an error of the call is printed
CallReturns ==
    /\ lua = "call"
    /\ LuaGoes("attached")
    /\ running' = "nothing"
    /\ UNCHANGED <<stopped, timerVars, crashed>>

\* thread_pool::attach: the next posted call, or the end
Attached ==
    /\ lua = "attached"
    /\ \/ /\ "tp" \in stopped
          /\ LuaGoes("deinit")
          /\ UNCHANGED running
       \/ /\ "tp" \notin stopped /\ posts # <<>>
          /\ lua' = "call"
          /\ running' = Head(posts)
          /\ posts' = Tail(posts)
          /\ UNCHANGED <<enabled, io, consoleVars>>
    /\ UNCHANGED <<stopped, timerVars, crashed>>

\* module::deinit of the event queue, first line
Deinit ==
    /\ lua = "deinit"
    /\ LuaGoes("clear")
    /\ working' = FALSE
    /\ UNCHANGED <<running, stopped, map, timer, told, cancelled, crashed>>

\* timers_.clear
ClearTimers ==
    /\ lua = "clear"
    /\ LuaGoes("stop")
    /\ map' = {}
    /\ Cancelled(map)
    /\ Racing(io.at = "erase")
    /\ UNCHANGED <<running, stopped, working, told, cancelled>>

\* Mutant: the join without the stop
StopNothing ==
    /\ lua = "stop"
    /\ LuaGoes("join")
    /\ UNCHANGED <<running, stopped, timerVars, crashed>>

\* pp.stop_all, pp.join_all, modules_.clear
StopPool ==
    /\ lua = "stop"
    /\ LuaGoes("join")
    /\ stopped' = stopped \cup {"pp"}
    /\ UNCHANGED <<running, timerVars, crashed>>

\* Mutant: the modules go without the join
JoinNothing ==
    /\ lua = "join" /\ "pp" \in stopped
    /\ LuaGoes("modules")
    /\ UNCHANGED <<running, stopped, timerVars, crashed>>

JoinPool ==
    /\ lua = "join" /\ "pp" \in stopped /\ io = Idle
    /\ LuaGoes("modules")
    /\ UNCHANGED <<running, stopped, timerVars, crashed>>

\* the modules and with them con_reader_
ClearModules ==
    /\ lua = "modules"
    /\ lua' = "ended"
    /\ con' = 0
    /\ stdout' = IF con # 0 THEN "closed" ELSE stdout
    /\ UNCHANGED <<running, stopped, io, readers, onRead, reads, lines, eof, queueVars, timerVars, crashed>>

-----------------------------------------------------------------------------
(* The io thread                                                           *)

Works(w) == io' = w /\ UNCHANGED <<lua, running, stopped>>

\* the time of a timer comes
Expire(t) ==
    /\ timer[t] = "waiting" /\ lua # "ended"
    /\ timer' = [timer EXCEPT ![t] = "fired"]
    /\ UNCHANGED <<lua, running, stopped, io, working, map, told, cancelled, queueVars, consoleVars, crashed>>

\* Mutant: timer_handler ignores aborted timers
HandlerSkipsErrors(t) ==
    /\ io = Idle /\ "pp" \notin stopped /\ timer[t] \in {"fired", "aborted"}
    /\ Works([at |-> IF working /\ timer[t] = "fired" THEN "push" ELSE "release", of |-> t, err |-> FALSE])
    /\ timer' = [timer EXCEPT ![t] = "done"]
    /\ UNCHANGED <<working, map, told, cancelled, queueVars, consoleVars, crashed>>

\* timer_handler starts: nothing is done once deinit has begun
TimerHandler(t) ==
    /\ io = Idle /\ "pp" \notin stopped /\ timer[t] \in {"fired", "aborted"}
    /\ Works([at |-> IF working THEN "push" ELSE "release", of |-> t, err |-> timer[t] = "aborted"])
    /\ timer' = [timer EXCEPT ![t] = "done"]
    /\ UNCHANGED <<working, map, told, cancelled, queueVars, consoleVars, crashed>>

TimerPush ==
    /\ io.at = "push"
    /\ PushCall(io.of)
    /\ told' = [told EXCEPT ![io.of] = IF ~enabled THEN "lost" ELSE IF io.err THEN "error" ELSE "nil"]
    /\ Works([io EXCEPT !.at = "erase"])
    /\ UNCHANGED <<working, map, timer, cancelled, consoleVars, crashed>>

\* del_timer ends
TimerErase ==
    /\ io.at = "erase"
    /\ map' = map \ {io.of}
    /\ Works([io EXCEPT !.at = "release"])
    /\ UNCHANGED <<working, timer, told, cancelled, queueVars, consoleVars, crashed>>

\* the handler is destroyed: when the posted call is gone already the last
\* reference to the Lua function is released here, outside the Lua thread
TimerRelease ==
    /\ io.at = "release"
    /\ Works(Idle)
    /\ Racing(InLua /\ running # io.of /\ io.of \notin Range(posts))
    /\ UNCHANGED <<queueVars, timerVars, consoleVars>>

\* a line is typed, or the input ends
Type ==
    /\ lines < MaxLines /\ lua # "ended"
    /\ lines' = lines + 1
    /\ \E r \in reads, is \in {"read", "error"} :
          /\ r.is = "pending"
          /\ reads' = (reads \ {r}) \cup {[r EXCEPT !.is = is]}
          /\ eof' = IF is = "error" THEN eof \cup {r.of} ELSE eof
    /\ UNCHANGED <<lua, running, stopped, io, con, stdout, readers, onRead, queueVars, timerVars, crashed>>

\* reader_handler: FR_LUA_EVENT_PROLOGUE
ReaderHandler(r) ==
    /\ io = Idle /\ "pp" \notin stopped /\ r.is # "pending"
    /\ reads' = reads \ {r}
    /\ Works(IF ~onRead THEN Idle
             ELSE [at |-> IF r.is = "read" THEN "arm" ELSE "call", of |-> r.of, err |-> r.is = "error"])
    /\ UNCHANGED <<con, stdout, readers, onRead, lines, eof, queueVars, timerVars, crashed>>

\* start_read( cr.lock( ) ): only while the reader is the module's; a lock taken
\* just before the reader went starts a read that is aborted
ReaderArm ==
    /\ io.at = "arm"
    /\ reads' \in IF io.of = con THEN {reads \cup {[of |-> con, is |-> "pending"]}}
                  ELSE {reads, reads \cup {[of |-> io.of, is |-> "error"]}}
    /\ Works([io EXCEPT !.at = "call"])
    /\ UNCHANGED <<con, stdout, readers, onRead, lines, eof, queueVars, timerVars, crashed>>

\* event_container::call
ReaderCall ==
    /\ io.at = "call"
    /\ IF onRead THEN PushCall("line") ELSE UNCHANGED queueVars
    /\ Works(Idle)
    /\ UNCHANGED <<timerVars, consoleVars, crashed>>

\* the process opens something else, which gets the lowest free number
Reuse ==
    /\ stdout = "closed" /\ lua # "ended"
    /\ stdout' = "other"
    /\ UNCHANGED <<lua, running, stopped, io, con, readers, onRead, reads, lines, eof,
                   queueVars, timerVars, crashed>>

-----------------------------------------------------------------------------
Script == \/ Post \/ Run \/ Exit \/ ConsoleSubscribe \/ ConsoleUnsubscribe
          \/ \E t \in Timers : TimerPost(t) \/ TimerCancel(t)

LuaThread == \/ MainReturns \/ MainThrows \/ CallReturns \/ Attached
             \/ Deinit \/ ClearTimers \/ StopPool \/ JoinPool \/ ClearModules

InHandler == TimerPush \/ TimerErase \/ TimerRelease \/ ReaderArm \/ ReaderCall
IoThread  == InHandler \/ \E t \in Timers : TimerHandler(t)
                       \/ \E r \in reads : ReaderHandler(r)

Next == /\ ~crashed
        /\ Script \/ LuaThread \/ IoThread \/ Type \/ Reuse \/ \E t \in Timers : Expire(t)

Fairness == /\ WF_vars(~crashed /\ LuaThread)
            /\ WF_vars(~crashed /\ InHandler)
            /\ \A t \in Timers : WF_vars(~crashed /\ Expire(t)) /\ SF_vars(~crashed /\ TimerHandler(t))

Spec == Init /\ [][Next]_vars /\ Fairness

-----------------------------------------------------------------------------
(* Properties                                                              *)

\* No handler runs in a module that is gone: main joins the pool before it
\* clears the modules, and the handlers use the module by a plain pointer.
HandlersFindModule == lua = "ended" => io = Idle

\* timers_ holds each timer that still waits, or its delayed_call would be
\* gone, and none whose handler has ended while the script can still run.
MapHoldsPending ==
    \A t \in Timers :
        /\ timer[t] = "waiting" => t \in map
        /\ t \in map /\ timer[t] = "done" => io.of = t \/ TearingDown

\* A call is told of an error only when the script cancelled that timer: the
\* clear of deinit is never told to a script.
ErrorsWereCancelled == \A t \in Timers : told[t] = "error" => t \in cancelled

\* The three together: a timer is known to the module as long as it may call.
TimersSafe == HandlersFindModule /\ MapHoldsPending /\ ErrorsWereCancelled

\* The reader of a script that subscribed is there until the script gives the
\* console up, and it keeps reading through lines, handlers and subscriptions
\* that fail: its handler takes up the next read, unless the input ended. Once
\* it was given up a subscription can leave its call without a reader.
ConsoleListens ==
    /\ onRead /\ stdout = "console" => con # 0
    /\ con # 0 /\ con \notin eof =>
          \/ \E r \in reads : r.of = con
          \/ io.at = "arm" /\ io.of = con

\* Each timer comes to its call, unless it comes while events are off or the
\* program ends first; a cancelled timer too.
TimerTells ==
    \A t \in Timers : timer[t] = "waiting" ~> (told[t] # "no" \/ TearingDown \/ crashed)

\* fr.exit ends the program: the calls that are posted by then are not waited for
ExitEnds == "tp" \in stopped ~> lua = "ended" \/ crashed
=============================================================================
