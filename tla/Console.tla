------------------------------- MODULE Console ------------------------------
(***************************************************************************)
(* The console client's Lua command (src/console-client/cmd-lua.cpp) and   *)
(* its tables (lua-gpio.cpp, lua-fs.cpp, lua-i2c.cpp): the script on the   *)
(* main thread, the proxies it knows by their addresses, and the handlers  *)
(* that an rpc thread runs in the script's own Lua state.                  *)
(*                                                                         *)
(* An object is one proxy; a registration of its n-th handler is <<o, n>>. *)
(* Two threads in one Lua state are a data race: it may break or pass.     *)
(***************************************************************************)
EXTENDS Integers

CONSTANTS Gpios, Files, Iterators, Buses, \* objects that may be opened
          Addrs,        \* addresses: one that was freed is given again
          MaxRegs,      \* bound: registrations on one object
          MaxSessions,  \* bound: connections
          None          \* no address, registration or call

ASSUME ConsoleAssumption ==
    MaxRegs \in Nat /\ MaxSessions \in Nat \ {0} /\ None \notin Addrs

VARIABLES phase, call,  \* the main thread: in Lua, asleep, in a remote call ...
          link, session, table, \* connected or not; the session fr.client is for (0: nil)
          addr, of,     \* the address of a live proxy, and its session
          used,         \* objects that have been opened
          given,        \* addresses the script was given
          agent, sub,   \* what the agent has open, and the handler it sends events for
          closing,      \* closes of destructors that are on their way
          strays,       \* what the agent has opened for an open that throws
          count,        \* registrations made on an object
          named, refs,  \* the globals call@<address> and the threads in refs.<address>
          at,           \* the address a registration was made with
          acb, pending, \* callbacks of the client core, and events on their way
          handler, state, \* the handler that runs, and whether the Lua state is there
          broken        \* undefined behaviour was met

scriptVars == <<phase, call, link, session, table, addr, of, used, given, agent, sub, closing,
          strays, count, named, refs, at, acb, pending, handler, state, broken>>
connection == <<link, session, table>>
objects    == <<addr, of, used, given>>
remote     == <<agent, sub, closing, strays>>
registry   == <<count, named, refs, at, acb>>
events     == <<pending, handler, state>>

Objs == Gpios \cup Files \cup Iterators \cup Buses
Watched == Gpios \cup Files         \* objects that have events
Regs == Watched \X (1..MaxRegs)
NoCall == [op |-> None, obj |-> None, addr |-> None]
Live == {o \in Objs : addr[o] # None}

ConsoleTypeOK ==
    /\ phase \in {"lua", "sleep", "call", "store", "clear", "connect", "ending", "stopped"}
    /\ link \in BOOLEAN /\ session \in 0..MaxSessions /\ table \in {0, session}
    /\ addr \in [Objs -> Addrs \cup {None}] /\ of \in [Objs -> 0..MaxSessions]
    /\ used \subseteq Objs /\ given \subseteq Addrs
    /\ agent \subseteq Objs /\ closing \subseteq agent /\ strays \subseteq agent
    /\ sub \in [Watched -> 0..MaxRegs]
    /\ count \in [Watched -> 0..MaxRegs]
    /\ named \in [Addrs -> Regs \cup {None}] /\ refs \in [Addrs -> Regs \cup {None}]
    /\ acb \subseteq Regs /\ pending \subseteq Regs /\ handler \in Regs \cup {None}
    /\ state \in BOOLEAN /\ broken \in BOOLEAN

ConsoleInit ==
    /\ phase = "lua" /\ call = NoCall /\ link = TRUE /\ session = 1 /\ table = 1
    /\ addr = [o \in Objs |-> None] /\ of = [o \in Objs |-> 0] /\ used = {} /\ given = {}
    /\ agent = {} /\ sub = [o \in Watched |-> 0] /\ closing = {} /\ strays = {}
    /\ count = [o \in Watched |-> 0] /\ at = [r \in Regs |-> None]
    /\ named = [a \in Addrs |-> None] /\ refs = [a \in Addrs |-> None]
    /\ acb = {} /\ pending = {} /\ handler = None /\ state = TRUE /\ broken = FALSE

-----------------------------------------------------------------------------
(* The script                                                              *)

ScriptRuns == phase = "lua" /\ state
Begin(op, o, a) ==
    /\ phase' = "call" /\ call' = [op |-> op, obj |-> o, addr |-> a]
    /\ UNCHANGED <<connection, objects, remote, events, broken>>

\* the channel of a proxy belongs to the connection it was opened over
Reaches(o) == link /\ of[o] = session

\* nobody catches what a remote call throws: exec ends, and cd goes with it
Throws == phase' = "ending" /\ call' = NoCall
Returns == phase' = "lua" /\ call' = NoCall

\* Without fr.client there is no interface to look in, and null is used at once.
Crash == broken' = TRUE /\ UNCHANGED <<phase, call, connection, objects, remote, registry, events>>

\* new takes an address that no live proxy has
Open(o, a) ==
    /\ ScriptRuns /\ o \notin used /\ \A x \in Live : addr[x] # a
    /\ \/ table = 0 /\ Crash
       \/ table # 0 /\ Begin("open", o, a) /\ UNCHANGED registry

GpioExport(a) == \E o \in Gpios : Open(o, a)
FileOpen(a)   == \E o \in Files : Open(o, a)
IterBegin(a)  == \E o \in Iterators : Open(o, a)
BusOpen(a)    == \E o \in Buses : Open(o, a)

\* open and bus open answer an error, export and begin do not catch theirs
OpenThrows(o) == IF o \in Files \cup Buses THEN Returns ELSE Throws

\* What a throwing open leaves at the agent: nothing; a pin whose export_device throws,
\* which the new proxy closes as it goes; an iterator that iter_begin inserted before
\* fill_iter_info threw, or any object if only the answer was given up.
Left(o) ==
    \/ UNCHANGED <<used, remote>>
    \/ /\ link /\ used' = used \cup {o} /\ agent' = agent \cup {o}
       /\ \/ o \in Gpios /\ closing' = closing \cup {o} /\ UNCHANGED strays
          \/ strays' = strays \cup {o} /\ UNCHANGED closing
       /\ UNCHANGED sub

Opened ==
    /\ phase = "call" /\ call.op = "open"
    /\ LET o == call.obj IN
       \/ /\ link /\ Returns
          /\ addr' = [addr EXCEPT ![o] = call.addr] /\ of' = [of EXCEPT ![o] = session]
          /\ used' = used \cup {o} /\ given' = given \cup {call.addr}
          /\ agent' = agent \cup {o} /\ UNCHANGED <<sub, closing, strays>>
       \/ OpenThrows(o) /\ Left(o) /\ UNCHANGED <<addr, of, given>>
    /\ UNCHANGED <<connection, registry, events, broken>>

\* get_gpio_dev, get_file, get_device: the objects of a kind that an address names.
Named(kind, a) == {o \in Live \cap kind : addr[o] = a}
Finds(kind, a) == table # 0 /\ Named(kind, a) # {}

Use(kind, a) ==
    /\ ScriptRuns /\ a \in given
    /\ \/ ~Finds(kind, a) /\ Crash
       \/ Finds(kind, a) /\ \E o \in Named(kind, a) : Begin("use", o, a) /\ UNCHANGED registry

GpioCall(a) == Use(Gpios, a)
FileCall(a) == Use(Files, a)
BusRead(a)  == Use(Buses, a)
BusWrite(a) == Use(Buses, a)
\* only these look before they use what they found
IterCall(a) == (table # 0 => Finds(Iterators, a)) /\ Use(Iterators, a)

\* the calls on paths, over the proxy that the table itself holds
PathCall ==
    /\ ScriptRuns
    /\ IF table = 0 THEN Crash ELSE Begin("path", None, None) /\ UNCHANGED registry

PathAnswered ==
    /\ phase = "call" /\ call.op = "path"
    /\ Returns \/ Throws
    /\ UNCHANGED <<connection, objects, remote, registry, events, broken>>

\* Mutant: one name serves every object.
CallNameShared(o) == CHOOSE a \in Addrs : o \in Watched

\* the global function and the Lua thread are stored under the proxy's address
CallName(o) == addr[o]

Register(kind, a) ==
    /\ ScriptRuns /\ a \in given
    /\ IF ~Finds(kind, a) THEN Crash
       ELSE \E o \in Named(kind, a) :
            /\ count[o] < MaxRegs
            /\ LET r == <<o, count[o] + 1>> IN
                /\ named' = [named EXCEPT ![CallName(o)] = r]
                /\ refs'  = [refs EXCEPT ![CallName(o)] = r]
                /\ at'    = [at EXCEPT ![r] = CallName(o)]
            /\ count' = [count EXCEPT ![o] = @ + 1]
            /\ Begin("register", o, a)
            /\ UNCHANGED acb

Unregister(kind, a) ==
    /\ ScriptRuns /\ a \in given
    /\ IF ~Finds(kind, a) THEN Crash
       ELSE /\ \E o \in Named(kind, a) : Begin("unregister", o, a)
            /\ UNCHANGED registry

GpioRegister(a)   == Register(Gpios, a)
FileRegister(a)   == Register(Files, a)
GpioUnregister(a) == Unregister(Gpios, a)
FileUnregister(a) == Unregister(Files, a)

\* the agent sends the events of the last registration, or none
Told(o) ==
    /\ Reaches(o) /\ call.op # "use"
    /\ sub' = [sub EXCEPT ![o] = IF call.op = "register" THEN count[o] ELSE 0]

\* the agent's answer; a call that throws may have been made all the same
Answered ==
    /\ phase = "call" /\ call.op \in {"use", "register", "unregister"}
    /\ LET o == call.obj IN
       \/ Throws /\ (Told(o) \/ UNCHANGED sub)
       \/ call.op = "use" /\ Reaches(o) /\ Returns /\ UNCHANGED sub
       \/ call.op = "register" /\ Told(o) /\ phase' = "store" /\ UNCHANGED call
       \/ call.op = "unregister" /\ Told(o) /\ phase' = "clear" /\ UNCHANGED call
    /\ UNCHANGED <<agent, closing, strays, connection, objects, registry, events, broken>>

\* register_async_op waits for acb_lock_, which is held while a handler runs
Stored ==
    /\ phase = "store" /\ handler = None
    /\ acb' = acb \cup {<<call.obj, count[call.obj]>>}
    /\ Returns
    /\ UNCHANGED <<connection, objects, remote, count, named, refs, at, events, broken>>

\* what unregister does once the agent has answered; a handler may run by then
Cleared ==
    /\ phase = "clear" /\ Returns
    /\ LET n == CallName(call.obj) IN
        named' = [named EXCEPT ![n] = None] /\ refs' = [refs EXCEPT ![n] = None]
    /\ UNCHANGED <<connection, objects, remote, count, at, acb, events, broken>>

\* proxies that are destroyed: each sends a close and does not wait
Destroyed(gone) ==
    /\ addr' = [o \in Objs |-> IF o \in gone THEN None ELSE addr[o]]
    /\ closing' = closing \cup {o \in gone : Reaches(o)}
    /\ UNCHANGED <<of, used, given, agent, sub, strays>>

\* Mutant: the handler's parameters hold the proxy, too.
CloseKeeps(a) ==
    /\ ScriptRuns /\ a \in given /\ table # 0
    /\ addr' = [o \in Objs |-> IF addr[o] = a THEN None ELSE addr[o]]
    /\ closing' = closing \cup {o \in Live : addr[o] = a /\ Reaches(o)
                                                         /\ (o \in Watched => count[o] = 0)}
    /\ UNCHANGED <<of, used, given, agent, sub, strays>>
    /\ UNCHANGED <<phase, call, connection, registry, events, broken>>

\* what was registered is left as it is
Close(a) ==
    /\ ScriptRuns /\ a \in given
    /\ \/ table = 0 /\ Crash
       \/ /\ table # 0 /\ Destroyed({o \in Live : addr[o] = a})
          /\ UNCHANGED <<phase, call, connection, registry, events, broken>>

CloseArrives(o) ==
    /\ o \in closing /\ closing' = closing \ {o} /\ agent' = agent \ {o}
    /\ sub' = [x \in Watched |-> IF x = o THEN 0 ELSE sub[x]]
    /\ UNCHANGED <<phase, call, connection, objects, strays, registry, events, broken>>

Sleep ==
    /\ ScriptRuns \/ phase = "sleep"
    /\ phase' = IF phase = "lua" THEN "sleep" ELSE "lua"
    /\ UNCHANGED <<call, connection, objects, remote, registry, events, broken>>

-----------------------------------------------------------------------------
(* The connection                                                          *)

Dropped == agent' = {} /\ closing' = {} /\ strays' = {} /\ sub' = [o \in Watched |-> 0]

Lose ==
    /\ link /\ link' = FALSE /\ Dropped
    /\ UNCHANGED <<phase, call, session, table, objects, registry, events, broken>>

\* fr.client is nil: the refs tables, and the threads in them, go with it
Disconnect ==
    /\ ScriptRuns
    /\ phase' \in {"lua", "connect"} \* disconnect, or the first half of connect
    /\ link' = FALSE /\ table' = 0 /\ Dropped
    /\ refs' = [a \in Addrs |-> None]
    /\ UNCHANGED <<call, session, objects, count, named, at, acb, events, broken>>

\* general_init: the new tables replace those of cd, whose objects are destroyed
Connected ==
    /\ phase = "connect" /\ phase' = "lua" /\ session < MaxSessions
    /\ link' = TRUE /\ session' = session + 1 /\ table' = session'
    /\ addr' = [o \in Objs |-> None]
    /\ UNCHANGED <<call, of, used, given, remote, registry, events, broken>>

\* general_init throws: the agent is connected, and there is no fr.client over it
InitThrows ==
    /\ phase = "connect" /\ phase' = "lua" /\ session < MaxSessions
    /\ link' = TRUE /\ session' = session + 1
    /\ UNCHANGED <<call, table, objects, remote, registry, events, broken>>

ConnectFails ==
    /\ phase = "connect" /\ phase' = "lua"
    /\ UNCHANGED <<call, connection, objects, remote, registry, events, broken>>

-----------------------------------------------------------------------------
(* Events                                                                  *)

Event(o) ==
    /\ sub[o] # 0 /\ o \in agent
    /\ pending' = pending \cup {<<o, sub[o]>>}
    /\ UNCHANGED <<phase, call, connection, objects, remote, registry, handler, state, broken>>

\* async_op and the handler, which locks the weak_ptr of the state first.  A thread that
\* nothing refers to may have been collected.
HandlerBegins(r) ==
    /\ r \in pending /\ pending' = pending \ {r} /\ handler = None
    /\ handler' = IF r \in acb /\ state /\ named[at[r]] # None THEN r ELSE None
    /\ broken' \in IF r \in acb /\ state /\ refs[at[r]] # r THEN BOOLEAN ELSE {FALSE}
    /\ UNCHANGED <<phase, call, connection, objects, remote, registry, state>>

\* the script and the handler are in the Lua state at once
Race == handler # None /\ phase \in {"lua", "clear"} /\ Crash

\* a handler uses objects like the script, and the tables of cd while they are destroyed
HandlerUses(kind, a) ==
    /\ handler # None /\ a \in given
    /\ phase = "stopped" \/ (kind = Iterators /\ table = 0) \/ (kind # Iterators /\ ~Finds(kind, a))
    /\ Crash

\* the state lives until main and the handler have let it go
Released == state /\ handler # None

HandlerEnds ==
    /\ handler # None /\ handler' = None
    /\ state' = (state /\ phase # "stopped")
    /\ UNCHANGED <<phase, call, connection, objects, remote, registry, pending, broken>>

\* main ends, and so does a script with an error: cd is destroyed
ScriptEnds ==
    /\ ScriptRuns /\ phase' = "ending"
    /\ UNCHANGED <<call, connection, objects, remote, registry, events, broken>>

Ending ==
    /\ phase = "ending" /\ phase' = "stopped"
    /\ Destroyed(Live) /\ state' = Released
    /\ UNCHANGED <<call, connection, registry, pending, handler, broken>>

-----------------------------------------------------------------------------

ConsoleScript ==
    \/ \E a \in Addrs :
        \/ GpioExport(a) \/ FileOpen(a) \/ IterBegin(a) \/ BusOpen(a)
        \/ GpioCall(a) \/ FileCall(a) \/ IterCall(a) \/ BusRead(a) \/ BusWrite(a)
        \/ GpioRegister(a) \/ FileRegister(a) \/ GpioUnregister(a) \/ FileUnregister(a)
        \/ Close(a)
    \/ PathCall \/ Sleep \/ Disconnect \/ ScriptEnds

Main == \/ Opened \/ Answered \/ PathAnswered \/ Stored \/ Cleared
        \/ Connected \/ InitThrows \/ ConnectFails \/ Ending

Rpc ==
    \/ \E r \in Regs : HandlerBegins(r)
    \/ \E kind \in {Gpios, Files, Iterators, Buses}, a \in Addrs : HandlerUses(kind, a)
    \/ Race \/ HandlerEnds

ConsoleNext ==
    /\ ~broken
    /\ \/ ConsoleScript \/ Main \/ Rpc \/ Lose
       \/ \E o \in Objs : CloseArrives(o)
       \/ \E o \in Watched : Event(o)

ConsoleSpec == ConsoleInit /\ [][ConsoleNext]_scriptVars

-----------------------------------------------------------------------------
(* Properties                                                              *)

\* The agent has open what the script's live objects stand for and what is about to be
\* closed, over any sequence of connections, and nothing else but what a failed open left
\* there, which no live object stands for and only the end of the connection closes.  No
\* two live objects share an address, so that a pointer names at most one of them.
ConsoleAgrees ==
    link => /\ agent = {o \in Live : of[o] = session} \cup closing \cup strays
            /\ strays \cap (Live \cup closing) = {}
            /\ \A o \in Live : of[o] = session => \A x \in Live \ {o} : addr[x] # addr[o]

\* While the agent sends events for the last registration of an object, its function and
\* its thread are there and are its own: no other object's registration, close or
\* unregister has replaced or removed them.
SubscriptionIntact ==
    \A o \in Watched : LET r == <<o, count[o]>> IN
        (sub[o] # 0 /\ sub[o] = count[o] /\ o \in Live)
            => named[addr[o]] = r /\ refs[addr[o]] = r

\* The Lua state is not closed under a handler, whenever the script ends.
StateOutlivesHandler == handler # None => state

\* Both: a handler finds its function, its thread and their state.
HandlersFindTheirs == SubscriptionIntact /\ StateOutlivesHandler

=============================================================================
