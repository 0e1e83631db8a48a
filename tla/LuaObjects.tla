----------------------------- MODULE LuaObjects -----------------------------
(***************************************************************************)
(* The objects of the Lua client's modules (src/lua-client/modules: fs,    *)
(* gpio, logger, spi, smbus): what a script holds, what the modules keep   *)
(* for it, what the agent keeps, and the events in between.                *)
(*                                                                         *)
(* The Lua thread makes every call of the script and runs the posted       *)
(* calls; the rpc thread brings events and notices the end of a            *)
(* connection.  A script call is one step: no other thread uses the maps   *)
(* of a module.  What the threads share is the event containers.           *)
(***************************************************************************)
EXTENDS Naturals, Sequences, SequencesExt

CONSTANTS Handles,        \* next_index: handles are never given again
          MaxConnections, \* bound: connections
          MaxPosts        \* bound: events that are posted and not run

ASSUME LuaObjectsAssumption ==
    MaxConnections \in Nat \ {0} /\ MaxPosts \in Nat /\ "none" \notin Handles

VARIABLES lua,        \* what the Lua thread does
          posts,      \* posted calls: the handle whose event they tell
          says,       \* what the script was told last
          class,      \* the module of each handle, "none" before it is given
          objects,    \* devs_, files_, iterators_, loggers_, buses_
          containers, \* events_, file_events_
          calls,      \* containers that have a call
          held,       \* userdata that are not collected
          ids,        \* modules the script's calls still find (id_path)
          of,         \* the connection each proxy was made over
          atAgent,    \* what the agent has open for the connection
          strays,     \* iterators the agent keeps for a begin that failed
          sending,    \* objects whose events the agent sends
          underway,   \* events on their way
          current,    \* the connection: client_core_
          link,       \* its state
          made,       \* the connection each module's own proxy was made over
          ready,      \* on_ready is posted
          threw,      \* the last on_ready ended by an exception
          rpc,        \* the container the rpc thread has locked
          crashed     \* a container or a module was used after its end

objectsVars == <<lua, posts, says, class, objects, containers, calls, held, ids, of, atAgent,
                 strays, sending, underway, current, link, made, ready, threw, rpc, crashed>>
script     == <<class, held, ids, of>>
module     == <<objects, containers, calls>>
remote     == <<atAgent, strays, sending, underway>>
connection == <<current, link, made, ready, threw>>

None     == "none"
Classes    == {"file", "gpio", "iterator", "logger", "spi", "smbus"}
Owners     == {"fs", "os", "logger"}
Given    == {h \in Handles : class[h] # None}
OfClass(k) == {h \in Given : class[h] = k}

ObjectsTypeOK ==
    /\ lua \in {"script", "deinit", "joined", "closed"}
    /\ posts \in Seq(Handles) /\ class \in [Handles -> Classes \cup {None}]
    /\ says \in {"nothing", "done", "error", "bad handle"}
    /\ objects \subseteq Given /\ containers \subseteq Given /\ calls \subseteq Given
    /\ held \subseteq Given /\ ids \subseteq Classes /\ of \in [Handles -> 0..MaxConnections]
    /\ atAgent \subseteq Given /\ strays \subseteq atAgent /\ sending \subseteq atAgent /\ underway \subseteq Given
    /\ current \in 0..MaxConnections /\ link \in {"none", "connecting", "up", "lost"}
    /\ made \in [Owners -> 0..MaxConnections] /\ ready \in BOOLEAN /\ threw \in BOOLEAN
    /\ rpc \in Handles \cup {None} /\ crashed \in BOOLEAN

ObjectsInit ==
    /\ lua = "script" /\ posts = <<>> /\ says = "nothing"
    /\ class = [h \in Handles |-> None] /\ held = {} /\ ids = Classes
    /\ objects = {} /\ containers = {} /\ calls = {}
    /\ of = [h \in Handles |-> 0] /\ atAgent = {} /\ strays = {} /\ sending = {} /\ underway = {}
    /\ current = 0 /\ link = "none" /\ ready = FALSE /\ threw = FALSE
    /\ made = [m \in Owners |-> 0]
    /\ rpc = None /\ crashed = FALSE

-----------------------------------------------------------------------------
(* Calls over a proxy                                                      *)

InScript == lua = "script" /\ UNCHANGED <<posts, rpc>>

\* a call over a proxy of an earlier connection, or of one that was lost, throws
Reaches(h) == link = "up" /\ of[h] = current

\* the destructor of a proxy: the agent closes the object and its events end;
\* what is on its way still comes
Release(hs) ==
    LET gone == {h \in hs : Reaches(h)} IN
        /\ atAgent' = atAgent \ gone
        /\ sending' = sending \ gone
        /\ UNCHANGED <<strays, underway>>

\* the connection is lost: the agent drops what it had for it
Dropped == atAgent' = {} /\ strays' = {} /\ sending' = {} /\ underway' = {}
Lost == link' = "lost" /\ Dropped

\* an exception that no call of the script catches: it ends the program or
\* the thread pool goes on with the next call
Throws == lua' \in {"script", "deinit"} /\ UNCHANGED says

\* the rpc thread is inside event_container::call of h
Racing(h) == crashed' \in IF rpc = h THEN BOOLEAN ELSE {crashed}

\* the calls that look their handle up and catch what the proxy throws
CallOn(h, k) ==
    /\ InScript /\ h \in held /\ class[h] = k
    /\ says' \in IF h \notin objects THEN {"bad handle"}
                 ELSE IF Reaches(h) THEN {"done", "error"} ELSE {"error"}
    /\ UNCHANGED <<lua, script, module, remote, connection, crashed>>

-----------------------------------------------------------------------------
(* New objects                                                             *)

\* The script has the tables of the modules once the last of them was
\* initialised.
Tables == made["logger"] # 0

\* The calls over a module's own proxy, which is of the present connection or
\* of an earlier one.
Serves(m) == made[m] = current /\ link = "up"

\* An object is made at the agent first and then enters the maps.
New(h, k, evented) ==
    /\ InScript /\ class[h] = None /\ Tables /\ link = "up"
    /\ class' = [class EXCEPT ![h] = k]
    /\ of' = [of EXCEPT ![h] = current]
    /\ objects' = objects \cup {h}
    /\ containers' = IF evented THEN containers \cup {h} ELSE containers
    /\ held' = held \cup {h}
    /\ atAgent' = atAgent \cup {h}
    /\ says' = "done"
    /\ UNCHANGED <<lua, calls, ids, strays, sending, underway, connection, crashed>>

FileOpen(h)     == New(h, "file", TRUE)
IterBegin(h)    == New(h, "iterator", FALSE) /\ Serves("fs")
GpioExport(h)   == New(h, "gpio", TRUE)
LoggerAdd(h)    == New(h, "logger", TRUE)
SpiOpen(h)      == New(h, "spi", FALSE)
SmbusOpen(h)    == New(h, "smbus", FALSE)

\* Mutant: the proxy that was just made is forgotten.
ExportForgets(h) ==
    /\ InScript /\ class[h] = None /\ Tables /\ link = "up"
    /\ class' = [class EXCEPT ![h] = "gpio"]
    /\ atAgent' = atAgent \cup {h}
    /\ says' = "error"
    /\ UNCHANGED <<lua, held, ids, of, strays, sending, underway, module, connection, crashed>>

\* A call of the open throws: the handle is used up and the script gets the error.
OpenFails(h, k) ==
    /\ InScript /\ class[h] = None /\ Tables /\ link = "up"
    /\ class' = [class EXCEPT ![h] = k]
    /\ says' = "error"
    /\ UNCHANGED <<lua, held, ids, of, module, current, made, ready, threw, crashed>>

\* the agent's iter_begin throws: before it has inserted its iterator, or in
\* fill_iter_info after that, and then nobody learns the iterator's handle
IterBeginFails(h) ==
    /\ OpenFails(h, "iterator") /\ Serves("fs")
    /\ \/ Lost \/ UNCHANGED <<link, remote>>
       \/ /\ atAgent' = atAgent \cup {h}
          /\ strays' = strays \cup {h}
          /\ UNCHANGED <<link, sending, underway>>

\* gpio new_dev: edge_supported throws, the proxy that was just made goes and
\* with it the agent's object
GpioExportFails(h) ==
    /\ OpenFails(h, "gpio")
    /\ Lost \/ UNCHANGED <<link, remote>>

-----------------------------------------------------------------------------
(* Calls on objects                                                        *)

FileRead(h)    == CallOn(h, "file")
FileSeek(h)   == CallOn(h, "file")
IterCall(h)    == CallOn(h, "iterator")
GpioSet(h)     == CallOn(h, "gpio")
GpioGet(h)     == CallOn(h, "gpio")
SpiCall(h)     == CallOn(h, "spi")
SmbusCall(h)   == CallOn(h, "smbus")
SmbusBytes(h)   == CallOn(h, "smbus")

\* the channel of a logger ignores errors
LoggerWrite(h) ==
    /\ InScript /\ h \in held \cap objects /\ class[h] = "logger"
    /\ says' = "done"
    /\ UNCHANGED <<lua, script, module, remote, connection, crashed>>

\* functions reads a plain handle where the script has a userdata
SmbusFunctions(h) ==
    /\ InScript /\ h \in held /\ class[h] = "smbus"
    /\ says' = "bad handle"
    /\ UNCHANGED <<lua, script, module, remote, connection, crashed>>

\* fs.pwd is what the proxy remembers, logger.set_level ignores errors
LocalCall ==
    /\ InScript /\ Tables
    /\ says' = "done"
    /\ UNCHANGED <<lua, script, module, remote, connection, crashed>>

\* the other calls over the modules' own proxies
OwnCall(m) ==
    /\ InScript /\ Tables
    /\ says' \in IF Serves(m) THEN {"done", "error"} ELSE {"error"}
    /\ UNCHANGED <<lua, script, module, remote, connection, crashed>>

-----------------------------------------------------------------------------
(* Subscriptions                                                           *)

\* The container takes the call, or drops it, before the agent is asked.
Subscribed(h, on) ==
    /\ InScript
    /\ calls' = IF on THEN calls \cup {h} ELSE calls \ {h}
    /\ Racing(h)
    /\ UNCHANGED <<script, objects, containers, atAgent, strays, underway, connection>>

Sends(h, on) ==
    IF Reaches(h) THEN sending' = (IF on THEN sending \cup {h} ELSE sending \ {h}) /\ says' = "done"
                  ELSE says' = "error" /\ UNCHANGED sending

\* register_file is caught, unregister_file is not
FileSubscribe(h, on) ==
    /\ h \in held \cap objects \cap containers /\ class[h] = "file"
    /\ Subscribed(h, on)
    /\ IF on \/ Reaches(h) THEN Sends(h, on) /\ UNCHANGED lua ELSE Throws /\ UNCHANGED sending

\* get_dev_info of a closed pin and unregister_event are not caught
GpioSubscribe(h, on) ==
    /\ h \in held \cap containers /\ class[h] = "gpio"
    /\ Subscribed(h, on)
    /\ IF h \in objects /\ (on \/ Reaches(h))
       THEN Sends(h, on) /\ UNCHANGED lua ELSE Throws /\ UNCHANGED sending

LoggerSubscribe(h, on) ==
    /\ h \in held \cap objects \cap containers /\ class[h] = "logger"
    /\ Subscribed(h, on)
    /\ IF on \/ Reaches(h) THEN Sends(h, on) ELSE says' = "done" /\ UNCHANGED sending
    /\ UNCHANGED lua

-----------------------------------------------------------------------------
(* The end of an object: close, or __gc once the script dropped it         *)

Closing(h, k) == InScript /\ h \in held /\ class[h] = k /\ says' = "done"
Forget(h) ==
    /\ objects' = objects \ {h}
    /\ Release({h} \cap objects)
    /\ UNCHANGED <<lua, class, ids, of, calls, connection, crashed>>

\* Mutant: fs forgets the file and keeps its container.
FileCloseHalf(h) ==
    /\ Closing(h, "file")
    /\ Forget(h)
    /\ UNCHANGED <<containers, held>>

FileClose(h) ==
    /\ Closing(h, "file")
    /\ Forget(h)
    /\ containers' = containers \ {h}
    /\ UNCHANGED held

IterClose(h)  == Closing(h, "iterator") /\ Forget(h) /\ UNCHANGED <<containers, held>>
\* the container of a pin stays
GpioClose(h)  == Closing(h, "gpio") /\ Forget(h) /\ UNCHANGED <<containers, held>>
SpiClose(h)   == Closing(h, "spi") /\ Forget(h) /\ UNCHANGED <<containers, held>>
SmbusClose(h) == Closing(h, "smbus") /\ Forget(h) /\ UNCHANGED <<containers, held>>
\* close_object looks for the userdata's address and finds nothing
LoggerClose(h) ==
    /\ Closing(h, "logger")
    /\ UNCHANGED <<lua, script, module, remote, connection, crashed>>

Collect(h) ==
    /\ InScript /\ h \in held
    /\ held' = held \ {h}
    /\ IF class[h] = "logger"
       THEN UNCHANGED <<lua, class, ids, of, module, remote, connection, crashed>>
       ELSE Forget(h) /\ containers' = IF class[h] = "file" THEN containers \ {h} ELSE containers
    /\ UNCHANGED says

-----------------------------------------------------------------------------
(* The connection as the Lua thread sees it                                *)

\* lua_call_connect: a new client core takes the place of the old, which goes
NewConnection ==
    /\ InScript /\ current < MaxConnections
    /\ current' = current + 1
    /\ link' = "connecting"
    /\ Dropped
    /\ UNCHANGED <<lua, says, script, module, made, ready, threw, crashed>>

\* The modules that were initialised before one of them threw: they come in
\* the order fs, os, logger, and those that were keep the new proxy.
Remade(ms) == made' = [m \in Owners |-> IF m \in ms THEN current ELSE made[m]]

\* Mutant: a module that has its proxy is not initialised again.
OnReadyOnce ==
    /\ InScript /\ ready
    /\ ready' = FALSE
    /\ made' = [m \in Owners |-> IF made[m] = 0 THEN current ELSE made[m]]
    /\ UNCHANGED <<lua, says, script, module, remote, current, link, threw, crashed>>

\* on_ready: every module makes its own proxy again, twice; what throws, with
\* the connection up or when it is lost meanwhile, is not caught
OnReady ==
    /\ InScript /\ ready
    /\ ready' = FALSE
    /\ \/ /\ link = "up" /\ Remade(Owners)
          /\ threw' = FALSE
          /\ UNCHANGED <<lua, says, link, remote>>
       \/ /\ Throws /\ threw' = TRUE
          /\ \E ms \in {{}, {"fs"}, {"fs", "os"}, Owners} :
                /\ link # "up" => ms = {}
                /\ Remade(ms)
          /\ (link = "up" /\ Lost) \/ UNCHANGED <<link, remote>>
    /\ UNCHANGED <<script, module, current, crashed>>

RunPosted ==
    /\ lua = "script" /\ posts # <<>>
    /\ posts' = Tail(posts)
    /\ UNCHANGED <<lua, says, script, module, remote, connection, rpc, crashed>>

-----------------------------------------------------------------------------
(* The end of the program                                                  *)

\* fr.exit, or the script returns or fails
Exit ==
    /\ InScript /\ lua' = "deinit"
    /\ UNCHANGED <<says, script, module, remote, connection, crashed>>

\* the deinit of the modules, client_core_.reset and the join of the pools:
\* gpio keeps its containers, spi and logger keep their id
Deinit ==
    /\ lua = "deinit" /\ rpc = None
    /\ lua' = "joined"
    /\ objects' = {}
    /\ containers' = containers \cap OfClass("gpio")
    /\ ids' = ids \cap {"spi", "logger"}
    /\ Lost
    /\ UNCHANGED <<posts, says, class, held, of, calls, current, made, ready, threw, rpc, crashed>>

\* lua_close: __gc of every userdata, after modules_.clear
CloseState ==
    /\ lua = "joined"
    /\ lua' = "closed"
    /\ held' = {}
    /\ crashed' \in IF \E h \in held : class[h] \in ids THEN BOOLEAN ELSE {crashed}
    /\ UNCHANGED <<posts, says, class, ids, of, module, remote, connection, rpc>>

-----------------------------------------------------------------------------
(* The connection and the rpc thread                                       *)

Running == lua \in {"script", "deinit"} /\ UNCHANGED <<lua, says, script, module, crashed>>

\* the connection comes up; on_ready is posted to the Lua thread
BecomesReady ==
    /\ Running /\ link = "connecting"
    /\ link' = "up" /\ ready' = TRUE
    /\ UNCHANGED <<posts, remote, current, made, threw, rpc>>

LinkDrops ==
    /\ Running /\ link = "up"
    /\ Lost
    /\ UNCHANGED <<posts, current, made, ready, threw, rpc>>

\* the agent sends an event
Event(h) ==
    /\ Running /\ h \in sending
    /\ underway' = underway \cup {h}
    /\ UNCHANGED <<posts, atAgent, strays, sending, connection, rpc>>

\* gpio_event, file_event, on_write: the container may be gone
Deliver(h) ==
    /\ Running /\ h \in underway /\ rpc = None
    /\ underway' = underway \ {h}
    /\ rpc' = IF h \in containers /\ h \in calls THEN h ELSE None
    /\ UNCHANGED <<posts, atAgent, strays, sending, connection>>

\* event_container::call
PostCall ==
    /\ Running /\ rpc # None /\ Len(posts) < MaxPosts
    /\ posts' = IF rpc \in calls THEN Append(posts, rpc) ELSE posts
    /\ rpc' = None
    /\ UNCHANGED <<remote, connection>>

-----------------------------------------------------------------------------
Opens(h)  == \/ FileOpen(h) \/ IterBegin(h) \/ IterBeginFails(h) \/ GpioExport(h) \/ GpioExportFails(h)
             \/ LoggerAdd(h) \/ SpiOpen(h) \/ SmbusOpen(h)
Uses(h)   == \/ FileRead(h) \/ FileSeek(h) \/ IterCall(h) \/ GpioSet(h) \/ GpioGet(h)
             \/ LoggerWrite(h) \/ SpiCall(h) \/ SmbusCall(h) \/ SmbusBytes(h) \/ SmbusFunctions(h)
Subscribes(h) == \E on \in BOOLEAN : FileSubscribe(h, on) \/ GpioSubscribe(h, on) \/ LoggerSubscribe(h, on)
Closes(h) == \/ FileClose(h) \/ IterClose(h) \/ GpioClose(h) \/ SpiClose(h) \/ SmbusClose(h)
             \/ LoggerClose(h) \/ Collect(h)

Script == \/ \E h \in Handles : Opens(h) \/ Uses(h) \/ Subscribes(h) \/ Closes(h)
          \/ LocalCall \/ NewConnection \/ Exit
          \/ \E m \in Owners : OwnCall(m)
Posted == OnReady \/ RunPosted
Ending == Deinit \/ CloseState
Rpc    == PostCall \/ BecomesReady \/ LinkDrops \/ \E h \in Handles : Event(h) \/ Deliver(h)

ObjectsNext == ~crashed /\ (Script \/ Posted \/ Ending \/ Rpc)

ObjectsSpec == ObjectsInit /\ [][ObjectsNext]_objectsVars

-----------------------------------------------------------------------------
(* Properties                                                              *)

\* Whatever a module keeps for a script, the script can still close, or the
\* collector does it for the script; but for loggers, which close never finds.
NoOrphans == \A h \in objects : class[h] # "logger" => h \in held

\* The agent and the client agree on what is open over the connection, also
\* after calls that failed half way and after a new connection: a proxy that
\* can reach the agent finds its object, and the agent keeps nothing else but
\* the iterators of begins that threw after it had inserted them. Those the
\* script can never close; they go with the connection.
AgentAgrees ==
    /\ \A h \in Handles \ strays : h \in atAgent <=> h \in objects /\ Reaches(h)
    /\ \A h \in strays : class[h] = "iterator" /\ h \notin objects /\ link = "up"

\* The modules' own proxies belong to the connection that is up, or on_ready
\* is still to come, or it threw half way; and then the modules it reached have
\* the new connection before those it did not reach.
ModulesFollowConnection ==
    /\ made["logger"] <= made["os"] /\ made["os"] <= made["fs"] /\ made["fs"] <= current
    /\ link = "up" /\ lua = "script" => ready \/ threw \/ \A m \in Owners : made[m] = current

\* Once a file is closed the rpc thread takes up no event of it, those that
\* were on their way included; one that it has locked by then still comes.
ClosedFilesFallSilent ==
    [][\A h \in OfClass("file") \ objects : rpc # h => rpc' # h]_objectsVars

\* A userdata that outlives the modules finds none: only spi and logger keep
\* the address of theirs.
CollectFindsModule == lua = "joined" => \A h \in held : class[h] \in ids => class[h] \in {"spi", "logger"}

\* The three together: script, modules and agent have the same objects.
ObjectsAgree == NoOrphans /\ AgentAgrees /\ CollectFindsModule
=============================================================================
