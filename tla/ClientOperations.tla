-------------------------- MODULE ClientOperations --------------------------
(***************************************************************************)
(* The client library against one agent: client_core                       *)
(* (client-core/fr-client.cpp), the proxies of impl/impl-*.cpp, and the    *)
(* numbering of handles and operations by the agent's services.  A proxy   *)
(* is an object of the application; its calls block for their answer.      *)
(* Answers and events share one ordered connection; events are run by the  *)
(* one thread of the rpc pool under acb_lock_.                             *)
(***************************************************************************)
EXTENDS Naturals, Sequences

CONSTANTS Proxies, NoProxy,
          KindChoices,   \* the interfaces the proxies may implement
          MaxId,         \* bound on the numbers a counter reaches
          MaxSessions,   \* bound on the connections made
          MaxEvents      \* bound on the events the agent sends

Kinds == {"gpio", "file", "fs", "i2c", "spi"}
OwnIndex == {"i2c", "spi"}

ASSUME ProxiesAssumption ==
  NoProxy \notin Proxies /\ KindChoices \subseteq [Proxies -> Kinds]
ASSUME BoundsAssumption == MaxId \in Nat /\ MaxSessions \in Nat /\ MaxEvents \in Nat

VARIABLES
  online,   \* the connection is up
  session,  \* connections made so far
  counter,  \* id_ of the agent's reactor
  index,    \* counters of the connection's I2C and SPI services
  table,    \* per service of the connection: the proxy that opened each handle
  subs,     \* operation ids the agent sends events for, with their proxies
  asked,    \* requests on their way to the agent
  wire,     \* answers and events on their way to the client
  sent,     \* events sent so far
  pool,     \* events that wait for the rpc thread
  running,  \* the callback that holds acb_lock_: its event and its proxy
  inside,   \* the proxy that the running callback calls
  acb,      \* acb_
  kind,     \* the interface each proxy implements
  pc,       \* the call a proxy is in, or its life
  hdl,      \* hdl_ of each proxy
  opened,   \* the session each proxy was opened in
  got,      \* the operation id a register call was answered with
  quiet     \* proxies whose unregister( ) has returned

agent == <<counter, index, table, subs>>
core == <<pool, running, inside, acb>>
proxy == <<kind, pc, hdl, opened, got, quiet>>
vars == <<online, session, agent, asked, wire, sent, core, proxy>>

Ids == 1..MaxId
Unused == [i \in Ids |-> NoProxy]
Idle == [id |-> 0, src |-> NoProxy, cb |-> NoProxy]

\* What each proxy asks the agent for, every request naming hdl_: "use" stands
\* for the calls that neither open, close nor (un)register anything.
GpioCalls == {"open", "use", "register", "unregister", "close"}
FileCalls == {"open", "use", "register", "unregister", "close"}
FsCalls == {"open", "use", "close"}
I2cCalls == {"open", "use", "close"}
SpiCalls == {"open", "use", "end", "close"}
Calls == [gpio |-> GpioCalls, file |-> FileCalls, fs |-> FsCalls,
          i2c |-> I2cCalls, spi |-> SpiCalls]

Init ==
  /\ online = FALSE /\ session = 0 /\ counter = 0
  /\ index = [k \in OwnIndex |-> 0]
  /\ table = [k \in Kinds |-> Unused]
  /\ subs = Unused /\ asked = {} /\ wire = <<>> /\ sent = 0
  /\ pool = <<>> /\ running = Idle /\ inside = NoProxy /\ acb = Unused
  /\ kind \in KindChoices /\ pc = [p \in Proxies |-> "none"]
  /\ hdl = [p \in Proxies |-> 0] /\ opened = [p \in Proxies |-> 0]
  /\ got = [p \in Proxies |-> 0]
  /\ quiet = {}

-----------------------------------------------------------------------------
(* The application's threads *)

\* connect: the agent creates the connection's services, with empty tables.
Connect ==
  /\ ~online /\ session < MaxSessions
  /\ online' = TRUE /\ session' = session + 1
  /\ index' = [k \in OwnIndex |-> 0]
  /\ table' = [k \in Kinds |-> Unused] /\ subs' = Unused
  /\ UNCHANGED <<counter, asked, wire, sent, core, proxy>>

\* disconnect, reconnect's first half, or a broken connection: every call in
\* progress throws; a constructor that throws leaves no proxy.
Disconnect ==
  /\ online
  /\ online' = FALSE /\ asked' = {} /\ wire' = <<>>
  /\ table' = [k \in Kinds |-> Unused] /\ subs' = Unused
  /\ pc' = [p \in Proxies |-> CASE pc[p] \in {"open", "close"} -> "gone"
                                [] pc[p] \in {"use", "register", "unregister", "end"} -> "idle"
                                [] OTHER -> pc[p]]
  /\ inside' = NoProxy
  /\ UNCHANGED <<session, counter, index, sent, pool, running, acb, kind, hdl, opened, got, quiet>>

Ask(p, m) == asked' = asked \cup {[p |-> p, m |-> m, h |-> hdl[p]]}

Open(p) ==
  /\ pc[p] = "none" /\ online
  /\ pc' = [pc EXCEPT ![p] = "open"] /\ opened' = [opened EXCEPT ![p] = session]
  /\ Ask(p, "open")
  /\ UNCHANGED <<online, session, agent, wire, sent, core, kind, hdl, got, quiet>>

Call(p, m) ==
  /\ pc[p] = "idle" /\ online /\ m \in Calls[kind[p]] \ {"open", "close"}
  /\ pc' = [pc EXCEPT ![p] = m]
  /\ quiet' = IF m = "register" THEN quiet \ {p} ELSE quiet
  /\ Ask(p, m)
  /\ UNCHANGED <<online, session, agent, wire, sent, kind, hdl, opened, got>>

ThreadCalls(p) == \E m \in Calls[kind[p]] : Call(p, m) /\ UNCHANGED core

\* Mutant: the callback registers an operation.
CallbackRegisters(p) ==
  /\ running # Idle /\ inside = NoProxy
  /\ Call(p, "register") /\ inside' = p
  /\ UNCHANGED <<pool, running, acb>>

\* A callback that uses a proxy waits for the answer with acb_lock_ held.
CallbackCalls(p) ==
  /\ running # Idle /\ inside = NoProxy /\ pc[running.cb] # "gone"
  /\ Call(p, "use") /\ inside' = p
  /\ UNCHANGED <<pool, running, acb>>

\* The destructors: only fs_impl waits for its close; none takes the callback
\* back from acb_.
Destroy(p) ==
  /\ pc[p] = "idle"
  /\ IF online
     THEN /\ Ask(p, "close")
          /\ pc' = [pc EXCEPT ![p] = IF kind[p] = "fs" THEN "close" ELSE "gone"]
     ELSE pc' = [pc EXCEPT ![p] = "gone"] /\ UNCHANGED asked
  /\ UNCHANGED <<online, session, agent, wire, sent, core, kind, hdl, opened, got, quiet>>

\* Mutant: acb_ keeps the newest operation of a proxy only.
RegisterAsyncNewest(p) ==
  /\ pc[p] = "answered" /\ running = Idle
  /\ acb' = [i \in Ids |-> IF i = got[p] THEN p ELSE IF acb[i] = p THEN NoProxy ELSE acb[i]]
  /\ pc' = [pc EXCEPT ![p] = "idle"] /\ got' = [got EXCEPT ![p] = 0]
  /\ UNCHANGED <<online, session, agent, asked, wire, sent, pool, running, inside,
                 kind, hdl, opened, quiet>>

\* register_for_change and register_for_events, second half: the answered
\* operation enters acb_ under acb_lock_, bound to the proxy.
RegisterAsync(p) ==
  /\ pc[p] = "answered" /\ running = Idle
  /\ acb' = [acb EXCEPT ![got[p]] = p]
  /\ pc' = [pc EXCEPT ![p] = "idle"] /\ got' = [got EXCEPT ![p] = 0]
  /\ UNCHANGED <<online, session, agent, asked, wire, sent, pool, running, inside,
                 kind, hdl, opened, quiet>>

-----------------------------------------------------------------------------
(* The agent: each request is served in a thread of its own, in any order *)

Taken(r) == asked' = asked \ {r}
\* A destructor's close is not waited for.
Answer(p, n) == wire' = IF pc[p] \in {"gone", "none"} THEN wire
                        ELSE Append(wire, [to |-> p, n |-> n, event |-> FALSE])
Silent(p) == [i \in Ids |-> IF subs[i] = p THEN NoProxy ELSE subs[i]]
Opener(r) == IF r.h = 0 THEN NoProxy ELSE table[kind[r.p]][r.h]
Served(r) == Taken(r) /\ UNCHANGED <<online, session, sent, core, proxy>>

\* open: the device may not open; a new handle is kept otherwise.
ServeOpen(r) ==
  /\ r.m = "open"
  /\ \/ /\ kind[r.p] \in OwnIndex /\ index[kind[r.p]] < MaxId
        /\ index' = [index EXCEPT ![kind[r.p]] = @ + 1]
        /\ table' = [table EXCEPT ![kind[r.p]][index'[kind[r.p]]] = r.p]
        /\ Answer(r.p, index'[kind[r.p]]) /\ UNCHANGED <<counter, subs>>
     \/ /\ kind[r.p] \notin OwnIndex /\ counter < MaxId
        /\ counter' = counter + 1
        /\ table' = [table EXCEPT ![kind[r.p]][counter'] = r.p]
        /\ Answer(r.p, counter') /\ UNCHANGED <<index, subs>>
     \/ Answer(r.p, 0) /\ UNCHANGED agent
  /\ Served(r)

\* Calls that leave the tables alone, or whose handle is not known: an error.
ServeUse(r) ==
  /\ r.m # "open" /\ (r.m = "use" \/ (Opener(r) = NoProxy /\ r.m \notin {"end", "close"}))
  /\ Answer(r.p, IF Opener(r) = NoProxy THEN 0 ELSE r.h)
  /\ UNCHANGED agent /\ Served(r)

\* Mutant: the file service numbers its operations itself.
ServeRegisterOwn(r) ==
  /\ r.m = "register" /\ Opener(r) # NoProxy
  /\ \E n \in {r.h, 1} :
       /\ subs' = [Silent(Opener(r)) EXCEPT ![n] = Opener(r)] /\ Answer(r.p, n)
       /\ n = IF kind[r.p] = "gpio" THEN r.h ELSE 1
  /\ UNCHANGED <<counter, index, table>> /\ Served(r)

\* The operation of a pin is its handle; that of a file is a new number.
ServeRegister(r) ==
  /\ r.m = "register" /\ Opener(r) # NoProxy
  /\ \/ /\ kind[r.p] = "gpio"
        /\ subs' = [subs EXCEPT ![r.h] = Opener(r)]
        /\ Answer(r.p, r.h) /\ UNCHANGED counter
     \/ /\ kind[r.p] = "file" /\ counter < MaxId
        /\ counter' = counter + 1
        /\ subs' = [Silent(Opener(r)) EXCEPT ![counter'] = Opener(r)]
        /\ Answer(r.p, counter')
     \/ Answer(r.p, 0) /\ UNCHANGED <<subs, counter>>
  /\ UNCHANGED <<index, table>> /\ Served(r)

\* Mutant: a pin keeps the connection of the handle.
ServeUnregisterFiles(r) ==
  /\ r.m = "unregister" /\ Opener(r) # NoProxy
  /\ subs' = (IF kind[r.p] = "file" THEN Silent(Opener(r)) ELSE subs) /\ Answer(r.p, r.h)
  /\ UNCHANGED <<counter, index, table>> /\ Served(r)

\* unregister: del_reactor_action or del_fd
ServeUnregister(r) ==
  /\ r.m = "unregister" /\ Opener(r) # NoProxy
  /\ subs' = Silent(Opener(r)) /\ Answer(r.p, r.h)
  /\ UNCHANGED <<counter, index, table>> /\ Served(r)

\* close, and the close( ) of an SPI proxy that lives on: no error for a
\* handle that is not known.
ServeClose(r) ==
  /\ r.m \in {"end", "close"}
  /\ IF Opener(r) = NoProxy THEN UNCHANGED <<table, subs>>
     ELSE /\ table' = [table EXCEPT ![kind[r.p]][r.h] = NoProxy]
          /\ subs' = Silent(Opener(r))
  /\ Answer(r.p, r.h)
  /\ UNCHANGED <<counter, index>> /\ Served(r)

Serve(r) == ServeOpen(r) \/ ServeUse(r) \/ ServeRegister(r) \/ ServeUnregister(r) \/ ServeClose(r)

\* value_changed and event_handler send async_op for a subscription.
SendEvent(i) ==
  /\ online /\ subs[i] # NoProxy /\ sent < MaxEvents
  /\ wire' = Append(wire, [to |-> subs[i], n |-> i, event |-> TRUE])
  /\ sent' = sent + 1
  /\ UNCHANGED <<online, session, agent, asked, core, proxy>>

-----------------------------------------------------------------------------
(* The client's pools *)

\* The io thread: an answer wakes its caller, an event is for the rpc thread.
TakeAnswer ==
  /\ wire # <<>> /\ ~Head(wire).event /\ wire' = Tail(wire)
  /\ LET p == Head(wire).to  n == Head(wire).n IN
     /\ pc' = [pc EXCEPT ![p] = CASE pc[p] = "close" -> "gone"
                                  [] pc[p] = "open" /\ n = 0 -> "gone"
                                  [] pc[p] = "register" /\ n # 0 -> "answered"
                                  [] OTHER -> "idle"]
     /\ hdl' = [hdl EXCEPT ![p] = IF pc[p] = "open" THEN n ELSE @]
     /\ got' = [got EXCEPT ![p] = IF pc[p] = "register" THEN n ELSE @]
     /\ quiet' = IF pc[p] = "unregister" /\ n # 0 THEN quiet \cup {p} ELSE quiet
     /\ inside' = IF inside = p /\ pc'[p] # "answered" THEN NoProxy ELSE inside
  /\ UNCHANGED <<online, session, agent, asked, sent, pool, running, acb, kind, opened>>

TakeEvent ==
  /\ wire # <<>> /\ Head(wire).event /\ wire' = Tail(wire)
  /\ pool' = Append(pool, Head(wire))
  /\ UNCHANGED <<online, session, agent, asked, sent, running, inside, acb, proxy>>

\* async_op: the callback of the id runs with acb_lock_ held; an id that is
\* not in acb_ is dropped.
AsyncOp ==
  /\ pool # <<>> /\ running = Idle /\ pool' = Tail(pool)
  /\ LET e == Head(pool) IN
     running' = IF acb[e.n] = NoProxy THEN Idle
                ELSE [id |-> e.n, src |-> e.to, cb |-> acb[e.n]]
  /\ UNCHANGED <<online, session, agent, asked, wire, sent, inside, acb, proxy>>

CallbackEnds ==
  /\ running # Idle /\ inside = NoProxy /\ running' = Idle
  /\ UNCHANGED <<online, session, agent, asked, wire, sent, pool, inside, acb, proxy>>

Next ==
  \/ Connect \/ Disconnect
  \/ \E p \in Proxies : \/ Open(p) \/ ThreadCalls(p) \/ CallbackCalls(p)
                        \/ Destroy(p) \/ RegisterAsync(p)
  \/ \E r \in asked : Serve(r)
  \/ \E i \in Ids : SendEvent(i)
  \/ TakeAnswer \/ TakeEvent \/ AsyncOp \/ CallbackEnds

\* The agent answers each request, the pools' threads run, no callback calls
\* for ever, and a mutex that stays free is taken.
Fairness ==
  /\ WF_vars(TakeAnswer) /\ WF_vars(TakeEvent) /\ WF_vars(AsyncOp)
  /\ SF_vars(CallbackEnds)
  /\ \A p \in Proxies : /\ WF_vars(\E r \in asked : r.p = p /\ Serve(r))
                        /\ WF_vars(RegisterAsync(p))

Spec == Init /\ [][Next]_vars /\ Fairness

-----------------------------------------------------------------------------
(* Properties *)

Request == [p : Proxies, m : {"open", "use", "register", "unregister", "end", "close"},
            h : 0..MaxId]
Message == [to : Proxies, n : 0..MaxId, event : BOOLEAN]

TypeOK ==
  /\ online \in BOOLEAN /\ session \in 0..MaxSessions /\ counter \in 0..MaxId
  /\ index \in [OwnIndex -> 0..MaxId]
  /\ table \in [Kinds -> [Ids -> Proxies \cup {NoProxy}]]
  /\ subs \in [Ids -> Proxies \cup {NoProxy}] /\ acb \in [Ids -> Proxies \cup {NoProxy}]
  /\ asked \subseteq Request /\ wire \in Seq(Message) /\ pool \in Seq(Message)
  /\ sent \in 0..MaxEvents /\ kind \in KindChoices
  /\ running \in [id : Ids, src : Proxies, cb : Proxies] \cup {Idle}
  /\ inside \in Proxies \cup {NoProxy}
  /\ pc \in [Proxies -> {"none", "open", "idle", "use", "register", "answered",
                         "unregister", "end", "close", "gone"}]
  /\ hdl \in [Proxies -> 0..MaxId] /\ got \in [Proxies -> 0..MaxId]
  /\ opened \in [Proxies -> 0..MaxSessions] /\ quiet \subseteq Proxies
  /\ \A p \in Proxies : pc[p] = "answered" => got[p] # 0

\* A handle that a proxy or a request still carries names what that proxy has
\* opened, or nothing: never what another proxy opened, in this connection or
\* in an earlier one.  The numbers of I2C and SPI begin again with every
\* connection, so theirs only name within the connection.
HandlesNameOwn ==
  \A p \in Proxies : \A n \in {hdl[p]} \cup {r.h : r \in {q \in asked : q.p = p}} :
    (n # 0 /\ (kind[p] \notin OwnIndex \/ opened[p] = session))
       => table[kind[p]][n] \in {p, NoProxy}

\* An event runs the callback of the proxy whose subscription it is from, over
\* the handles of pins and the operations of files, which share one map.
EventsReachOwner == running # Idle => running.cb = running.src

\* Both: no number that the agent gave names another proxy's object.
NumbersNameOwners == HandlesNameOwn /\ EventsReachOwner

\* After unregister( ) has returned the agent has sent the proxy no event that
\* is still on its way; only those the rpc thread has not run yet are left.
NoneAfterUnregister ==
  \A p \in quiet : \A i \in DOMAIN wire : wire[i].event => wire[i].to # p

\* async_op drops an event only while the call that subscribed is not over, or
\* when its connection is.
OnlyEarlyEventsDropped ==
  \A i \in DOMAIN pool :
    acb[pool[i].n] # NoProxy
    \/ LET p == pool[i].to IN
       pc[p] \in {"register", "answered"} \/ opened[p] # session \/ ~online

\* Every call returns, also one made in a callback: neither acb_lock_ nor the
\* rpc thread is waited for by who holds it.
CallsReturn ==
  \A p \in Proxies : (pc[p] \notin {"none", "idle", "gone"}) ~> (pc[p] \in {"idle", "gone"})
=============================================================================
