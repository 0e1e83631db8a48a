----------------------------- MODULE Discovery -----------------------------
(***************************************************************************)
(* Finding agents by multicast: the pinger of client-core/fr-discover.cpp, *)
(* its socket, timer and handler, and the points of an agent               *)
(* (agent/subsys-multicast.cpp), which answer with the listeners that the  *)
(* asker can reach (agent/subsys-listeners.cpp, subsys-netifaces.cpp).     *)
(***************************************************************************)
EXTENDS Naturals, Sequences, FiniteSets

CONSTANTS Points,       \* multicast points of the agent
          Addr,         \* Addr[n]: the address the n-th ping is sent from
          Ifaces,       \* network interfaces: [addr, bits], bits of the host part
          Listeners,    \* configured listeners: <<[addr, service], ...>>; addr 0: any
          NoOne

MaxPings == Len(Addr)
Pings == 1..MaxPings

ASSUME DiscoveryAssumption ==
  /\ Addr \in Seq(Nat) /\ Len(Listeners) \in Nat
  /\ Ifaces \subseteq [addr : Nat, bits : Nat]
  /\ NoOne \notin Points

VARIABLES
  \* the pinger
  ping,      \* the ping whose handler is in handler_
  sock,      \* the ping that opened socket_, 0 when it is closed
  send,      \* async_send_to is pending on it
  recvs,     \* receives that are pending on it
  timer,     \* timeout_ is armed
  done,      \* completions not handled yet: <<operation, ok>>
  ended,     \* pings whose handler was told an error or has returned false
  overlap,   \* a ping was started over a completion of an earlier one
  \* the network
  asks,      \* requests on their way to a point: <<ping, point>>
  answers,   \* answers on their way: <<ping, point, endpoints>>
  \* the agent
  started,   \* points that start_all has reached
  added,     \* listenrs_: the first ones of Listeners
  armed,     \* points with a receive pending
  ready,     \* dispatcher_: points with a request to handle
  serving,   \* the point whose handler runs, or NoOne
  from,      \* the asker in each point's buffer
  lists,     \* the endpoints gathered for it
  taken,     \* history: the requests each point has received
  sent,      \* history: the answers each point has given
  grown      \* listenrs_ has grown under a loop over it

pinger  == <<ping, sock, send, recvs, timer, done, ended, overlap>>
network == <<asks, answers>>
agent   == <<started, added, armed, ready, serving, from, lists, taken, sent, grown>>
discoveryVars == <<pinger, network, agent>>

DiscoveryInit ==
  /\ ping = 0 /\ sock = 0 /\ send = FALSE /\ recvs = 0 /\ timer = FALSE /\ done = <<>>
  /\ ended = {} /\ overlap = FALSE /\ asks = {} /\ answers = {}
  /\ started = {} /\ added = 0 /\ armed = {} /\ ready = <<>> /\ serving = NoOne
  /\ from = [p \in Points |-> 0] /\ lists = [p \in Points |-> {}]
  /\ taken = [p \in Points |-> <<>>] /\ sent = [p \in Points |-> <<>>] /\ grown = FALSE

-----------------------------------------------------------------------------
(* The pinger, on one thread of its io_service *)

Aborted == (IF send THEN <<<<"send", FALSE>>>> ELSE <<>>) \o [i \in 1..recvs |-> <<"recv", FALSE>>]

\* socket_.close( ) with the completions q left: what is pending ends with an error.
CloseSocket(q) == sock' = 0 /\ send' = FALSE /\ recvs' = 0 /\ done' = q \o Aborted

\* Mutant: a second ping does not close the socket of the first.
AsyncPingOpen ==
  /\ ping < MaxPings /\ ping' = ping + 1 /\ sock' = ping' /\ send' = TRUE
  /\ overlap' = (overlap \/ send \/ done # <<>>)
  /\ \E S \in SUBSET Points : asks' = asks \cup ({ping'} \X S)
  /\ UNCHANGED <<recvs, timer, done, ended, answers, agent>>

\* async_ping and ping, mcast: a socket that is open is closed, the handler is
\* replaced, and the request reaches some of the points; a bind may fail.
AsyncPing ==
  /\ ping < MaxPings /\ ping' = ping + 1 /\ sock' = ping' /\ recvs' = 0
  /\ overlap' = (overlap \/ done \o Aborted # <<>>) /\ done' = done \o Aborted
  /\ \/ /\ send' = TRUE /\ UNCHANGED ended
        /\ \E S \in SUBSET Points : asks' = asks \cup ({ping'} \X S)
     \/ send' = FALSE /\ ended' = ended \cup {ping'} /\ UNCHANGED asks
  /\ UNCHANGED <<timer, answers, agent>>

\* An address that is not one of ip: the socket is closed and the call throws.
AsyncPingThrows ==
  /\ sock # 0 /\ CloseSocket(done)
  /\ UNCHANGED <<ping, timer, ended, overlap, network, agent>>

Stop ==
  /\ sock # 0 /\ CloseSocket(done)
  /\ UNCHANGED <<ping, timer, ended, overlap, network, agent>>

SendEnds ==
  /\ send /\ send' = FALSE /\ \E ok \in BOOLEAN : done' = Append(done, <<"send", ok>>)
  /\ UNCHANGED <<ping, sock, recvs, timer, ended, overlap, network, agent>>

\* An answer reaches the socket that asked for it.
RecvEnds ==
  /\ recvs > 0 /\ recvs' = recvs - 1 /\ done' = Append(done, <<"recv", TRUE>>)
  /\ \E a \in answers : a[1] = sock /\ answers' = answers \ {a}
  /\ UNCHANGED <<ping, sock, send, timer, ended, overlap, asks, agent>>

TimerEnds ==
  /\ timer /\ timer' = FALSE /\ done' = Append(done, <<"timer", TRUE>>)
  /\ UNCHANGED <<ping, sock, send, recvs, ended, overlap, network, agent>>

Completes(op, ok) == done # <<>> /\ Head(done) = <<op, ok>>

\* The next receive, which fails at once on a closed socket, and the timer
\* again: a wait that is pending is replaced, one that has ended is not.
Receive ==
  /\ timer' = TRUE
  /\ IF sock = 0 THEN recvs' = 0 /\ done' = Append(Tail(done), <<"recv", FALSE>>)
                 ELSE recvs' = recvs + 1 /\ done' = Tail(done)

HandleSend ==
  /\ Completes("send", TRUE) /\ Receive
  /\ UNCHANGED <<ping, sock, send, ended, overlap, network, agent>>

HandleError ==
  /\ Completes("send", FALSE) \/ Completes("recv", FALSE)
  /\ done' = Tail(done) /\ ended' = ended \cup {ping}
  /\ UNCHANGED <<ping, sock, send, recvs, timer, overlap, network, agent>>

\* Mutant: an answer stops the timer and the next receive goes without one.
HandleRecvUntimed ==
  /\ Completes("recv", TRUE) /\ sock # 0 /\ timer' = FALSE
  /\ recvs' = recvs + 1 /\ done' = Tail(done)
  /\ UNCHANGED <<ping, sock, send, ended, overlap, network, agent>>

\* The handler wants more answers, or has what it asked for.
HandleRecv ==
  /\ Completes("recv", TRUE)
  /\ \/ Receive /\ UNCHANGED ended
     \/ done' = Tail(done) /\ ended' = ended \cup {ping} /\ UNCHANGED <<recvs, timer>>
  /\ UNCHANGED <<ping, sock, send, overlap, network, agent>>

HandleTimeout ==
  /\ Completes("timer", TRUE)
  /\ CloseSocket(Tail(done))
  /\ UNCHANGED <<ping, timer, ended, overlap, network, agent>>

-----------------------------------------------------------------------------
(* The agent *)

Environment == UNCHANGED <<pinger, started, added>>

\* multicast::start, in main, before the listeners start.
StartPoint(p) ==
  /\ p \notin started /\ started' = started \cup {p} /\ armed' = armed \cup {p}
  /\ UNCHANGED <<pinger, network, added, ready, serving, from, lists, taken, sent, grown>>

\* listeners::add_listener, in main: emplace_back without a lock.
AddListener ==
  /\ started = Points /\ added < Len(Listeners) /\ added' = added + 1
  /\ grown' \in IF serving = NoOne THEN {grown} ELSE BOOLEAN
  /\ UNCHANGED <<pinger, network, started, armed, ready, serving, from, lists, taken, sent>>

\* A request is in the point's buffer; a receive that fails is not repeated.
Request(p) ==
  /\ p \in armed /\ armed' = armed \ {p}
  /\ \/ \E n \in Pings :
          /\ <<n, p>> \in asks /\ asks' = asks \ {<<n, p>>}
          /\ from' = [from EXCEPT ![p] = n] /\ taken' = [taken EXCEPT ![p] = Append(@, n)]
          /\ ready' = Append(ready, p)
     \/ UNCHANGED <<asks, from, taken, ready>>
  /\ UNCHANGED <<answers, serving, lists, sent, grown>> /\ Environment

\* iface_info::check: the address is in the network of the interface.
Check(i, a) == i.addr \div 2^i.bits = a \div 2^i.bits
\* check_listener: it accepts on the interface, or on all of them.
CheckListener(i, l) == l.addr = 0 \/ Check(i, l.addr)
\* mcast_res
Reachable(a, n) ==
  {<<x[1].addr, Listeners[x[2]].service>> : x \in
     {y \in Ifaces \X (1..n) : Check(y[1], a) /\ CheckListener(y[1], Listeners[y[2]])}}

\* Mutant: start_recv before req_res.
HandleReceiveEarly(p) ==
  /\ ready # <<>> /\ Head(ready) = p /\ serving = NoOne
  /\ serving' = p /\ ready' = Tail(ready) /\ armed' = armed \cup {p}
  /\ lists' = [lists EXCEPT ![p] = Reachable(Addr[from[p]], added)]
  /\ UNCHANGED <<network, from, taken, sent, grown>> /\ Environment

\* handle_receive, by the strand: req_res asks the listeners ...
HandleReceive(p) ==
  /\ ready # <<>> /\ Head(ready) = p /\ serving = NoOne
  /\ serving' = p /\ ready' = Tail(ready)
  /\ lists' = [lists EXCEPT ![p] = Reachable(Addr[from[p]], added)]
  /\ UNCHANGED <<network, armed, from, taken, sent, grown>> /\ Environment

\* ... and answers who is in from; then the point listens again.
Respond(p) ==
  /\ serving = p /\ serving' = NoOne /\ armed' = armed \cup {p}
  /\ \/ /\ answers' = answers \cup {<<from[p], p, lists[p]>>}
        /\ sent' = [sent EXCEPT ![p] = Append(@, <<from[p], lists[p]>>)]
     \/ sent' = [sent EXCEPT ![p] = Append(@, <<NoOne, {}>>)] /\ UNCHANGED answers
  /\ from' = [from EXCEPT ![p] = 0]
  /\ UNCHANGED <<asks, ready, lists, taken, grown>> /\ Environment

-----------------------------------------------------------------------------

Handlers == HandleSend \/ HandleError \/ HandleRecv \/ HandleTimeout
Agent == \E p \in Points : StartPoint(p) \/ Request(p) \/ HandleReceive(p) \/ Respond(p)

DiscoveryNext ==
  /\ ~grown
  /\ \/ AsyncPing \/ AsyncPingThrows \/ Stop \/ SendEnds \/ RecvEnds \/ TimerEnds
     \/ Handlers \/ AddListener \/ Agent

\* Timers end, sends end and the io_service runs its handlers; nothing is
\* assumed of the network and of the agent.
PingFairness ==
  WF_discoveryVars(~grown /\ TimerEnds) /\ WF_discoveryVars(~grown /\ SendEnds) /\ WF_discoveryVars(~grown /\ Handlers)

DiscoverySpec == DiscoveryInit /\ [][DiscoveryNext]_discoveryVars /\ PingFairness

-----------------------------------------------------------------------------
(* Properties *)

Completions == {"send", "recv", "timer"} \X BOOLEAN
\* What a point can answer with.
Offers == {<<x[1].addr, Listeners[x[2]].service>> : x \in Ifaces \X (1..Len(Listeners))}

\* The variables have their types; requests are of pings that were started, and
\* so are the pings whose handler was told how they ended.
DiscoveryTypeOK ==
  /\ ping \in 0..MaxPings /\ sock \in 0..ping /\ ended \subseteq 1..ping
  /\ send \in BOOLEAN /\ recvs \in Nat /\ timer \in BOOLEAN /\ overlap \in BOOLEAN
  /\ done \in Seq(Completions)
  /\ asks \subseteq (1..ping) \X Points
  /\ answers \subseteq Pings \X Points \X SUBSET Offers
  /\ added \in 0..Len(Listeners) /\ armed \subseteq started /\ started \subseteq Points
  /\ ready \in Seq(Points) /\ serving \in Points \cup {NoOne}
  /\ from \in [Points -> Pings \cup {0}] /\ lists \in [Points -> SUBSET Offers]
  /\ taken \in [Points -> Seq(Pings)] /\ grown \in BOOLEAN
  /\ sent \in [Points -> Seq((Pings \cup {NoOne}) \X SUBSET Offers)]

\* One receive at a time writes to data_ and from_, unless a ping was started
\* while a completion of an earlier one was not handled yet.
OneReceive == recvs > 1 => overlap

\* A point answers its requests one by one, each to who asked, with endpoints
\* that this asker can reach.
AnswersAreAsked ==
  \A p \in Points : \A k \in DOMAIN sent[p] : LET a == sent[p][k] IN
    a[1] # NoOne => /\ k <= Len(taken[p]) /\ a[1] = taken[p][k]
                     /\ a[2] \subseteq Reachable(Addr[a[1]], Len(Listeners))

\* The handler of the last ping is told how it ended, whatever the network
\* loses and the agents do: some ping is the last one.
PingEnds == \A n \in Pings : (ping = n) ~> (n \in ended \/ ping > n \/ grown)
=============================================================================
