---------------------------- MODULE ClientProofs ----------------------------
(***************************************************************************)
(* Theorems about the client core and its proxies (ClientOperations) and   *)
(* about the objects that the Lua client keeps over them (LuaObjects), for *)
(* every value of their constants.  The two share no name.                 *)
(***************************************************************************)
EXTENDS ClientOperations, LuaObjects, TLAPS

-----------------------------------------------------------------------------
(***************************************************************************)
(* ClientOperations.  The inductive invariant is IInv: the types, that a   *)
(* call has a request or an answer on its way and never both (Pending),    *)
(* that a handle and an operation id each belong to one proxy wherever they*)
(* are kept (HandlesAgree, OperationsAgree), what a proxy that has         *)
(* unregistered has behind it (Silence), and that every event on its way   *)
(* has its callback or the call that brings it (Covered).                  *)
(***************************************************************************)

\* A proxy in one of these waits for the answer to one request.
Waiting == {"open", "use", "register", "unregister", "end", "close"}

\* A request is for the call its proxy is in, or for the close of a destructor, and
\* it names the proxy's handle; who is answered has no request left.
Requests ==
  \A r \in asked : /\ pc[r.p] = r.m \/ (pc[r.p] = "gone" /\ r.m = "close")
                   /\ r.h = hdl[r.p]
Answers ==
  \A i \in DOMAIN wire : ~wire[i].event =>
    /\ pc[wire[i].to] \in Waiting
    /\ \A r \in asked : r.p # wire[i].to
    /\ \A j \in DOMAIN wire : ~wire[j].event /\ wire[j].to = wire[i].to => j = i
Events ==
  /\ \A i \in DOMAIN wire : wire[i].event => wire[i].n \in Ids
  /\ \A i \in DOMAIN pool : pool[i].n \in Ids
Lives ==
  /\ ~online => asked = {} /\ wire = <<>> /\ \A i \in Ids : subs[i] = NoProxy
  /\ \A p \in Proxies :
       /\ opened[p] <= session
       /\ pc[p] = "open" => online /\ opened[p] = session
       /\ pc[p] \in {"none", "open"} => hdl[p] = 0
       /\ got[p] # 0 => pc[p] = "answered"
       /\ pc[p] \in {"register", "answered", "unregister"} => kind[p] \in {"gpio", "file"}
Pending == Requests /\ Answers /\ Events /\ Lives

\* A proxy that a handle of one service leads to: the agent's table, the proxy itself,
\* or the answer on its way.
Numbered(n, p) ==
  \/ hdl[p] = n
  \/ pc[p] = "open" /\ \E i \in DOMAIN wire : ~wire[i].event /\ wire[i].to = p /\ wire[i].n = n
Handle(k, n, p) ==
  \/ table[k][n] = p
  \/ kind[p] = k /\ (k \in OwnIndex => opened[p] = session) /\ Numbered(n, p)
Top(k) == IF k \in OwnIndex THEN index[k] ELSE counter
HandlesAgree ==
  \A k \in Kinds, n \in Ids, p \in Proxies : Handle(k, n, p) =>
    /\ n <= Top(k)
    /\ \A q \in Proxies : Handle(k, n, q) => q = p

\* A proxy that an operation id leads to: the agent's subscriptions, acb_, events, the
\* register call that is answered, and for a pin its handle.
Operation(n, p) ==
  \/ subs[n] = p \/ acb[n] = p \/ got[p] = n
  \/ kind[p] = "gpio" /\ Numbered(n, p)
  \/ \E i \in DOMAIN wire : /\ wire[i].to = p /\ wire[i].n = n
                            /\ wire[i].event \/ pc[p] = "register"
  \/ \E i \in DOMAIN pool : pool[i].to = p /\ pool[i].n = n
OperationsAgree ==
  \A n \in Ids, p \in Proxies : Operation(n, p) =>
    /\ n <= counter
    /\ \A q \in Proxies : Operation(n, q) => q = p

\* Once the answer of unregister is on its way, nothing is sent to the proxy behind it.
Silence ==
  /\ \A p \in quiet : /\ pc[p] \notin {"register", "answered"}
                      /\ \A i \in Ids : subs[i] # p
  /\ \A i \in DOMAIN wire :
       (~wire[i].event /\ wire[i].n # 0 /\ pc[wire[i].to] = "unregister") =>
          /\ \A n \in Ids : subs[n] # wire[i].to
          /\ \A j \in DOMAIN wire : j > i /\ wire[j].event => wire[j].to # wire[i].to

\* An operation the agent sends events for, or an event that has not run.
MaySend(n, p) ==
  \/ subs[n] = p
  \/ \E i \in DOMAIN wire : wire[i].event /\ wire[i].to = p /\ wire[i].n = n
  \/ \E i \in DOMAIN pool : pool[i].to = p /\ pool[i].n = n
Brought(n, p) ==
  \/ acb[n] # NoProxy \/ opened[p] # session \/ ~online \/ got[p] = n
  \/ pc[p] = "register" /\ \E i \in DOMAIN wire : ~wire[i].event /\ wire[i].to = p /\ wire[i].n = n
Covered ==
  \A n \in Ids, p \in Proxies : MaySend(n, p) => pc[p] \notin {"none", "open"} /\ Brought(n, p)

IInv ==
  /\ TypeOK /\ Pending /\ HandlesAgree /\ OperationsAgree
  /\ EventsReachOwner /\ Silence /\ NoneAfterUnregister /\ Covered
-----------------------------------------------------------------------------
(* Sequences that grow at their end and shrink at their head               *)

LEMMA Appended ==
  ASSUME NEW S, NEW s \in Seq(S), NEW e \in S
  PROVE  /\ Append(s, e) \in Seq(S)
         /\ \A i \in DOMAIN Append(s, e) : \/ i \in DOMAIN s /\ Append(s, e)[i] = s[i]
                                           \/ i = Len(s) + 1 /\ Append(s, e)[i] = e
         /\ \A i \in DOMAIN s : /\ i \in DOMAIN Append(s, e) /\ Append(s, e)[i] = s[i]
                                /\ i < Len(s) + 1
         /\ Len(s) + 1 \in DOMAIN Append(s, e) /\ Append(s, e)[Len(s) + 1] = e
OBVIOUS

LEMMA Shifted ==
  ASSUME NEW S, NEW s \in Seq(S), s # <<>>
  PROVE  /\ Tail(s) \in Seq(S) /\ Head(s) \in S /\ Head(s) = s[1] /\ 1 \in DOMAIN s
         /\ \A i \in DOMAIN Tail(s) : i \in Nat /\ i + 1 \in DOMAIN s /\ i + 1 > 1
                                      /\ Tail(s)[i] = s[i + 1]
OBVIOUS

-----------------------------------------------------------------------------
(* Where a number leads, when no action but an open or a register of a     *)
(* file gives a new one                                                    *)

LEMMA HandlesKept ==
  ASSUME HandlesAgree, \A k \in Kinds : Top(k) <= Top(k)',
         \A k \in Kinds : Top(k) \in Nat /\ Top(k)' \in Nat, MaxId \in Nat,
         \A k \in Kinds, n \in Ids, p \in Proxies : Handle(k, n, p)' => Handle(k, n, p)
  PROVE  HandlesAgree'
BY DEF HandlesAgree, Ids

LEMMA HandlesNew ==
  ASSUME HandlesAgree, NEW m \in Nat, NEW l \in Kinds, NEW o \in Proxies,
         m > Top(l), \A k \in Kinds : Top(k) \in Nat /\ Top(k)' \in Nat, MaxId \in Nat,
         \A k \in Kinds : Top(k) <= Top(k)', m <= Top(l)',
         \A k \in Kinds, n \in Ids, p \in Proxies :
            Handle(k, n, p)' => Handle(k, n, p) \/ (k = l /\ n = m /\ p = o)
  PROVE  HandlesAgree'
<1> SUFFICES ASSUME NEW k \in Kinds, NEW n \in Ids, NEW p \in Proxies, Handle(k, n, p)'
             PROVE  n <= Top(k)' /\ \A q \in Proxies : Handle(k, n, q)' => q = p
  BY DEF HandlesAgree
<1>1. CASE Handle(k, n, p)
  <2>1. n <= Top(k) /\ \A q \in Proxies : Handle(k, n, q) => q = p
    BY <1>1 DEF HandlesAgree
  <2>2. ~(k = l /\ n = m)
    BY <2>1 DEF Ids
  <2> QED
    BY <2>1, <2>2 DEF Ids
<1>2. CASE k = l /\ n = m /\ p = o
  <2>1. \A q \in Proxies : ~Handle(k, n, q)
    BY <1>2 DEF HandlesAgree
  <2> QED
    BY <1>2, <2>1
<1> QED
  BY <1>1, <1>2

LEMMA OperationsKept ==
  ASSUME OperationsAgree, counter \in Nat, counter' \in Nat, counter <= counter', MaxId \in Nat,
         \A n \in Ids, p \in Proxies : Operation(n, p)' => Operation(n, p)
  PROVE  OperationsAgree'
BY DEF OperationsAgree, Ids

LEMMA OperationsNew ==
  ASSUME OperationsAgree, counter \in Nat, counter' = counter + 1, MaxId \in Nat, NEW o \in Proxies,
         \A n \in Ids, p \in Proxies :
            Operation(n, p)' => Operation(n, p) \/ (n = counter + 1 /\ p = o)
  PROVE  OperationsAgree'
<1> SUFFICES ASSUME NEW n \in Ids, NEW p \in Proxies, Operation(n, p)'
             PROVE  n <= counter' /\ \A q \in Proxies : Operation(n, q)' => q = p
  BY DEF OperationsAgree
<1>1. CASE Operation(n, p)
  <2>1. n <= counter /\ \A q \in Proxies : Operation(n, q) => q = p
    BY <1>1 DEF OperationsAgree
  <2> QED
    BY <2>1 DEF Ids
<1>2. CASE n = counter + 1 /\ p = o
  <2>1. \A q \in Proxies : ~Operation(n, q)
    BY <1>2 DEF OperationsAgree
  <2> QED
    BY <1>2, <2>1
<1> QED
  BY <1>1, <1>2

-----------------------------------------------------------------------------
(* The connection *)

States == {"none", "open", "idle", "use", "register", "answered", "unregister", "end", "close",
           "gone"}

LEMMA KindsTyped == KindChoices \subseteq [Proxies -> Kinds]
BY ProxiesAssumption

LEMMA Begins == Init => IInv
<1> SUFFICES ASSUME Init PROVE IInv
  OBVIOUS
<1> USE ProxiesAssumption, BoundsAssumption DEF Init, Unused
<1>1. TypeOK
  <2>1. <<>> \in Seq(Message) /\ 0 \in 0..MaxId /\ 0 \in 0..MaxSessions /\ 0 \in 0..MaxEvents
    OBVIOUS
  <2> QED
    BY <2>1 DEF TypeOK
<1>2. \A p \in Proxies : p # NoProxy /\ hdl[p] = 0 /\ got[p] = 0 /\ opened[p] = 0 /\ pc[p] = "none"
  OBVIOUS
<1>3. DOMAIN wire = {} /\ DOMAIN pool = {}
  OBVIOUS
<1>4. \A n \in Ids : n # 0
  BY DEF Ids
<1>5. Pending
  BY <1>2, <1>3 DEF Pending, Requests, Answers, Events, Lives
<1>6. HandlesAgree /\ OperationsAgree
  BY <1>2, <1>3, <1>4 DEF HandlesAgree, Handle, Numbered, OperationsAgree, Operation
<1>7. EventsReachOwner /\ Silence /\ NoneAfterUnregister /\ Covered
  BY <1>2, <1>3 DEF EventsReachOwner, Silence, NoneAfterUnregister, Covered, MaySend
<1> QED
  BY <1>5, <1>1, <1>6, <1>7 DEF IInv

LEMMA ConnectPreserves ==
  ASSUME IInv, Connect
  PROVE  IInv'
<1> USE ProxiesAssumption, BoundsAssumption DEF agent, core, proxy
<1>1. TypeOK'
  <2>1. session' \in 0..MaxSessions /\ index' \in [OwnIndex -> 0..MaxId]
    BY DEF Connect, IInv, TypeOK
  <2>2. /\ table' \in [Kinds -> [Ids -> Proxies \cup {NoProxy}]]
        /\ subs' \in [Ids -> Proxies \cup {NoProxy}]
    BY DEF Connect, Unused
  <2> QED
    BY <2>1, <2>2 DEF Connect, IInv, TypeOK
<1>2. Requests'
  BY DEF Connect, IInv, Pending, Requests
<1>3. Answers'
  BY DEF Connect, IInv, Pending, Answers
<1>4. Events'
  BY DEF Connect, IInv, Pending, Events
<1>5. Lives'
  BY DEF Connect, IInv, TypeOK, Pending, Lives
<1>6. \A k \in Kinds, n \in Ids, q \in Proxies : Handle(k, n, q)' => Handle(k, n, q)
  BY DEF Connect, IInv, TypeOK, Pending, Lives, Handle, Numbered, Unused
<1>7. \A n \in Ids, q \in Proxies : Operation(n, q)' => Operation(n, q)
  BY DEF Connect, Operation, Numbered, Unused
<1>8. HandlesAgree' /\ OperationsAgree'
  <2>1. counter \in Nat /\ counter' = counter
    BY DEF Connect, IInv, TypeOK
  <2>2. \A k \in OwnIndex, n \in Ids, p \in Proxies : ~Handle(k, n, p)'
    BY DEF Connect, IInv, TypeOK, Pending, Lives, Handle, Unused, Kinds, OwnIndex
  <2>3. \A k \in Kinds \ OwnIndex : Top(k)' = Top(k)
    BY <2>1 DEF Top
  <2>4. HandlesAgree'
    BY <1>6, <2>2, <2>3 DEF IInv, HandlesAgree
  <2> QED
    BY <1>7, <2>1, <2>4, OperationsKept DEF IInv
<1>9. EventsReachOwner'
  BY DEF Connect, IInv, EventsReachOwner
<1>10. Silence'
  BY DEF Connect, IInv, Pending, Lives, Silence, Unused
<1>11. NoneAfterUnregister'
  BY DEF Connect, IInv, NoneAfterUnregister
<1>12. Covered'
  BY DEF Connect, IInv, TypeOK, Pending, Lives, Covered, MaySend, Brought, Unused
<1> QED
  BY <1>1, <1>2, <1>3, <1>4, <1>5, <1>8, <1>9, <1>10, <1>11, <1>12 DEF IInv, Pending

LEMMA DisconnectPreserves ==
  ASSUME IInv, Disconnect
  PROVE  IInv'
<1> USE ProxiesAssumption, BoundsAssumption DEF agent, core, proxy
<1>0. /\ pc' \in [Proxies -> States]
      /\ \A p \in Proxies : /\ pc'[p] = pc[p] \/ (pc[p] \in Waiting /\ pc'[p] \in {"gone", "idle"})
                            /\ pc'[p] \notin Waiting
      /\ asked' = {} /\ wire' = <<>> /\ DOMAIN wire' = {} /\ ~online'
  BY DEF Disconnect, IInv, TypeOK, States, Waiting
<1>1. TypeOK'
  <2>1. <<>> \in Seq(Message)
    OBVIOUS
  <2>2. /\ table' \in [Kinds -> [Ids -> Proxies \cup {NoProxy}]]
        /\ subs' \in [Ids -> Proxies \cup {NoProxy}]
    BY DEF Disconnect, Unused
  <2> QED
    BY <1>0, <2>1, <2>2 DEF Disconnect, IInv, TypeOK
<1>2. Requests'
  BY <1>0 DEF Requests
<1>3. Answers'
  BY <1>0 DEF Answers
<1>4. Events'
  BY <1>0 DEF Disconnect, IInv, Pending, Events
<1>5. Lives'
  BY <1>0 DEF Disconnect, IInv, Pending, Lives, Unused
<1>6. \A k \in Kinds, n \in Ids, q \in Proxies : Handle(k, n, q)' => Handle(k, n, q)
  BY <1>0 DEF Disconnect, Handle, Numbered, Unused
<1>7. \A n \in Ids, q \in Proxies : Operation(n, q)' => Operation(n, q)
  BY <1>0 DEF Disconnect, Operation, Numbered, Unused
<1>8. HandlesAgree' /\ OperationsAgree'
  <2>1. /\ counter \in Nat /\ counter' = counter
        /\ \A k \in Kinds : Top(k) \in Nat /\ Top(k)' \in Nat /\ Top(k) <= Top(k)'
    BY DEF Disconnect, IInv, TypeOK, Top
  <2> QED
    BY <1>6, <1>7, <2>1, HandlesKept, OperationsKept DEF IInv
<1>9. EventsReachOwner'
  BY <1>0 DEF Disconnect, IInv, EventsReachOwner
<1>10. Silence'
  BY <1>0 DEF Disconnect, IInv, TypeOK, Silence, Unused
<1>11. NoneAfterUnregister'
  BY <1>0 DEF NoneAfterUnregister
<1>12. Covered'
  BY <1>0 DEF Disconnect, IInv, Covered, MaySend, Brought, Unused
<1> QED
  BY <1>1, <1>2, <1>3, <1>4, <1>5, <1>8, <1>9, <1>10, <1>11, <1>12 DEF IInv, Pending

-----------------------------------------------------------------------------
(* The calls of the application *)

LEMMA WireTyped ==
  ASSUME TypeOK
  PROVE  /\ \A i \in DOMAIN wire : /\ wire[i] \in Message /\ wire[i].to \in Proxies
                                    /\ wire[i].n \in 0..MaxId /\ wire[i].event \in BOOLEAN
         /\ \A i \in DOMAIN pool : pool[i].to \in Proxies /\ pool[i].n \in 0..MaxId
<1>1. wire \in Seq(Message) /\ pool \in Seq(Message)
  BY DEF TypeOK
<1>2. \A m \in Message : m.to \in Proxies /\ m.n \in 0..MaxId /\ m.event \in BOOLEAN
  BY DEF Message
<1>3. (\A i \in DOMAIN wire : wire[i] \in Message) /\ \A i \in DOMAIN pool : pool[i] \in Message
  BY <1>1
<1> QED
  BY <1>2, <1>3

\* Who waits for nothing has no answer and no request on its way.
LEMMA NothingOnItsWay ==
  ASSUME IInv, NEW p \in Proxies, pc[p] \notin Waiting
  PROVE  /\ \A i \in DOMAIN wire : ~wire[i].event => wire[i].to # p
         /\ pc[p] # "gone" => \A r \in asked : r.p # p
<1>1. \A r \in asked : r.m \in Waiting
  BY DEF IInv, TypeOK, Request, Waiting
<1> QED
  BY <1>1 DEF IInv, Pending, Answers, Requests

\* A new request is the only one of its proxy.
LEMMA AskKeeps ==
  ASSUME IInv, NEW p \in Proxies, NEW m \in Waiting, Ask(p, m), pc[p] \in {"none", "idle"},
         pc' \in [Proxies -> States], \A q \in Proxies \ {p} : pc'[q] = pc[q],
         pc'[p] = m \/ (m = "close" /\ pc'[p] = "gone"),
         UNCHANGED <<wire, pool, hdl>>
  PROVE  asked' \subseteq Request /\ Requests' /\ Answers' /\ Events'
<1>1. asked' = asked \cup {[p |-> p, m |-> m, h |-> hdl[p]]}
  BY DEF Ask
<1>2. [p |-> p, m |-> m, h |-> hdl[p]] \in Request
  BY DEF Request, Waiting, IInv, TypeOK
<1>3. /\ \A i \in DOMAIN wire : ~wire[i].event => wire[i].to # p
      /\ \A r \in asked : r.p # p
  BY NothingOnItsWay DEF Waiting
<1>4. asked \subseteq Request /\ \A r \in asked : r.p \in Proxies
  BY DEF IInv, TypeOK, Request
<1>5. \A i \in DOMAIN wire : wire[i].to \in Proxies
  BY WireTyped DEF IInv
<1>6. Requests'
  BY <1>1, <1>3, <1>4 DEF IInv, Pending, Requests
<1>7. Answers'
  BY <1>1, <1>3, <1>5 DEF IInv, Pending, Answers
<1>8. Events'
  BY DEF IInv, Pending, Events
<1> QED
  BY <1>1, <1>2, <1>4, <1>6, <1>7, <1>8

LEMMA OpenPreserves ==
  ASSUME IInv, NEW p \in Proxies, Open(p)
  PROVE  IInv'
<1> USE ProxiesAssumption, BoundsAssumption DEF agent, core, proxy
<1>0. /\ pc[p] = "none" /\ online /\ pc' = [pc EXCEPT ![p] = "open"]
      /\ pc' \in [Proxies -> States] /\ pc'[p] = "open" /\ \A q \in Proxies \ {p} : pc'[q] = pc[q]
      /\ opened'[p] = session /\ \A q \in Proxies \ {p} : opened'[q] = opened[q]
      /\ hdl[p] = 0 /\ got[p] = 0 /\ Ask(p, "open") /\ \A n \in Ids : n # 0
      /\ UNCHANGED <<online, session, agent, wire, sent, core, kind, hdl, got, quiet>>
  BY DEF Open, IInv, TypeOK, States, Pending, Lives, Ids
<1>n. /\ \A i \in DOMAIN wire : ~wire[i].event => wire[i].to # p
      /\ \A r \in asked : r.p # p
  BY <1>0, NothingOnItsWay DEF Waiting
<1>a. asked' \subseteq Request /\ Requests' /\ Answers' /\ Events'
  BY <1>0, AskKeeps DEF Waiting
<1>1. TypeOK'
  <2>1. /\ pc' \in [Proxies -> States] /\ opened' \in [Proxies -> 0..MaxSessions]
        /\ quiet' \subseteq Proxies
    BY <1>0 DEF Open, IInv, TypeOK
  <2> QED
    BY <1>0, <1>a, <2>1 DEF IInv, TypeOK
<1>2. Requests'
  BY <1>a
<1>3. Answers'
  BY <1>a
<1>4. Events'
  BY <1>a
<1>5. Lives'
  BY <1>0, <1>n DEF IInv, TypeOK, Pending, Lives
<1>6. \A k \in Kinds, n \in Ids, q \in Proxies : Handle(k, n, q)' => Handle(k, n, q)
  BY <1>0, <1>n DEF Handle, Numbered
<1>7. \A n \in Ids, q \in Proxies : Operation(n, q)' => Operation(n, q)
  BY <1>0, <1>n DEF Operation, Numbered
<1>8. HandlesAgree' /\ OperationsAgree'
  <2>1. /\ counter \in Nat /\ counter' = counter
        /\ \A k \in Kinds : Top(k) \in Nat /\ Top(k)' \in Nat /\ Top(k) <= Top(k)'
    BY DEF Open, IInv, TypeOK, Top
  <2> QED
    BY <1>6, <1>7, <2>1, HandlesKept, OperationsKept DEF IInv
<1>9. EventsReachOwner'
  BY <1>0, <1>n DEF IInv, EventsReachOwner
<1>10. Silence'
  BY <1>0, <1>n DEF IInv, Silence
<1>11. NoneAfterUnregister'
  BY <1>0, <1>n DEF IInv, NoneAfterUnregister
<1>12. Covered'
  BY <1>0, <1>n DEF IInv, Covered, MaySend, Brought
<1> QED
  BY <1>1, <1>2, <1>3, <1>4, <1>5, <1>8, <1>9, <1>10, <1>11, <1>12 DEF IInv, Pending

LEMMA CallPreserves ==
  ASSUME IInv, NEW p \in Proxies, NEW m, Call(p, m), UNCHANGED <<pool, running, acb>>,
         inside' \in Proxies \cup {NoProxy}
  PROVE  IInv'
<1> USE ProxiesAssumption, BoundsAssumption DEF agent, core, proxy
<1>0. /\ pc[p] = "idle" /\ online /\ m \in {"use", "register", "unregister", "end"}
      /\ m \in {"register", "unregister"} => kind[p] \in {"gpio", "file"}
      /\ pc' = [pc EXCEPT ![p] = m] /\ Ask(p, m) /\ \A n \in Ids : n # 0
      /\ pc' \in [Proxies -> States] /\ pc'[p] = m /\ \A q \in Proxies \ {p} : pc'[q] = pc[q]
      /\ quiet' \subseteq quiet /\ m = "register" => p \notin quiet'
      /\ UNCHANGED <<online, session, agent, wire, sent, kind, hdl, opened, got>>
  <2>1. pc[p] = "idle" /\ kind[p] \in Kinds /\ m \in Calls[kind[p]] \ {"open", "close"}
    BY KindsTyped DEF Call, IInv, TypeOK
  <2>2. /\ m \in {"use", "register", "unregister", "end"}
        /\ m \in {"register", "unregister"} => kind[p] \in {"gpio", "file"}
    BY <2>1 DEF Calls, Kinds, GpioCalls, FileCalls, FsCalls, I2cCalls, SpiCalls
  <2> QED
    BY <2>1, <2>2 DEF Call, IInv, TypeOK, States, Ids
<1>n. /\ \A i \in DOMAIN wire : ~wire[i].event => wire[i].to # p
      /\ \A r \in asked : r.p # p
  BY <1>0, NothingOnItsWay DEF Waiting
<1>a. asked' \subseteq Request /\ Requests' /\ Answers' /\ Events'
  BY <1>0, AskKeeps DEF Waiting
<1>1. TypeOK'
  <2>1. /\ pc' \in [Proxies -> States] /\ opened' \in [Proxies -> 0..MaxSessions]
        /\ quiet' \subseteq Proxies
    BY <1>0 DEF Call, IInv, TypeOK
  <2> QED
    BY <1>0, <1>a, <2>1 DEF IInv, TypeOK
<1>2. Requests'
  BY <1>a
<1>3. Answers'
  BY <1>a
<1>4. Events'
  BY <1>a
<1>5. Lives'
  BY <1>0, <1>n DEF IInv, Pending, Lives
<1>6. \A k \in Kinds, n \in Ids, q \in Proxies : Handle(k, n, q)' => Handle(k, n, q)
  BY <1>0, <1>n DEF Handle, Numbered
<1>7. \A n \in Ids, q \in Proxies : Operation(n, q)' => Operation(n, q)
  BY <1>0, <1>n DEF Operation, Numbered
<1>8. HandlesAgree' /\ OperationsAgree'
  <2>1. /\ counter \in Nat /\ counter' = counter
        /\ \A k \in Kinds : Top(k) \in Nat /\ Top(k)' \in Nat /\ Top(k) <= Top(k)'
    BY DEF Call, IInv, TypeOK, Top
  <2> QED
    BY <1>6, <1>7, <2>1, HandlesKept, OperationsKept DEF IInv
<1>9. EventsReachOwner'
  BY <1>0, <1>n DEF IInv, EventsReachOwner
<1>10. Silence'
  BY <1>0, <1>n DEF Call, IInv, Silence
<1>11. NoneAfterUnregister'
  BY <1>0, <1>n DEF Call, IInv, NoneAfterUnregister
<1>12. Covered'
  <2>1. ASSUME NEW n \in Ids, NEW q \in Proxies, MaySend(n, q)'
        PROVE  pc'[q] \notin {"none", "open"} /\ Brought(n, q)'
    <3>1. MaySend(n, q)
      BY <1>0, <2>1 DEF MaySend
    <3>2. pc[q] \notin {"none", "open"} /\ Brought(n, q)
      BY <3>1 DEF IInv, Covered
    <3> QED
      BY <1>0, <1>n, <3>2 DEF Brought
  <2> QED
    BY <2>1 DEF Covered
<1> QED
  BY <1>1, <1>2, <1>3, <1>4, <1>5, <1>8, <1>9, <1>10, <1>11, <1>12 DEF IInv, Pending

LEMMA DestroyPreserves ==
  ASSUME IInv, NEW p \in Proxies, Destroy(p)
  PROVE  IInv'
<1> USE ProxiesAssumption, BoundsAssumption DEF agent, core, proxy
<1>0. /\ pc[p] = "idle" /\ pc' \in [Proxies -> States] /\ pc'[p] \in {"close", "gone"}
      /\ \A q \in Proxies \ {p} : pc'[q] = pc[q] /\ \A n \in Ids : n # 0
      /\ UNCHANGED <<online, session, agent, wire, sent, core, kind, hdl, opened, got, quiet>>
  <2>1. /\ pc \in [Proxies -> States] /\ pc[p] = "idle"
        /\ \E l \in {"close", "gone"} : pc' = [pc EXCEPT ![p] = l]
    BY DEF Destroy, IInv, TypeOK, States
  <2>2. /\ pc' \in [Proxies -> States] /\ pc'[p] \in {"close", "gone"}
        /\ \A q \in Proxies \ {p} : pc'[q] = pc[q]
    BY <2>1 DEF States
  <2> QED
    BY <2>1, <2>2 DEF Destroy, Ids
<1>n. /\ \A i \in DOMAIN wire : ~wire[i].event => wire[i].to # p
      /\ \A r \in asked : r.p # p
  BY <1>0, NothingOnItsWay DEF Waiting
<1>a. asked' \subseteq Request /\ Requests' /\ Answers' /\ Events'
  <2>1. CASE online
    BY <1>0, <2>1, AskKeeps DEF Destroy, Waiting
  <2>2. CASE ~online
    <3>1. asked' = asked /\ asked \subseteq Request /\ \A r \in asked : r.p \in Proxies
      BY <2>2 DEF Destroy, IInv, TypeOK, Request
    <3>2. \A i \in DOMAIN wire : wire[i].to \in Proxies
      BY WireTyped DEF IInv
    <3> QED
      BY <1>0, <1>n, <3>1, <3>2 DEF IInv, Pending, Requests, Answers, Events
  <2> QED
    BY <2>1, <2>2
<1>1. TypeOK'
  <2>1. /\ pc' \in [Proxies -> States] /\ opened' \in [Proxies -> 0..MaxSessions]
        /\ quiet' \subseteq Proxies
    BY <1>0 DEF IInv, TypeOK
  <2> QED
    BY <1>0, <1>a, <2>1 DEF IInv, TypeOK
<1>2. Requests'
  BY <1>a
<1>3. Answers'
  BY <1>a
<1>4. Events'
  BY <1>a
<1>5. Lives'
  BY <1>0, <1>n DEF Destroy, IInv, Pending, Lives
<1>6. \A k \in Kinds, n \in Ids, q \in Proxies : Handle(k, n, q)' => Handle(k, n, q)
  BY <1>0, <1>n DEF Handle, Numbered
<1>7. \A n \in Ids, q \in Proxies : Operation(n, q)' => Operation(n, q)
  BY <1>0, <1>n DEF Operation, Numbered
<1>8. HandlesAgree' /\ OperationsAgree'
  <2>1. /\ counter \in Nat /\ counter' = counter
        /\ \A k \in Kinds : Top(k) \in Nat /\ Top(k)' \in Nat /\ Top(k) <= Top(k)'
    BY DEF Destroy, IInv, TypeOK, Top
  <2> QED
    BY <1>6, <1>7, <2>1, HandlesKept, OperationsKept DEF IInv
<1>9. EventsReachOwner'
  BY <1>0, <1>n DEF IInv, EventsReachOwner
<1>10. Silence'
  <2>1. \A q \in quiet : pc'[q] \notin {"register", "answered"} /\ \A i \in Ids : subs[i] # q
    BY <1>0 DEF IInv, TypeOK, Silence
  <2>2. \A i \in DOMAIN wire : pc'[wire[i].to] = "unregister" => pc[wire[i].to] = "unregister"
    BY <1>0, WireTyped DEF IInv
  <2> QED
    BY <1>0, <2>1, <2>2 DEF IInv, Silence
<1>11. NoneAfterUnregister'
  BY <1>0, <1>n DEF IInv, NoneAfterUnregister
<1>12. Covered'
  <2>1. ASSUME NEW n \in Ids, NEW q \in Proxies, MaySend(n, q)'
        PROVE  pc'[q] \notin {"none", "open"} /\ Brought(n, q)'
    <3>1. MaySend(n, q)
      BY <1>0, <2>1 DEF MaySend
    <3>2. pc[q] \notin {"none", "open"} /\ Brought(n, q)
      BY <3>1 DEF IInv, Covered
    <3> QED
      BY <1>0, <1>n, <3>2 DEF Brought
  <2> QED
    BY <2>1 DEF Covered
<1> QED
  BY <1>1, <1>2, <1>3, <1>4, <1>5, <1>8, <1>9, <1>10, <1>11, <1>12 DEF IInv, Pending

LEMMA RegisterAsyncPreserves ==
  ASSUME IInv, NEW p \in Proxies, RegisterAsync(p)
  PROVE  IInv'
<1> USE ProxiesAssumption, BoundsAssumption DEF agent, core, proxy
<1>0. /\ pc[p] = "answered" /\ got[p] \in Ids
      /\ pc' \in [Proxies -> States] /\ pc'[p] = "idle" /\ \A q \in Proxies \ {p} : pc'[q] = pc[q]
      /\ got' \in [Proxies -> 0..MaxId] /\ got'[p] = 0 /\ \A q \in Proxies \ {p} : got'[q] = got[q]
      /\ acb' \in [Ids -> Proxies \cup {NoProxy}]
      /\ acb'[got[p]] = p /\ \A n \in Ids \ {got[p]} : acb'[n] = acb[n]
      /\ p # NoProxy /\ \A n \in Ids : n # 0
      /\ UNCHANGED <<online, session, agent, asked, wire, sent, pool, running, inside,
                     kind, hdl, opened, quiet>>
  BY DEF RegisterAsync, IInv, TypeOK, States, Ids
<1>n. /\ \A i \in DOMAIN wire : ~wire[i].event => wire[i].to # p
      /\ \A r \in asked : r.p # p
  BY <1>0, NothingOnItsWay DEF Waiting
<1>1. TypeOK'
  BY <1>0, <1>n DEF RegisterAsync, IInv, TypeOK
<1>2. Requests'
  BY <1>0, <1>n DEF RegisterAsync, IInv, Pending, Requests
<1>3. Answers'
  <2>1. \A i \in DOMAIN wire : wire[i].to \in Proxies
    BY WireTyped DEF IInv
  <2>2. \A q \in Proxies : pc[q] \in Waiting => pc'[q] \in Waiting
    BY <1>0 DEF Waiting
  <2> QED
    BY <1>0, <2>1, <2>2 DEF IInv, Pending, Answers
<1>4. Events'
  BY <1>0, <1>n DEF IInv, Pending, Events
<1>5. Lives'
  BY <1>0, <1>n DEF IInv, Pending, Lives
<1>6. \A k \in Kinds, n \in Ids, q \in Proxies : Handle(k, n, q)' => Handle(k, n, q)
  BY <1>0, <1>n DEF Handle, Numbered
<1>7. \A n \in Ids, q \in Proxies : Operation(n, q)' => Operation(n, q)
  BY <1>0, <1>n DEF Operation, Numbered
<1>8. HandlesAgree' /\ OperationsAgree'
  <2>1. /\ counter \in Nat /\ counter' = counter
        /\ \A k \in Kinds : Top(k) \in Nat /\ Top(k)' \in Nat /\ Top(k) <= Top(k)'
    BY DEF RegisterAsync, IInv, TypeOK, Top
  <2> QED
    BY <1>6, <1>7, <2>1, HandlesKept, OperationsKept DEF IInv
<1>9. EventsReachOwner'
  BY <1>0, <1>n DEF IInv, EventsReachOwner
<1>10. Silence'
  <2>1. \A q \in quiet : pc'[q] \notin {"register", "answered"} /\ \A i \in Ids : subs[i] # q
    BY <1>0 DEF IInv, TypeOK, Silence
  <2>2. \A i \in DOMAIN wire : pc'[wire[i].to] = "unregister" => pc[wire[i].to] = "unregister"
    BY <1>0, WireTyped DEF IInv
  <2> QED
    BY <1>0, <2>1, <2>2 DEF IInv, Silence
<1>11. NoneAfterUnregister'
  BY <1>0, <1>n DEF IInv, NoneAfterUnregister
<1>12. Covered'
  <2>1. ASSUME NEW n \in Ids, NEW q \in Proxies, MaySend(n, q)'
        PROVE  pc'[q] \notin {"none", "open"} /\ Brought(n, q)'
    <3>1. MaySend(n, q)
      BY <1>0, <2>1 DEF MaySend
    <3>2. pc[q] \notin {"none", "open"} /\ Brought(n, q)
      BY <3>1 DEF IInv, Covered
    <3> QED
      BY <1>0, <1>n, <3>2 DEF Brought
  <2> QED
    BY <2>1 DEF Covered
<1> QED
  BY <1>1, <1>2, <1>3, <1>4, <1>5, <1>8, <1>9, <1>10, <1>11, <1>12 DEF IInv, Pending

LEMMA CallbackEndsPreserves ==
  ASSUME IInv, CallbackEnds
  PROVE  IInv'
<1> USE ProxiesAssumption, BoundsAssumption DEF agent, core, proxy
<1>1. TypeOK'
  BY DEF CallbackEnds, IInv, TypeOK
<1>2. Requests'
  BY DEF CallbackEnds, IInv, Pending, Requests
<1>3. Answers'
  BY DEF CallbackEnds, IInv, Pending, Answers
<1>4. Events'
  BY DEF CallbackEnds, IInv, Pending, Events
<1>5. Lives'
  BY DEF CallbackEnds, IInv, Pending, Lives
<1>6. \A k \in Kinds, n \in Ids, q \in Proxies : Handle(k, n, q)' => Handle(k, n, q)
  BY DEF CallbackEnds, Handle, Numbered
<1>7. \A n \in Ids, q \in Proxies : Operation(n, q)' => Operation(n, q)
  BY DEF CallbackEnds, Operation, Numbered
<1>8. HandlesAgree' /\ OperationsAgree'
  <2>1. /\ counter \in Nat /\ counter' = counter
        /\ \A k \in Kinds : Top(k) \in Nat /\ Top(k)' \in Nat /\ Top(k) <= Top(k)'
    BY DEF CallbackEnds, IInv, TypeOK, Top
  <2> QED
    BY <1>6, <1>7, <2>1, HandlesKept, OperationsKept DEF IInv
<1>9. EventsReachOwner'
  BY DEF CallbackEnds, EventsReachOwner
<1>10. Silence'
  BY DEF CallbackEnds, IInv, Silence
<1>11. NoneAfterUnregister'
  BY DEF CallbackEnds, IInv, NoneAfterUnregister
<1>12. Covered'
  BY DEF CallbackEnds, IInv, Covered, MaySend, Brought
<1> QED
  BY <1>1, <1>2, <1>3, <1>4, <1>5, <1>8, <1>9, <1>10, <1>11, <1>12 DEF IInv, Pending

-----------------------------------------------------------------------------
(* The agent serves a request *)

LEMMA RequestIs ==
  ASSUME IInv, NEW r \in asked
  PROVE  /\ r.p \in Proxies /\ r.m \in Waiting /\ r.h \in 0..MaxId /\ r.h = hdl[r.p]
         /\ online /\ kind[r.p] \in Kinds
         /\ pc[r.p] = r.m \/ (pc[r.p] = "gone" /\ r.m = "close")
         /\ \A i \in DOMAIN wire : ~wire[i].event => wire[i].to # r.p
         /\ \A q \in asked : q.p = r.p => q = r
<1>1. \A q \in asked : q \in Request /\ q.p \in Proxies /\ q.m \in Waiting /\ q.h \in 0..MaxId
  BY DEF IInv, TypeOK, Request, Waiting
<1>2. kind[r.p] \in Kinds
  BY <1>1, KindsTyped DEF IInv, TypeOK
<1>3. \A q \in asked : q.h = hdl[q.p] /\ (pc[q.p] = q.m \/ (pc[q.p] = "gone" /\ q.m = "close"))
  BY DEF IInv, Pending, Requests
<1>4. \A q \in asked : q.p = r.p => q = r
  <2>1. \A q \in asked : q.p = r.p => q.m = r.m /\ q.h = r.h
    BY <1>1, <1>3 DEF Waiting
  <2> QED
    BY <1>1, <2>1 DEF Request
<1>5. online /\ \A i \in DOMAIN wire : ~wire[i].event => wire[i].to # r.p
  BY DEF IInv, Pending, Lives, Answers
<1> QED
  BY <1>1, <1>2, <1>3, <1>4, <1>5

LEMMA AnswerEffect ==
  ASSUME IInv, NEW r \in asked, NEW n \in 0..MaxId, Answer(r.p, n)
  PROVE  /\ wire' \in Seq(Message)
         /\ \A i \in DOMAIN wire' :
              \/ i \in DOMAIN wire /\ wire'[i] = wire[i]
              \/ /\ i = Len(wire) + 1 /\ pc[r.p] = r.m /\ ~wire'[i].event
                 /\ wire'[i].to = r.p /\ wire'[i].n = n
         /\ \A i \in DOMAIN wire : i \in DOMAIN wire' /\ wire'[i] = wire[i] /\ i < Len(wire) + 1
         /\ pc[r.p] # "gone" =>
              \E i \in DOMAIN wire' : ~wire'[i].event /\ wire'[i].to = r.p /\ wire'[i].n = n
<1> DEFINE e == [to |-> r.p, n |-> n, event |-> FALSE]
<1>1. wire \in Seq(Message) /\ e \in Message /\ e.to = r.p /\ e.n = n /\ ~e.event
  BY RequestIs DEF IInv, TypeOK, Message
<1>2. \A i \in DOMAIN wire : i < Len(wire) + 1
  BY <1>1
<1>3. CASE pc[r.p] \in {"gone", "none"}
  <2>1. wire' = wire /\ pc[r.p] = "gone"
    BY <1>3, RequestIs DEF Answer, Waiting
  <2> QED
    BY <1>1, <1>2, <2>1
<1>4. CASE pc[r.p] \notin {"gone", "none"}
  <2>1. wire' = Append(wire, e) /\ pc[r.p] = r.m
    BY <1>4, RequestIs DEF Answer
  <2> HIDE DEF e
  <2> QED
    BY <1>1, <2>1, Appended
<1> QED
  BY <1>3, <1>4

\* What every answer preserves, when the agent's tables keep who a number leads to.
LEMMA ServedKeeps ==
  ASSUME IInv, NEW r \in asked, NEW n \in 0..MaxId, Answer(r.p, n), Served(r),
         counter' \in 0..MaxId, index' \in [OwnIndex -> 0..MaxId],
         table' \in [Kinds -> [Ids -> Proxies \cup {NoProxy}]],
         subs' \in [Ids -> Proxies \cup {NoProxy}],
         HandlesAgree', OperationsAgree',
         \A i \in Ids, q \in Proxies :
            subs'[i] = q => subs[i] = q \/ (r.m = "register" /\ q = r.p /\ i = n),
         r.m = "unregister" /\ n # 0 => \A i \in Ids : subs'[i] # r.p
  PROVE  IInv'
<1> USE DEF Served, Taken, core, proxy
<1>1. /\ asked' \subseteq asked
      /\ UNCHANGED <<online, session, sent, pool, running, inside, acb,
                     kind, pc, hdl, opened, got, quiet>>
  OBVIOUS
<1>2. /\ r.p \in Proxies /\ r.m \in Waiting /\ online
      /\ pc[r.p] = r.m \/ (pc[r.p] = "gone" /\ r.m = "close")
      /\ \A i \in DOMAIN wire : ~wire[i].event => wire[i].to # r.p
      /\ \A q \in asked' : q.p # r.p
  BY RequestIs
<1>3. TypeOK'
  <2>1. wire' \in Seq(Message) /\ asked' \subseteq Request
    BY <1>1, AnswerEffect DEF IInv, TypeOK
  <2> QED
    BY <1>1, <2>1 DEF IInv, TypeOK
<1>4. Requests' /\ Lives'
  BY <1>1, <1>2 DEF IInv, Pending, Requests, Lives
<1>5. Answers' /\ Events'
  <2>1. \A i \in DOMAIN wire' :
          \/ i \in DOMAIN wire /\ wire'[i] = wire[i]
          \/ i = Len(wire) + 1 /\ pc[r.p] = r.m /\ ~wire'[i].event /\ wire'[i].to = r.p
    BY AnswerEffect
  <2>2. Events'
    BY <1>1, <2>1 DEF IInv, Pending, Events
  <2>3. ASSUME NEW i \in DOMAIN wire', ~wire'[i].event
        PROVE  /\ pc'[wire'[i].to] \in Waiting /\ \A q \in asked' : q.p # wire'[i].to
               /\ \A j \in DOMAIN wire' : ~wire'[j].event /\ wire'[j].to = wire'[i].to => j = i
    BY <1>1, <1>2, <2>1, <2>3 DEF IInv, Pending, Answers
  <2> QED
    BY <2>2, <2>3 DEF Answers
<1>6. EventsReachOwner'
  BY <1>1 DEF IInv, EventsReachOwner
<1>7. Silence'
  <2>1. ASSUME NEW q \in quiet'
        PROVE  pc'[q] \notin {"register", "answered"} /\ \A i \in Ids : subs'[i] # q
    BY <1>1, <1>2, <2>1 DEF IInv, TypeOK, Silence, Waiting
  <2>2. ASSUME NEW i \in DOMAIN wire', ~wire'[i].event, wire'[i].n # 0,
               pc'[wire'[i].to] = "unregister"
        PROVE  /\ \A m \in Ids : subs'[m] # wire'[i].to
               /\ \A j \in DOMAIN wire' : j > i /\ wire'[j].event => wire'[j].to # wire'[i].to
    <3>1. CASE i \in DOMAIN wire /\ wire'[i] = wire[i]
      <4>1. /\ \A m \in Ids : subs[m] # wire[i].to
            /\ \A j \in DOMAIN wire : j > i /\ wire[j].event => wire[j].to # wire[i].to
        BY <1>1, <2>2, <3>1 DEF IInv, Silence
      <4>2. \A m \in Ids : subs'[m] # wire[i].to
        BY <1>1, <1>2, <2>2, <3>1, <4>1, WireTyped DEF IInv
      <4>3. \A j \in DOMAIN wire' : wire'[j].event => j \in DOMAIN wire /\ wire'[j] = wire[j]
        BY AnswerEffect
      <4> QED
        BY <3>1, <4>1, <4>2, <4>3
    <3>2. CASE i = Len(wire) + 1 /\ wire'[i].to = r.p /\ wire'[i].n = n
      <4>1. \A j \in DOMAIN wire' : wire'[j].event => j < Len(wire) + 1
        BY AnswerEffect
      <4>2. Len(wire) \in Nat
        BY DEF IInv, TypeOK
      <4>3. \A j \in DOMAIN wire' : j \in Nat
        BY AnswerEffect
      <4>4. r.m = "unregister"
        BY <1>1, <1>2, <2>2, <3>2
      <4> QED
        BY <2>2, <3>2, <4>1, <4>2, <4>3, <4>4
    <3> QED
      BY <3>1, <3>2, AnswerEffect
  <2> QED
    BY <2>1, <2>2 DEF Silence
<1>8. NoneAfterUnregister'
  BY <1>1, AnswerEffect DEF IInv, NoneAfterUnregister
<1>9. Covered'
  <2> SUFFICES ASSUME NEW m \in Ids, NEW q \in Proxies, MaySend(m, q)'
               PROVE  pc'[q] \notin {"none", "open"} /\ Brought(m, q)'
    BY DEF Covered
  <2>1. CASE MaySend(m, q)
    <3>1. pc[q] \notin {"none", "open"} /\ Brought(m, q)
      BY <2>1 DEF IInv, Covered
    <3>2. \A i \in DOMAIN wire : i \in DOMAIN wire' /\ wire'[i] = wire[i]
      BY AnswerEffect
    <3> QED
      BY <1>1, <3>1, <3>2 DEF Brought
  <2>2. CASE ~MaySend(m, q)
    <3>1. \A i \in DOMAIN wire' : wire'[i].event => i \in DOMAIN wire /\ wire'[i] = wire[i]
      BY AnswerEffect
    <3>2. r.m = "register" /\ q = r.p /\ m = n
      BY <1>1, <2>2, <3>1 DEF MaySend
    <3>3. pc[q] = "register"
      BY <1>2, <3>2
    <3> QED
      BY <1>1, <3>2, <3>3, AnswerEffect DEF Brought
  <2> QED
    BY <2>1, <2>2
<1> QED
  BY <1>3, <1>4, <1>5, <1>6, <1>7, <1>8, <1>9 DEF IInv, Pending

\* Where the numbers lead after an answer: a new handle to who asked for it.
LEMMA AnswerNames ==
  ASSUME IInv, NEW r \in asked, NEW n \in 0..MaxId, Answer(r.p, n), Served(r)
  PROVE  /\ \A i \in Ids, q \in Proxies :
              Numbered(i, q)' => Numbered(i, q) \/ (r.m = "open" /\ i = n /\ q = r.p)
         /\ \A i \in Ids, q \in Proxies : Operation(i, q)' =>
              \/ subs'[i] = q \/ Operation(i, q)
              \/ r.m = "open" /\ kind[r.p] = "gpio" /\ i = n /\ q = r.p
              \/ r.m = "register" /\ i = n /\ q = r.p
         /\ counter \in 0..MaxId /\ counter \in Nat /\ MaxId \in Nat
         /\ \A k \in Kinds : Top(k) \in Nat /\ Top(k) <= MaxId
<1>1. UNCHANGED <<hdl, pc, opened, session, kind, acb, got, pool>>
  BY DEF Served, core, proxy
<1>2. \A i \in DOMAIN wire' :
        \/ i \in DOMAIN wire /\ wire'[i] = wire[i]
        \/ pc[r.p] = r.m /\ ~wire'[i].event /\ wire'[i].to = r.p /\ wire'[i].n = n
  BY AnswerEffect
<1>3. \A i \in Ids, q \in Proxies :
        Numbered(i, q)' => Numbered(i, q) \/ (r.m = "open" /\ i = n /\ q = r.p)
  BY <1>1, <1>2 DEF Numbered
<1>4. \A i \in Ids, q \in Proxies : Operation(i, q)' =>
         \/ subs'[i] = q \/ Operation(i, q)
         \/ r.m = "open" /\ kind[r.p] = "gpio" /\ i = n /\ q = r.p
         \/ r.m = "register" /\ i = n /\ q = r.p
  BY <1>1, <1>2, <1>3 DEF Operation
<1>5. /\ counter \in 0..MaxId /\ counter \in Nat /\ MaxId \in Nat
      /\ \A k \in Kinds : Top(k) \in Nat /\ Top(k) <= MaxId
  BY BoundsAssumption DEF IInv, TypeOK, Top
<1> QED
  BY <1>3, <1>4, <1>5

\* An answer that gives no new number.
LEMMA OldNumber ==
  ASSUME IInv, NEW r \in asked, NEW n \in 0..MaxId, Answer(r.p, n), Served(r),
         UNCHANGED <<counter, index>>, r.m = "open" => n = 0,
         table' \in [Kinds -> [Ids -> Proxies \cup {NoProxy}]],
         subs' \in [Ids -> Proxies \cup {NoProxy}],
         \A k \in Kinds, i \in Ids, q \in Proxies : table'[k][i] = q => table[k][i] = q,
         \A i \in Ids, q \in Proxies :
            subs'[i] = q => subs[i] = q \/ (r.m = "register" /\ q = r.p /\ i = n),
         r.m = "unregister" /\ n # 0 => \A i \in Ids : subs'[i] # r.p,
         r.m = "register" /\ n # 0 => Operation(n, r.p)
  PROVE  IInv'
<1>0. \A i \in Ids : i # 0 /\ i \in 0..MaxId
  BY BoundsAssumption DEF Ids
<1>1. UNCHANGED <<opened, session, kind>>
  BY DEF Served, proxy
<1>2. \A k \in Kinds, i \in Ids, q \in Proxies : Handle(k, i, q)' => Handle(k, i, q)
  BY <1>0, <1>1, AnswerNames DEF Handle
<1>3. \A i \in Ids, q \in Proxies : Operation(i, q)' => Operation(i, q)
  BY <1>0, AnswerNames DEF Operation
<1>4. HandlesAgree'
  <2>1. \A k \in Kinds : Top(k)' = Top(k) /\ Top(k) \in Nat
    BY AnswerNames DEF Top
  <2> QED
    BY <1>2, <2>1, BoundsAssumption, HandlesKept DEF IInv
<1>5. OperationsAgree'
  BY <1>3, BoundsAssumption, AnswerNames, OperationsKept DEF IInv
<1>6. counter' \in 0..MaxId /\ index' \in [OwnIndex -> 0..MaxId]
  BY DEF IInv, TypeOK
<1> QED
  BY <1>4, <1>5, <1>6, ServedKeeps

LEMMA TablesTyped ==
  ASSUME IInv
  PROVE  /\ counter \in 0..MaxId /\ index \in [OwnIndex -> 0..MaxId]
         /\ table \in [Kinds -> [Ids -> Proxies \cup {NoProxy}]]
         /\ subs \in [Ids -> Proxies \cup {NoProxy}]
         /\ \A i \in Ids : i \in 0..MaxId /\ i # 0 /\ i \in Nat
         /\ 0 \in 0..MaxId
BY BoundsAssumption DEF IInv, TypeOK, Ids

\* open: the number is above every one that leads anywhere.
LEMMA ServeOpenPreserves == ASSUME IInv, NEW r \in asked, ServeOpen(r) PROVE IInv'
<1>p. PICK k \in Kinds : k = kind[r.p]
  BY RequestIs
<1>0. r.m = "open" /\ Served(r) /\ r.p \in Proxies /\ k = kind[r.p] /\ r.p # NoProxy
  BY <1>p, RequestIs, ProxiesAssumption DEF ServeOpen
<1>k. UNCHANGED <<opened, session, kind>>
  BY <1>0 DEF Served, proxy
<1>1. CASE /\ k \in OwnIndex /\ index[k] < MaxId
           /\ index' = [index EXCEPT ![k] = @ + 1]
           /\ table' = [table EXCEPT ![k][index'[k]] = r.p]
           /\ Answer(r.p, index'[k]) /\ UNCHANGED <<counter, subs>>
  <2> DEFINE n == index[k] + 1
  <2>1. /\ index'[k] = n /\ n \in Ids /\ n \in 0..MaxId /\ n \in Nat
        /\ index' \in [OwnIndex -> 0..MaxId]
    BY <1>1, TablesTyped, BoundsAssumption DEF Ids
  <2>2. Answer(r.p, n) /\ table' = [table EXCEPT ![k][n] = r.p]
    BY <1>1, <2>1
  <2>3. \A l \in Kinds : Top(l) \in Nat /\ Top(l)' \in Nat /\ Top(l) <= Top(l)'
    BY <1>1, <2>1, TablesTyped, BoundsAssumption DEF Top
  <2>4. n > Top(k) /\ n <= Top(k)'
    BY <1>1, <2>1, TablesTyped, BoundsAssumption DEF Top
  <2> HIDE DEF n
  <2>5. /\ table' \in [Kinds -> [Ids -> Proxies \cup {NoProxy}]]
        /\ \A l \in Kinds, i \in Ids, q \in Proxies :
             table'[l][i] = q => table[l][i] = q \/ (l = k /\ i = n /\ q = r.p)
    BY <1>0, <2>1, <2>2, TablesTyped
  <2>6. \A l \in Kinds, i \in Ids, q \in Proxies :
          Handle(l, i, q)' => Handle(l, i, q) \/ (l = k /\ i = n /\ q = r.p)
    BY <1>0, <1>k, <2>1, <2>2, <2>5, AnswerNames DEF Handle
  <2>7. HandlesAgree'
    BY <1>0, <2>1, <2>3, <2>4, <2>6, BoundsAssumption, HandlesNew DEF IInv
  <2>8. \A i \in Ids, q \in Proxies : Operation(i, q)' => Operation(i, q)
    BY <1>0, <1>1, <2>1, <2>2, AnswerNames DEF Operation, OwnIndex
  <2>9. OperationsAgree'
    BY <1>0, <1>1, <2>8, TablesTyped, BoundsAssumption, OperationsKept DEF IInv
  <2> QED
    BY <1>0, <1>1, <2>1, <2>2, <2>5, <2>7, <2>9, TablesTyped, ServedKeeps
<1>2. CASE /\ k \notin OwnIndex /\ counter < MaxId /\ counter' = counter + 1
           /\ table' = [table EXCEPT ![k][counter'] = r.p]
           /\ Answer(r.p, counter') /\ UNCHANGED <<index, subs>>
  <2> DEFINE n == counter + 1
  <2>1. counter' = n /\ n \in Ids /\ n \in 0..MaxId /\ n \in Nat
    BY <1>2, TablesTyped, BoundsAssumption DEF Ids
  <2>2. Answer(r.p, n) /\ table' = [table EXCEPT ![k][n] = r.p]
    BY <1>2, <2>1
  <2>3. \A l \in Kinds : Top(l) \in Nat /\ Top(l)' \in Nat /\ Top(l) <= Top(l)'
    BY <1>2, <2>1, TablesTyped, BoundsAssumption DEF Top
  <2>4. n > Top(k) /\ n <= Top(k)'
    BY <1>2, <2>1, TablesTyped, BoundsAssumption DEF Top
  <2> HIDE DEF n
  <2>5. /\ table' \in [Kinds -> [Ids -> Proxies \cup {NoProxy}]]
        /\ \A l \in Kinds, i \in Ids, q \in Proxies :
             table'[l][i] = q => table[l][i] = q \/ (l = k /\ i = n /\ q = r.p)
    BY <1>0, <2>1, <2>2, TablesTyped
  <2>6. \A l \in Kinds, i \in Ids, q \in Proxies :
          Handle(l, i, q)' => Handle(l, i, q) \/ (l = k /\ i = n /\ q = r.p)
    BY <1>0, <1>k, <2>1, <2>2, <2>5, AnswerNames DEF Handle
  <2>7. HandlesAgree'
    BY <1>0, <2>1, <2>3, <2>4, <2>6, BoundsAssumption, HandlesNew DEF IInv
  <2>8. \A i \in Ids, q \in Proxies : Operation(i, q)' => Operation(i, q) \/ (i = n /\ q = r.p)
    BY <1>0, <1>2, <2>1, <2>2, AnswerNames DEF Operation
  <2>9. OperationsAgree'
    BY <1>0, <1>2, <2>8, TablesTyped, BoundsAssumption, OperationsNew DEF IInv, n
  <2> QED
    BY <1>0, <1>2, <2>1, <2>2, <2>5, <2>7, <2>9, TablesTyped, ServedKeeps
<1>3. CASE Answer(r.p, 0) /\ UNCHANGED agent
  BY <1>0, <1>3, TablesTyped, OldNumber DEF agent
<1> QED
  BY <1>p, <1>1, <1>2, <1>3 DEF ServeOpen

\* calls that leave the tables alone
LEMMA ServeUsePreserves == ASSUME IInv, NEW r \in asked, ServeUse(r) PROVE IInv'
<1> DEFINE n == IF Opener(r) = NoProxy THEN 0 ELSE r.h
<1>1. /\ r.m # "open" /\ Answer(r.p, n) /\ Served(r) /\ UNCHANGED agent
      /\ r.m \in {"register", "unregister"} => n = 0
  BY DEF ServeUse
<1>2. n \in 0..MaxId
  BY RequestIs, TablesTyped
<1> HIDE DEF n
<1> QED
  BY <1>1, <1>2, TablesTyped, OldNumber DEF agent

\* A request of a pin or a file names what its proxy has opened.
LEMMA OpenerOwn ==
  ASSUME IInv, NEW r \in asked, r.m \in {"register", "unregister"}, Opener(r) # NoProxy
  PROVE  Opener(r) = r.p /\ r.h \in Ids /\ r.h # 0 /\ kind[r.p] \notin OwnIndex
<1>1. /\ r.h # 0 /\ r.h \in Ids /\ Opener(r) = table[kind[r.p]][r.h]
      /\ r.p \in Proxies /\ kind[r.p] \in Kinds /\ r.h = hdl[r.p] /\ pc[r.p] = r.m
  BY RequestIs, BoundsAssumption DEF Opener, Ids
<1>2. kind[r.p] \in {"gpio", "file"}
  BY <1>1 DEF IInv, Pending, Lives
<1>3. Opener(r) \in Proxies
  BY <1>1, TablesTyped
<1>4. Handle(kind[r.p], r.h, r.p) /\ Handle(kind[r.p], r.h, Opener(r))
  BY <1>1, <1>2 DEF Handle, Numbered, OwnIndex
<1> QED
  BY <1>1, <1>2, <1>3, <1>4 DEF IInv, HandlesAgree, OwnIndex

LEMMA SilentEffect ==
  ASSUME IInv, NEW p \in Proxies
  PROVE  /\ Silent(p) \in [Ids -> Proxies \cup {NoProxy}]
         /\ \A i \in Ids : Silent(p)[i] # p
         /\ \A i \in Ids, q \in Proxies : Silent(p)[i] = q => subs[i] = q
BY TablesTyped, ProxiesAssumption DEF Silent

\* register: the operation of a pin is a number it has, that of a file a new one.
LEMMA ServeRegisterPreserves == ASSUME IInv, NEW r \in asked, ServeRegister(r) PROVE IInv'
<1>0. /\ r.m = "register" /\ Opener(r) = r.p /\ r.h \in Ids /\ r.h # 0 /\ r.h \in 0..MaxId
      /\ r.p \in Proxies /\ r.p # NoProxy
      /\ r.h = hdl[r.p] /\ Served(r) /\ UNCHANGED <<index, table>>
  BY RequestIs, OpenerOwn, ProxiesAssumption DEF ServeRegister
<1>1. CASE /\ kind[r.p] = "gpio" /\ subs' = [subs EXCEPT ![r.h] = Opener(r)]
           /\ Answer(r.p, r.h) /\ UNCHANGED counter
  <2>1. Operation(r.h, r.p)
    BY <1>0, <1>1 DEF Operation, Numbered
  <2>2. /\ subs' \in [Ids -> Proxies \cup {NoProxy}]
        /\ \A i \in Ids, q \in Proxies : subs'[i] = q => subs[i] = q \/ (q = r.p /\ i = r.h)
    BY <1>0, <1>1, TablesTyped
  <2> QED
    BY <1>0, <1>1, <2>1, <2>2, TablesTyped, OldNumber
<1>2. CASE /\ kind[r.p] = "file" /\ counter < MaxId /\ counter' = counter + 1
           /\ subs' = [Silent(Opener(r)) EXCEPT ![counter'] = Opener(r)]
           /\ Answer(r.p, counter')
  <2> DEFINE n == counter + 1
  <2>1. counter' = n /\ n \in Ids /\ n \in 0..MaxId /\ n \in Nat
    BY <1>2, TablesTyped, BoundsAssumption DEF Ids
  <2>2. Answer(r.p, n) /\ subs' = [Silent(r.p) EXCEPT ![n] = r.p]
    BY <1>0, <1>2, <2>1
  <2>3. \A l \in Kinds : Top(l) \in Nat /\ Top(l)' \in Nat /\ Top(l) <= Top(l)'
    BY <1>0, <1>2, <2>1, TablesTyped, BoundsAssumption DEF Top
  <2> HIDE DEF n
  <2>4. /\ subs' \in [Ids -> Proxies \cup {NoProxy}]
        /\ \A i \in Ids, q \in Proxies : subs'[i] = q => subs[i] = q \/ (q = r.p /\ i = n)
    BY <1>0, <2>1, <2>2, SilentEffect
  <2>5. UNCHANGED <<opened, session, kind, table>>
    BY <1>0 DEF Served, proxy
  <2>6. \A l \in Kinds, i \in Ids, q \in Proxies : Handle(l, i, q)' => Handle(l, i, q)
    BY <1>0, <2>1, <2>2, <2>5, AnswerNames DEF Handle
  <2>7. HandlesAgree'
    BY <2>3, <2>6, BoundsAssumption, HandlesKept DEF IInv
  <2>8. \A i \in Ids, q \in Proxies : Operation(i, q)' => Operation(i, q) \/ (i = n /\ q = r.p)
    BY <1>0, <2>1, <2>2, <2>4, AnswerNames DEF Operation
  <2>9. OperationsAgree'
    BY <1>0, <1>2, <2>8, TablesTyped, BoundsAssumption, OperationsNew DEF IInv, n
  <2> QED
    BY <1>0, <1>2, <2>1, <2>2, <2>4, <2>7, <2>9, TablesTyped, ServedKeeps
<1>3. CASE Answer(r.p, 0) /\ UNCHANGED <<subs, counter>>
  BY <1>0, <1>3, TablesTyped, OldNumber
<1> QED
  BY <1>1, <1>2, <1>3 DEF ServeRegister

LEMMA ServeUnregisterPreserves == ASSUME IInv, NEW r \in asked, ServeUnregister(r) PROVE IInv'
<1>1. /\ r.m = "unregister" /\ subs' = Silent(r.p) /\ Answer(r.p, r.h) /\ r.h \in 0..MaxId
      /\ r.p \in Proxies /\ Served(r) /\ UNCHANGED <<counter, index, table>>
  BY RequestIs, OpenerOwn DEF ServeUnregister
<1> QED
  BY <1>1, SilentEffect, TablesTyped, OldNumber

\* close: whoever has opened the handle loses it.
LEMMA ServeClosePreserves == ASSUME IInv, NEW r \in asked, ServeClose(r) PROVE IInv'
<1>1. /\ r.m \in {"end", "close"} /\ Answer(r.p, r.h) /\ r.h \in 0..MaxId /\ kind[r.p] \in Kinds
      /\ Served(r) /\ UNCHANGED <<counter, index>>
  BY RequestIs DEF ServeClose
<1>2. CASE Opener(r) = NoProxy
  <2>1. UNCHANGED <<table, subs>>
    BY <1>2 DEF ServeClose
  <2> QED
    BY <1>1, <2>1, TablesTyped, OldNumber
<1>3. CASE Opener(r) # NoProxy
  <2>1. /\ table' = [table EXCEPT ![kind[r.p]][r.h] = NoProxy] /\ subs' = Silent(Opener(r))
        /\ r.h \in Ids /\ Opener(r) = table[kind[r.p]][r.h]
    BY <1>1, <1>3, BoundsAssumption DEF ServeClose, Opener, Ids
  <2>2. Opener(r) \in Proxies
    BY <1>1, <1>3, <2>1, TablesTyped
  <2>3. /\ table' \in [Kinds -> [Ids -> Proxies \cup {NoProxy}]]
        /\ \A k \in Kinds, i \in Ids, q \in Proxies : table'[k][i] = q => table[k][i] = q
    BY <1>1, <2>1, TablesTyped, ProxiesAssumption
  <2>4. /\ subs' \in [Ids -> Proxies \cup {NoProxy}]
        /\ \A n \in Ids, q \in Proxies : subs'[n] = q => subs[n] = q
    BY <2>1, <2>2, SilentEffect
  <2> QED
    BY <1>1, <2>3, <2>4, TablesTyped, OldNumber
<1> QED
  BY <1>2, <1>3

-----------------------------------------------------------------------------
(* Events, and the client's pools *)

LEMMA SendEventPreserves == ASSUME IInv, NEW i \in Ids, SendEvent(i) PROVE IInv'
<1> DEFINE e == [to |-> subs[i], n |-> i, event |-> TRUE]
<1>0. /\ online /\ wire' = Append(wire, e) /\ subs[i] \in Proxies /\ sent' \in 0..MaxEvents
      /\ UNCHANGED <<online, session, agent, asked, core, proxy>>
  BY TablesTyped, BoundsAssumption DEF SendEvent, IInv, TypeOK
<1>1. e \in Message /\ e.to = subs[i] /\ e.n = i /\ e.event
  BY <1>0, TablesTyped DEF Message
<1>2. wire \in Seq(Message)
  BY DEF IInv, TypeOK
<1> HIDE DEF e
<1>3. /\ wire' \in Seq(Message)
      /\ \A j \in DOMAIN wire' : \/ j \in DOMAIN wire /\ wire'[j] = wire[j]
                                 \/ j = Len(wire) + 1 /\ wire'[j] = e
      /\ \A j \in DOMAIN wire : j \in DOMAIN wire' /\ wire'[j] = wire[j] /\ j < Len(wire) + 1
  BY <1>0, <1>1, <1>2, Appended
<1> USE DEF agent, core, proxy
<1>4. TypeOK'
  BY <1>0, <1>3 DEF IInv, TypeOK
<1>5. Pending'
  BY <1>0, <1>1, <1>3 DEF IInv, Pending, Requests, Answers, Events, Lives
<1>6. \A n \in Ids, q \in Proxies : Numbered(n, q)' => Numbered(n, q)
  BY <1>0, <1>1, <1>3 DEF Numbered
<1>7. HandlesAgree'
  <2>1. \A k \in Kinds, n \in Ids, q \in Proxies : Handle(k, n, q)' => Handle(k, n, q)
    BY <1>0, <1>6 DEF Handle
  <2>2. \A k \in Kinds : Top(k)' = Top(k) /\ Top(k) \in Nat
    BY <1>0, TablesTyped, BoundsAssumption DEF Top
  <2> QED
    BY <2>1, <2>2, BoundsAssumption, HandlesKept DEF IInv
<1>8. OperationsAgree'
  <2>1. \A n \in Ids, q \in Proxies : Operation(n, q)' => Operation(n, q)
    BY <1>0, <1>1, <1>3, <1>6 DEF Operation
  <2> QED
    BY <1>0, <2>1, TablesTyped, BoundsAssumption, OperationsKept DEF IInv
<1>9. EventsReachOwner'
  BY <1>0 DEF IInv, EventsReachOwner
<1>10. Silence' /\ NoneAfterUnregister'
  BY <1>0, <1>1, <1>3 DEF IInv, Silence, NoneAfterUnregister
<1>11. Covered'
  <2>1. \A n \in Ids, q \in Proxies : MaySend(n, q)' => MaySend(n, q)
    BY <1>0, <1>1, <1>3 DEF MaySend
  <2>2. \A n \in Ids, q \in Proxies : Brought(n, q) => Brought(n, q)'
    BY <1>0, <1>3 DEF Brought
  <2> QED
    BY <1>0, <2>1, <2>2 DEF IInv, Covered
<1> QED
  BY <1>4, <1>5, <1>7, <1>8, <1>9, <1>10, <1>11 DEF IInv

LEMMA TakeEventPreserves == ASSUME IInv, TakeEvent PROVE IInv'
<1>0. /\ wire # <<>> /\ wire \in Seq(Message) /\ pool \in Seq(Message)
      /\ wire' = Tail(wire) /\ pool' = Append(pool, Head(wire)) /\ Head(wire).event
      /\ UNCHANGED <<online, session, agent, asked, sent, running, inside, acb, proxy>>
  BY DEF TakeEvent, IInv, TypeOK
<1>1. /\ wire' \in Seq(Message) /\ Head(wire) = wire[1] /\ 1 \in DOMAIN wire
      /\ Head(wire) \in Message
      /\ \A j \in DOMAIN wire' : j \in Nat /\ j + 1 \in DOMAIN wire /\ j + 1 > 1
                               /\ wire'[j] = wire[j + 1]
  BY <1>0, Shifted
<1>2. /\ pool' \in Seq(Message)
      /\ \A j \in DOMAIN pool' : \/ j \in DOMAIN pool /\ pool'[j] = pool[j]
                                 \/ pool'[j] = wire[1]
  BY <1>0, <1>1, Appended
<1>3. \A j \in DOMAIN wire : wire[j] = wire[1] \/ (j - 1 \in DOMAIN wire' /\ wire'[j - 1] = wire[j])
  BY <1>0
<1> USE DEF agent, proxy
<1>4. TypeOK'
  BY <1>0, <1>1, <1>2 DEF IInv, TypeOK
<1>5. Pending'
  <2>1. Requests' /\ Events'
    BY <1>0, <1>1, <1>2 DEF IInv, Pending, Requests, Events
  <2>2. Answers'
    <3>1. \A i, j \in DOMAIN wire' : i + 1 = j + 1 => i = j
      BY <1>1
    <3> QED
      BY <1>0, <1>1, <3>1 DEF IInv, Pending, Answers
  <2>3. Lives'
    BY <1>0 DEF IInv, Pending, Lives
  <2> QED
    BY <2>1, <2>2, <2>3 DEF Pending
<1>6. \A n \in Ids, q \in Proxies : Numbered(n, q)' => Numbered(n, q)
  BY <1>0, <1>1 DEF Numbered
<1>7. HandlesAgree'
  <2>1. \A k \in Kinds, n \in Ids, q \in Proxies : Handle(k, n, q)' => Handle(k, n, q)
    BY <1>0, <1>6 DEF Handle
  <2>2. \A k \in Kinds : Top(k)' = Top(k) /\ Top(k) \in Nat
    BY <1>0, TablesTyped, BoundsAssumption DEF Top
  <2> QED
    BY <2>1, <2>2, BoundsAssumption, HandlesKept DEF IInv
<1>8. OperationsAgree'
  <2>1. \A n \in Ids, q \in Proxies : Operation(n, q)' => Operation(n, q)
    BY <1>0, <1>1, <1>2, <1>6 DEF Operation
  <2> QED
    BY <1>0, <2>1, TablesTyped, BoundsAssumption, OperationsKept DEF IInv
<1>9. EventsReachOwner'
  BY <1>0 DEF IInv, EventsReachOwner
<1>10. NoneAfterUnregister'
  BY <1>0, <1>1 DEF IInv, NoneAfterUnregister
<1>11. Silence'
  <2>1. \A i, j \in DOMAIN wire' : j > i => j + 1 > i + 1
    BY <1>1
  <2> QED
    BY <1>0, <1>1, <2>1 DEF IInv, Silence
<1>12. Covered'
  <2>1. \A n \in Ids, q \in Proxies : MaySend(n, q)' => MaySend(n, q)
    BY <1>0, <1>1, <1>2 DEF MaySend
  <2>2. \A j \in DOMAIN wire : ~wire[j].event => j - 1 \in DOMAIN wire' /\ wire'[j - 1] = wire[j]
    BY <1>0, <1>1, <1>3
  <2>3. ASSUME NEW n \in Ids, NEW q \in Proxies, Brought(n, q) PROVE Brought(n, q)'
    <3>1. CASE \E j \in DOMAIN wire : ~wire[j].event /\ wire[j].to = q /\ wire[j].n = n
      <4>1. \E j \in DOMAIN wire' : ~wire'[j].event /\ wire'[j].to = q /\ wire'[j].n = n
        BY <2>2, <3>1
      <4> QED
        BY <1>0, <2>3, <4>1 DEF Brought
    <3>2. CASE ~\E j \in DOMAIN wire : ~wire[j].event /\ wire[j].to = q /\ wire[j].n = n
      BY <1>0, <2>3, <3>2 DEF Brought
    <3> QED
      BY <3>1, <3>2
  <2> QED
    BY <1>0, <2>1, <2>3 DEF IInv, Covered
<1> QED
  BY <1>4, <1>5, <1>7, <1>8, <1>9, <1>10, <1>11, <1>12 DEF IInv

\* async_op: the callback that runs is bound to the proxy the event is for.
LEMMA AsyncOpPreserves == ASSUME IInv, AsyncOp PROVE IInv'
<1>0. /\ pool # <<>> /\ pool \in Seq(Message) /\ pool' = Tail(pool)
      /\ running' = (IF acb[Head(pool).n] = NoProxy THEN Idle
                     ELSE [id |-> Head(pool).n, src |-> Head(pool).to, cb |-> acb[Head(pool).n]])
      /\ UNCHANGED <<online, session, agent, asked, wire, sent, inside, acb, proxy>>
  BY DEF AsyncOp, IInv, TypeOK
<1>1. /\ pool' \in Seq(Message) /\ Head(pool) = pool[1] /\ 1 \in DOMAIN pool
      /\ Head(pool) \in Message
      /\ \A j \in DOMAIN pool' : j + 1 \in DOMAIN pool /\ pool'[j] = pool[j + 1]
  BY <1>0, Shifted
<1>2. Head(pool).n \in Ids /\ Head(pool).to \in Proxies /\ acb \in [Ids -> Proxies \cup {NoProxy}]
  BY <1>1 DEF IInv, TypeOK, Pending, Events, Message
<1> USE DEF agent, proxy
<1>3. running' \in [id : Ids, src : Proxies, cb : Proxies] \cup {Idle}
  BY <1>0, <1>2
<1>4. TypeOK'
  BY <1>0, <1>1, <1>3 DEF IInv, TypeOK
<1>5. Pending'
  BY <1>0, <1>1 DEF IInv, Pending, Requests, Answers, Events, Lives
<1>6. \A n \in Ids, q \in Proxies : Numbered(n, q)' => Numbered(n, q)
  BY <1>0 DEF Numbered
<1>7. HandlesAgree'
  <2>1. \A k \in Kinds, n \in Ids, q \in Proxies : Handle(k, n, q)' => Handle(k, n, q)
    BY <1>0, <1>6 DEF Handle
  <2>2. \A k \in Kinds : Top(k)' = Top(k) /\ Top(k) \in Nat
    BY <1>0, TablesTyped, BoundsAssumption DEF Top
  <2> QED
    BY <2>1, <2>2, BoundsAssumption, HandlesKept DEF IInv
<1>8. OperationsAgree'
  <2>1. \A n \in Ids, q \in Proxies : Operation(n, q)' => Operation(n, q)
    BY <1>0, <1>1, <1>6 DEF Operation
  <2> QED
    BY <1>0, <2>1, TablesTyped, BoundsAssumption, OperationsKept DEF IInv
<1>9. EventsReachOwner'
  <2>1. CASE acb[Head(pool).n] = NoProxy
    BY <1>0, <2>1 DEF EventsReachOwner
  <2>2. CASE acb[Head(pool).n] # NoProxy
    <3>1. acb[Head(pool).n] \in Proxies
      BY <1>2, <2>2
    <3>2. /\ Operation(Head(pool).n, acb[Head(pool).n])
          /\ Operation(Head(pool).n, Head(pool).to)
      BY <1>1, <3>1 DEF Operation
    <3>3. acb[Head(pool).n] = Head(pool).to
      BY <1>2, <3>1, <3>2 DEF IInv, OperationsAgree
    <3> QED
      BY <1>0, <2>2, <3>3 DEF EventsReachOwner
  <2> QED
    BY <2>1, <2>2
<1>10. Silence' /\ NoneAfterUnregister'
  BY <1>0 DEF IInv, Silence, NoneAfterUnregister
<1>11. Covered'
  <2>1. \A n \in Ids, q \in Proxies : MaySend(n, q)' => MaySend(n, q)
    BY <1>0, <1>1 DEF MaySend
  <2>2. \A n \in Ids, q \in Proxies : Brought(n, q) => Brought(n, q)'
    BY <1>0 DEF Brought
  <2> QED
    BY <1>0, <2>1, <2>2 DEF IInv, Covered
<1> QED
  BY <1>4, <1>5, <1>7, <1>8, <1>9, <1>10, <1>11 DEF IInv

\* An answer is for the call its proxy waits in, and takes the number where it is kept.
LEMMA TakeAnswerPreserves == ASSUME IInv, TakeAnswer PROVE IInv'
<1> DEFINE p == Head(wire).to  n == Head(wire).n
<1>0. /\ wire # <<>> /\ wire \in Seq(Message) /\ ~Head(wire).event /\ wire' = Tail(wire)
      /\ UNCHANGED <<online, session, agent, asked, sent, pool, running, acb, kind, opened>>
  BY DEF TakeAnswer, IInv, TypeOK
<1>1. /\ wire' \in Seq(Message) /\ Head(wire) = wire[1] /\ 1 \in DOMAIN wire
      /\ Head(wire) \in Message
      /\ \A j \in DOMAIN wire' : j \in Nat /\ j + 1 \in DOMAIN wire /\ j + 1 > 1
                               /\ wire'[j] = wire[j + 1]
  BY <1>0, Shifted
<1>2. /\ p \in Proxies /\ n \in 0..MaxId /\ pc[p] \in Waiting
      /\ \A r \in asked : r.p # p
      /\ \A j \in DOMAIN wire : ~wire[j].event /\ wire[j].to = p => j = 1
  BY <1>0, <1>1 DEF IInv, Pending, Answers, Message
<1>3. /\ pc' = [pc EXCEPT ![p] = CASE pc[p] = "close" -> "gone"
                                   [] pc[p] = "open" /\ n = 0 -> "gone"
                                   [] pc[p] = "register" /\ n # 0 -> "answered"
                                   [] OTHER -> "idle"]
      /\ hdl' = [hdl EXCEPT ![p] = IF pc[p] = "open" THEN n ELSE @]
      /\ got' = [got EXCEPT ![p] = IF pc[p] = "register" THEN n ELSE @]
      /\ quiet' = IF pc[p] = "unregister" /\ n # 0 THEN quiet \cup {p} ELSE quiet
      /\ inside' = IF inside = p /\ pc'[p] # "answered" THEN NoProxy ELSE inside
  BY DEF TakeAnswer
<1> HIDE DEF p, n
<1>4. \A j \in DOMAIN wire' : ~wire'[j].event => wire'[j].to # p
  BY <1>1, <1>2
<1>5. /\ pc \in [Proxies -> States] /\ hdl \in [Proxies -> 0..MaxId] /\ got \in [Proxies -> 0..MaxId]
      /\ (pc[p] # "answered" => got[p] = 0)
  BY <1>2 DEF IInv, TypeOK, Pending, Lives, States
<1>6. /\ pc' \in [Proxies -> States] /\ \A q \in Proxies \ {p} : pc'[q] = pc[q]
      /\ pc'[p] \in {"gone", "answered", "idle"}
      /\ pc'[p] = "answered" <=> pc[p] = "register" /\ n # 0
      /\ hdl' \in [Proxies -> 0..MaxId] /\ \A q \in Proxies \ {p} : hdl'[q] = hdl[q]
      /\ hdl'[p] = IF pc[p] = "open" THEN n ELSE hdl[p]
      /\ got' \in [Proxies -> 0..MaxId] /\ \A q \in Proxies \ {p} : got'[q] = got[q]
      /\ got'[p] = IF pc[p] = "register" THEN n ELSE 0
      /\ quiet' \subseteq quiet \cup {p}
      /\ p \in quiet' => p \in quiet \/ (pc[p] = "unregister" /\ n # 0)
  BY <1>2, <1>3, <1>5 DEF States, Waiting
<1> USE DEF agent
<1>7. TypeOK'
  <2>1. inside' \in Proxies \cup {NoProxy} /\ quiet' \subseteq Proxies
    BY <1>2, <1>3 DEF IInv, TypeOK
  <2>2. \A q \in Proxies : pc'[q] = "answered" => got'[q] # 0
    BY <1>6 DEF IInv, TypeOK
  <2> QED
    BY <1>0, <1>1, <1>6, <2>1, <2>2 DEF IInv, TypeOK, States
<1>8. Pending'
  <2>1. Requests'
    <3>1. \A r \in asked : r.p \in Proxies \ {p}
      BY <1>2, RequestIs
    <3> QED
      BY <1>0, <1>6, <3>1 DEF IInv, Pending, Requests
  <2>2. Answers'
    <3>1. \A i, j \in DOMAIN wire' : i + 1 = j + 1 => i = j
      BY <1>1
    <3>2. \A i \in DOMAIN wire' : wire'[i].to \in Proxies
      BY <1>1, WireTyped DEF IInv
    <3> QED
      BY <1>0, <1>1, <1>4, <1>6, <3>1, <3>2 DEF IInv, Pending, Answers
  <2>3. Events'
    BY <1>0, <1>1 DEF IInv, Pending, Events
  <2>4. Lives'
    <3>1. online
      BY <1>0 DEF IInv, Pending, Lives
    <3> QED
      BY <1>0, <1>2, <1>6, <3>1 DEF IInv, Pending, Lives
  <2> QED
    BY <2>1, <2>2, <2>3, <2>4 DEF Pending
<1>9. \A i \in Ids, q \in Proxies : Numbered(i, q)' => Numbered(i, q)
  <2> SUFFICES ASSUME NEW i \in Ids, NEW q \in Proxies, Numbered(i, q)' PROVE Numbered(i, q)
    OBVIOUS
  <2>1. CASE q = p
    <3>1. hdl'[p] = i
      BY <1>6, <2>1 DEF Numbered
    <3> QED
      BY <1>0, <1>1, <1>6, <2>1, <3>1 DEF Numbered, p, n
  <2>2. CASE q # p
    BY <1>1, <1>6, <2>2 DEF Numbered
  <2> QED
    BY <2>1, <2>2
<1>10. HandlesAgree'
  <2>1. \A k \in Kinds, i \in Ids, q \in Proxies : Handle(k, i, q)' => Handle(k, i, q)
    BY <1>0, <1>9 DEF Handle
  <2>2. \A k \in Kinds : Top(k)' = Top(k) /\ Top(k) \in Nat
    BY <1>0, TablesTyped, BoundsAssumption DEF Top
  <2> QED
    BY <2>1, <2>2, BoundsAssumption, HandlesKept DEF IInv
<1>11. OperationsAgree'
  <2>1. \A i \in Ids, q \in Proxies : got'[q] = i => Operation(i, q)
    <3>1. Operation(n, p) \/ pc[p] # "register"
      BY <1>0, <1>1 DEF Operation, p, n
    <3> QED
      BY <1>6, <3>1, TablesTyped DEF Operation
  <2>2. \A j \in DOMAIN wire' : pc'[wire'[j].to] = "register" => pc[wire'[j].to] = "register"
    BY <1>1, <1>6, WireTyped DEF IInv
  <2>3. \A i \in Ids, q \in Proxies : Operation(i, q)' => Operation(i, q)
    BY <1>0, <1>1, <1>9, <2>1, <2>2 DEF Operation
  <2> QED
    BY <1>0, <2>3, TablesTyped, BoundsAssumption, OperationsKept DEF IInv
<1>12. EventsReachOwner'
  BY <1>0 DEF IInv, EventsReachOwner
<1>13. Silence' /\ NoneAfterUnregister'
  <2>1. pc[p] = "unregister" /\ n # 0 =>
          /\ \A i \in Ids : subs[i] # p
          /\ \A j \in DOMAIN wire : j > 1 /\ wire[j].event => wire[j].to # p
    BY <1>0, <1>1 DEF IInv, Silence, p, n
  <2>2. NoneAfterUnregister'
    BY <1>1, <1>6, <2>1 DEF IInv, NoneAfterUnregister
  <2>3. \A q \in quiet' : pc'[q] \notin {"register", "answered"} /\ \A i \in Ids : subs'[i] # q
    BY <1>0, <1>6, <2>1 DEF IInv, TypeOK, Silence
  <2>4. \A i, j \in DOMAIN wire' : j > i => j + 1 > i + 1
    BY <1>1
  <2>5. \A i \in DOMAIN wire' : pc'[wire'[i].to] = "unregister" => pc[wire'[i].to] = "unregister"
    BY <1>1, <1>6, WireTyped DEF IInv
  <2>6. ASSUME NEW i \in DOMAIN wire', ~wire'[i].event, wire'[i].n # 0,
               pc'[wire'[i].to] = "unregister"
        PROVE  /\ \A m \in Ids : subs'[m] # wire'[i].to
               /\ \A j \in DOMAIN wire' : j > i /\ wire'[j].event => wire'[j].to # wire'[i].to
    BY <1>0, <1>1, <2>4, <2>5, <2>6 DEF IInv, Silence
  <2> QED
    BY <2>2, <2>3, <2>6 DEF Silence
<1>14. Covered'
  <2> SUFFICES ASSUME NEW m \in Ids, NEW q \in Proxies, MaySend(m, q)'
               PROVE  pc'[q] \notin {"none", "open"} /\ Brought(m, q)'
    BY DEF Covered
  <2>1. MaySend(m, q)
    BY <1>0, <1>1 DEF MaySend
  <2>2. pc[q] \notin {"none", "open"} /\ Brought(m, q)
    BY <2>1 DEF IInv, Covered
  <2>3. CASE q = p
    BY <1>0, <1>1, <1>2, <1>5, <1>6, <2>2, <2>3, TablesTyped DEF Brought, Waiting, p, n
  <2>4. CASE q # p
    <3>1. \A j \in DOMAIN wire : wire[j].to = q => j - 1 \in DOMAIN wire' /\ wire'[j - 1] = wire[j]
      BY <1>0, <1>1, <2>4 DEF p
    <3> QED
      BY <1>0, <1>6, <2>2, <2>4, <3>1 DEF Brought
  <2> QED
    BY <2>3, <2>4
<1> QED
  BY <1>7, <1>8, <1>10, <1>11, <1>12, <1>13, <1>14 DEF IInv

-----------------------------------------------------------------------------
(* Every step                                                              *)

LEMMA StutterPreserves == ASSUME IInv, UNCHANGED vars PROVE IInv'
BY DEF vars, agent, core, proxy, IInv, TypeOK, Pending, Requests, Answers, Events, Lives,
       HandlesAgree, Handle, Numbered, Top, OperationsAgree, Operation, EventsReachOwner,
       Silence, NoneAfterUnregister, Covered, MaySend, Brought

LEMMA Inductive == Spec => []IInv
<1>1. ASSUME IInv, [Next]_vars PROVE IInv'
  <2>1. ASSUME NEW p \in Proxies, ThreadCalls(p) \/ CallbackCalls(p) PROVE IInv'
    <3>1. inside \in Proxies \cup {NoProxy}
      BY <1>1 DEF IInv, TypeOK
    <3> QED
      BY <1>1, <2>1, <3>1, CallPreserves DEF ThreadCalls, CallbackCalls, core
  <2>2. ASSUME NEW p \in Proxies, Open(p) \/ Destroy(p) \/ RegisterAsync(p) PROVE IInv'
    BY <1>1, <2>2, OpenPreserves, DestroyPreserves, RegisterAsyncPreserves
  <2>3. ASSUME NEW r \in asked, Serve(r) PROVE IInv'
    BY <1>1, <2>3, ServeOpenPreserves, ServeUsePreserves, ServeRegisterPreserves,
       ServeUnregisterPreserves, ServeClosePreserves DEF Serve
  <2>4. ASSUME NEW i \in Ids, SendEvent(i) PROVE IInv'
    BY <1>1, <2>4, SendEventPreserves
  <2>5. CASE Connect \/ Disconnect \/ CallbackEnds
    BY <1>1, <2>5, ConnectPreserves, DisconnectPreserves, CallbackEndsPreserves
  <2>6. CASE TakeAnswer \/ TakeEvent \/ AsyncOp
    BY <1>1, <2>6, TakeAnswerPreserves, TakeEventPreserves, AsyncOpPreserves
  <2> QED
    BY <1>1, <2>1, <2>2, <2>3, <2>4, <2>5, <2>6, StutterPreserves DEF Next
<1> QED
  BY <1>1, Begins, PTL DEF Spec

-----------------------------------------------------------------------------
\* The variables of the client, of the agent and of the connection have their types.
THEOREM TypeCorrect == Spec => []TypeOK
<1>1. IInv => TypeOK
  BY DEF IInv
<1> QED
  BY <1>1, Inductive, PTL

\* No number that the agent gave, as a handle or as an operation, names another proxy's
\* object, over any number of connections and whatever is still on its way.
THEOREM NumbersHold == Spec => []NumbersNameOwners
<1>1. IInv => HandlesNameOwn
  <2> SUFFICES ASSUME IInv, NEW p \in Proxies,
                      NEW n \in {hdl[p]} \cup {r.h : r \in {q \in asked : q.p = p}},
                      n # 0, kind[p] \notin OwnIndex \/ opened[p] = session
               PROVE  table[kind[p]][n] \in {p, NoProxy}
    BY DEF HandlesNameOwn
  <2>1. n = hdl[p]
    BY RequestIs
  <2>2. n \in Ids /\ kind[p] \in Kinds
    BY <2>1, BoundsAssumption, KindsTyped DEF IInv, TypeOK, Ids
  <2>3. Handle(kind[p], n, p)
    BY <2>1 DEF Handle, Numbered
  <2>4. table[kind[p]][n] \in Proxies \cup {NoProxy}
    BY <2>2, TablesTyped
  <2>5. ASSUME table[kind[p]][n] \in Proxies PROVE table[kind[p]][n] = p
    BY <2>2, <2>3, <2>5 DEF IInv, HandlesAgree, Handle
  <2> QED
    BY <2>4, <2>5
<1>2. IInv => NumbersNameOwners
  BY <1>1 DEF IInv, NumbersNameOwners
<1> QED
  BY <1>2, Inductive, PTL

\* When unregister( ) has returned, no event of the proxy is on the connection any more.
THEOREM UnregisterIsLast == Spec => []NoneAfterUnregister
<1>1. IInv => NoneAfterUnregister
  BY DEF IInv
<1> QED
  BY <1>1, Inductive, PTL

\* async_op finds the callback of every event, but for one that came before the call
\* which subscribes was over, or one of a connection that is.
THEOREM DropsAreEarly == Spec => []OnlyEarlyEventsDropped
<1>1. IInv => OnlyEarlyEventsDropped
  <2> SUFFICES ASSUME IInv, NEW i \in DOMAIN pool, acb[pool[i].n] = NoProxy
               PROVE  \/ pc[pool[i].to] \in {"register", "answered"}
                      \/ opened[pool[i].to] # session \/ ~online
    BY DEF OnlyEarlyEventsDropped
  <2>1. pool[i].to \in Proxies /\ pool[i].n \in Ids /\ pool[i].n # 0
    BY WireTyped, TablesTyped DEF IInv, Pending, Events
  <2>2. Brought(pool[i].n, pool[i].to)
    BY <2>1 DEF IInv, Covered, MaySend
  <2> QED
    BY <2>1, <2>2 DEF IInv, Pending, Lives, Brought
<1> QED
  BY <1>1, Inductive, PTL

-----------------------------------------------------------------------------
(* The objects of the Lua client.                                          *)
(*                                                                         *)
(* ObjectsAgree becomes inductive with what an object is made with and     *)
(* never loses: a handle that was given (HandlesGiven) and a connection    *)
(* that is not later than the one there is (Dated); and with what is left  *)
(* when the modules are gone (ModulesGone).                                *)

Dated ==
  /\ current \in Nat /\ of \in [Handles -> Nat]
  /\ class \in [Handles -> Classes \cup {"none"}]
  /\ \A h \in Handles : of[h] <= current
  /\ link = "connecting" => \A h \in objects : of[h] # current
  /\ made \in [Owners -> Nat]

HandlesGiven ==
  /\ objects \subseteq Handles /\ containers \subseteq Handles /\ atAgent \subseteq Handles
  /\ strays \subseteq atAgent
  /\ \A h \in objects \cup containers : class[h] # "none"

ModulesGone ==
  /\ lua \in {"script", "deinit", "joined", "closed"}
  /\ lua \in {"joined", "closed"} => objects = {} /\ ids \subseteq {"spi", "logger"}

\* A file that has a container is one of the module's objects.
FilesOpen == \A h \in containers : class[h] = "file" => h \in objects

ObjInv == /\ Dated /\ HandlesGiven /\ ModulesGone /\ FilesOpen
          /\ NoOrphans /\ AgentAgrees /\ ModulesFollowConnection

\* What a step that makes no object leaves of the invariant.
LEMMA ObjectsKept ==
  ASSUME ObjInv, UNCHANGED <<class, objects, containers, held, ids, of, atAgent, strays, current, link>>,
         lua' \in {lua, "script", "deinit"}, lua = "script" \/ lua' = lua,
         UNCHANGED <<made, ready, threw>>
  PROVE  ObjInv'
<1>1. Dated' /\ HandlesGiven' /\ FilesOpen'
  BY DEF ObjInv, Dated, HandlesGiven, FilesOpen
<1>2. ModulesGone'
  BY DEF ObjInv, ModulesGone
<1>3. NoOrphans' /\ AgentAgrees'
  BY DEF ObjInv, NoOrphans, AgentAgrees, Reaches
<1>4. ModulesFollowConnection'
  BY DEF ObjInv, ModulesFollowConnection
<1> QED BY <1>1, <1>2, <1>3, <1>4 DEF ObjInv

\* A new object: its handle was not given before.
LEMMA NewObject ==
  ASSUME ObjInv, NEW h \in Handles, NEW k \in Classes, NEW evented \in BOOLEAN, New(h, k, evented)
  PROVE  ObjInv'
<1>1. /\ lua = "script" /\ lua' = lua /\ class[h] = "none" /\ link = "up"
      /\ class' = [class EXCEPT ![h] = k] /\ of' = [of EXCEPT ![h] = current]
      /\ objects' = objects \cup {h} /\ held' = held \cup {h} /\ atAgent' = atAgent \cup {h}
      /\ containers' \in {containers, containers \cup {h}}
      /\ UNCHANGED <<ids, strays, current, link, made, ready, threw>>
  BY DEF New, InScript, connection, None
<1>2. k # "none"
  BY DEF Classes
<1>3. h \notin objects /\ h \notin containers /\ h \notin strays /\ h \notin atAgent
  BY <1>1 DEF ObjInv, HandlesGiven, AgentAgrees
<1>4. /\ of'[h] = current /\ class'[h] = k
      /\ \A x \in Handles \ {h} : of'[x] = of[x] /\ class'[x] = class[x]
  BY <1>1 DEF ObjInv, Dated
<1>5. Dated'
  BY <1>1, <1>4 DEF ObjInv, Dated
<1>6. HandlesGiven'
  BY <1>1, <1>2, <1>4 DEF ObjInv, HandlesGiven
<1>7. ModulesGone' /\ ModulesFollowConnection'
  BY <1>1 DEF ObjInv, ModulesGone, ModulesFollowConnection
<1>8. FilesOpen' /\ NoOrphans'
  BY <1>1, <1>3, <1>4 DEF ObjInv, HandlesGiven, FilesOpen, NoOrphans
<1>9. AgentAgrees'
  <2>1. \A x \in Handles \ (strays \cup {h}) : x \in atAgent' <=> x \in objects' /\ Reaches(x)'
    BY <1>1, <1>4 DEF ObjInv, AgentAgrees, Reaches
  <2>2. h \in atAgent' /\ h \in objects' /\ Reaches(h)'
    BY <1>1, <1>4 DEF Reaches
  <2>3. \A x \in strays : class'[x] = "iterator" /\ x \notin objects' /\ link' = "up"
    BY <1>1, <1>3, <1>4 DEF ObjInv, HandlesGiven, AgentAgrees
  <2> QED BY <1>1, <2>1, <2>2, <2>3 DEF AgentAgrees
<1> QED BY <1>5, <1>6, <1>7, <1>8, <1>9 DEF ObjInv

\* An object that goes: its module forgets it, and so does the agent, unless
\* the connection is not the one it was made over.
LEMMA ObjectGoes ==
  ASSUME ObjInv, NEW h \in Handles, Forget(h), lua = "script",
         containers' \in {containers, containers \ {h}},
         class[h] = "file" => containers' = containers \ {h},
         held' \in {held, held \ {h}}
  PROVE  ObjInv'
<1>1. /\ objects' = objects \ {h}
      /\ UNCHANGED <<lua, class, ids, of, strays, current, link, made, ready, threw>>
      /\ atAgent' = atAgent \ {x \in {h} \cap objects : Reaches(x)}
  BY DEF Forget, Release, connection
<1>2. Dated' /\ HandlesGiven'
  BY <1>1 DEF ObjInv, Dated, HandlesGiven, AgentAgrees
<1>3. ModulesGone' /\ ModulesFollowConnection'
  BY <1>1 DEF ObjInv, ModulesGone, ModulesFollowConnection
<1>4. FilesOpen' /\ NoOrphans'
  BY <1>1 DEF ObjInv, FilesOpen, NoOrphans
<1>5. AgentAgrees'
  BY <1>1 DEF ObjInv, AgentAgrees, Reaches
<1> QED BY <1>2, <1>3, <1>4, <1>5 DEF ObjInv

\* The order in which on_ready reaches the modules.
InOrder == made["logger"] <= made["os"] /\ made["os"] <= made["fs"] /\ made["fs"] <= current

\* A connection that is lost: the agent drops everything.
LEMMA ConnectionLost ==
  ASSUME ObjInv, Lost, UNCHANGED <<objects, containers, held, ids, of, current>>,
         lua' = lua \/ (lua = "script" /\ lua' = "deinit"),
         made' \in [Owners -> Nat], InOrder',
         class' \in [Handles -> Classes \cup {"none"}],
         \A h \in objects \cup containers : class'[h] = class[h]
  PROVE  ObjInv'
<1>1. link' = "lost" /\ atAgent' = {} /\ strays' = {}
  BY DEF Lost, Dropped
<1>2. Dated' /\ HandlesGiven' /\ FilesOpen'
  BY <1>1 DEF ObjInv, Dated, HandlesGiven, FilesOpen
<1>3. ModulesGone' /\ ModulesFollowConnection'
  BY <1>1 DEF ObjInv, ModulesGone, ModulesFollowConnection, InOrder
<1>4. NoOrphans' /\ AgentAgrees'
  BY <1>1 DEF ObjInv, NoOrphans, AgentAgrees, Reaches
<1> QED BY <1>2, <1>3, <1>4 DEF ObjInv

LEMMA OpensStep == ASSUME ObjInv, NEW h \in Handles, Opens(h) PROVE ObjInv'
<1>1. ASSUME NEW k \in Classes, OpenFails(h, k),
             \/ Lost
             \/ UNCHANGED <<link, atAgent, strays>>
             \/ /\ k = "iterator" /\ link' = link
                /\ atAgent' = atAgent \cup {h} /\ strays' = strays \cup {h}
      PROVE  ObjInv'
  <2>1. /\ class[h] = "none" /\ class' = [class EXCEPT ![h] = k] /\ link = "up"
        /\ UNCHANGED <<lua, objects, containers, held, ids, of, current, made, ready, threw>>
    BY <1>1 DEF OpenFails, InScript, module, None
  <2>2. /\ class' \in [Handles -> Classes \cup {"none"}]
        /\ \A x \in Handles \ {h} : class'[x] = class[x]
        /\ class'[h] = k
    BY <2>1 DEF ObjInv, Dated
  <2>3. /\ h \notin objects /\ h \notin containers /\ h \notin strays
        /\ \A x \in objects \cup containers \cup strays : class'[x] = class[x]
    BY <2>1, <2>2 DEF ObjInv, HandlesGiven, AgentAgrees
  <2>4. made \in [Owners -> Nat] /\ InOrder
    BY DEF ObjInv, Dated, ModulesFollowConnection, InOrder
  <2>5. CASE Lost
    BY <2>1, <2>2, <2>3, <2>4, <2>5, ConnectionLost DEF InOrder
  <2>6. Lost \/ (Dated' /\ FilesOpen' /\ ModulesGone' /\ NoOrphans' /\ ModulesFollowConnection')
    <3>1. CASE ~Lost
      <4>1. link' = link
        BY <1>1, <3>1
      <4>2. Dated' /\ ModulesGone' /\ ModulesFollowConnection'
        BY <2>1, <2>2, <4>1 DEF ObjInv, Dated, ModulesGone, ModulesFollowConnection
      <4>3. FilesOpen' /\ NoOrphans'
        BY <2>1, <2>3 DEF ObjInv, FilesOpen, NoOrphans
      <4> QED BY <4>2, <4>3
    <3> QED BY <3>1
  <2>7. CASE UNCHANGED <<link, atAgent, strays>>
    <3>1. HandlesGiven'
      BY <2>1, <2>3, <2>7 DEF ObjInv, HandlesGiven
    <3>2. AgentAgrees'
      BY <2>1, <2>3, <2>7 DEF ObjInv, AgentAgrees, Reaches
    <3> QED BY <2>5, <2>6, <3>1, <3>2 DEF ObjInv
  <2>8. CASE /\ k = "iterator" /\ link' = link
             /\ atAgent' = atAgent \cup {h} /\ strays' = strays \cup {h}
    <3>1. HandlesGiven'
      BY <2>1, <2>3, <2>8 DEF ObjInv, HandlesGiven
    <3>2. \A x \in Handles \ (strays \cup {h}) : x \in atAgent' <=> x \in objects' /\ Reaches(x)'
      BY <2>1, <2>8 DEF ObjInv, AgentAgrees, Reaches
    <3>3. \A x \in strays \cup {h} : class'[x] = "iterator" /\ x \notin objects' /\ link' = "up"
      BY <2>1, <2>2, <2>3, <2>8 DEF ObjInv, AgentAgrees
    <3>4. AgentAgrees'
      BY <2>8, <3>2, <3>3 DEF AgentAgrees
    <3> QED BY <2>5, <2>6, <3>1, <3>4 DEF ObjInv
  <2> QED BY <1>1, <2>5, <2>7, <2>8
<1>2. CASE \E k \in Classes, evented \in BOOLEAN : New(h, k, evented)
  BY <1>2, NewObject
<1>3. \A k \in {"file", "iterator", "gpio", "logger", "spi", "smbus"} : k \in Classes
  BY DEF Classes
<1>4. CASE GpioExportFails(h)
  BY <1>1, <1>3, <1>4 DEF GpioExportFails, remote
<1>5. CASE IterBeginFails(h)
  BY <1>1, <1>3, <1>5 DEF IterBeginFails, remote
<1> QED
  BY <1>2, <1>3, <1>4, <1>5 DEF Opens, FileOpen, IterBegin, GpioExport, LoggerAdd, SpiOpen, SmbusOpen

LEMMA UsesStep == ASSUME ObjInv, NEW h \in Handles, Uses(h) PROVE ObjInv'
<1>1. /\ UNCHANGED <<class, objects, containers, held, ids, of, atAgent, strays, current, link>>
      /\ UNCHANGED <<lua, made, ready, threw>>
  BY DEF Uses, FileRead, FileSeek, IterCall, GpioSet, GpioGet, LoggerWrite,
         SpiCall, SmbusCall, SmbusBytes, SmbusFunctions, CallOn,
         script, module, remote, connection
<1> QED BY <1>1, ObjectsKept

LEMMA SubscribesStep == ASSUME ObjInv, NEW h \in Handles, Subscribes(h) PROVE ObjInv'
<1>1. PICK on \in BOOLEAN : FileSubscribe(h, on) \/ GpioSubscribe(h, on) \/ LoggerSubscribe(h, on)
  BY DEF Subscribes
<1>2. Subscribed(h, on) /\ (Throws \/ lua' = lua)
  BY <1>1, Zenon DEF FileSubscribe, GpioSubscribe, LoggerSubscribe
<1>3. /\ UNCHANGED <<class, objects, containers, held, ids, of, atAgent, strays, current, link>>
      /\ lua = "script" /\ UNCHANGED <<made, ready, threw>>
  BY <1>2 DEF Subscribed, InScript, script, connection
<1> QED BY <1>2, <1>3, ObjectsKept DEF Throws

LEMMA ClosesStep == ASSUME ObjInv, NEW h \in Handles, Closes(h) PROVE ObjInv'
<1>1. CASE Forget(h) /\ ~Collect(h)
  <2>1. /\ lua = "script" /\ held' = held
        /\ containers' \in {containers, containers \ {h}}
        /\ class[h] = "file" => containers' = containers \ {h}
    BY <1>1 DEF Closes, FileClose, IterClose, GpioClose, SpiClose, SmbusClose,
                LoggerClose, Closing, InScript, script, module
  <2> QED BY <1>1, <2>1, ObjectGoes DEF Forget, connection
<1>2. CASE LoggerClose(h)
  BY <1>2, ObjectsKept DEF LoggerClose, script, module, remote, connection
<1>3. CASE Collect(h) /\ class[h] = "logger"
  <2>1. /\ UNCHANGED <<lua, class, objects, containers, ids, of, atAgent, strays>>
        /\ UNCHANGED <<current, link, made, ready, threw>>
        /\ held' = held \ {h}
    BY <1>3 DEF Collect, module, remote, connection
  <2>2. NoOrphans'
    BY <1>3, <2>1 DEF ObjInv, NoOrphans
  <2>3. Dated' /\ HandlesGiven' /\ FilesOpen' /\ ModulesGone'
    BY <2>1 DEF ObjInv, Dated, HandlesGiven, FilesOpen, ModulesGone
  <2>4. AgentAgrees' /\ ModulesFollowConnection'
    BY <2>1 DEF ObjInv, AgentAgrees, Reaches, ModulesFollowConnection
  <2> QED BY <2>2, <2>3, <2>4 DEF ObjInv
<1>4. CASE Collect(h) /\ class[h] # "logger"
  <2>1. /\ lua = "script" /\ held' = held \ {h} /\ Forget(h)
        /\ containers' = IF class[h] = "file" THEN containers \ {h} ELSE containers
    BY <1>4 DEF Collect, InScript
  <2> QED BY <2>1, ObjectGoes DEF Forget, connection
<1> QED
  BY <1>1, <1>2, <1>3, <1>4 DEF Closes, FileClose, IterClose, GpioClose, SpiClose,
                                SmbusClose

\* The calls over the modules' own proxies and the posted calls.
LEMMA ThreadStep ==
  ASSUME ObjInv, LocalCall \/ (\E m \in Owners : OwnCall(m)) \/ NewConnection \/ Exit \/ Posted \/ Ending
  PROVE  ObjInv'
<1>1. CASE LocalCall \/ (\E m \in Owners : OwnCall(m)) \/ Exit \/ RunPosted
  <2>1. /\ UNCHANGED <<class, objects, containers, held, ids, of, atAgent, strays, current, link>>
        /\ lua' \in {"script", "deinit"} /\ lua = "script" /\ UNCHANGED <<made, ready, threw>>
    BY <1>1 DEF LocalCall, OwnCall, Exit, RunPosted, InScript,
                script, module, remote, connection
  <2> QED BY <2>1, ObjectsKept
<1>2. CASE NewConnection
  <2>1. /\ current' = current + 1 /\ link' = "connecting" /\ atAgent' = {} /\ strays' = {}
        /\ UNCHANGED <<lua, class, objects, containers, held, ids, of, made, ready, threw>>
    BY <1>2 DEF NewConnection, Dropped, script, module
  <2>2. Dated' /\ made["fs"] <= current'
    BY <2>1 DEF ObjInv, Dated, HandlesGiven, Owners, ModulesFollowConnection
  <2>3. HandlesGiven' /\ FilesOpen' /\ ModulesGone'
    BY <2>1 DEF ObjInv, HandlesGiven, FilesOpen, ModulesGone
  <2>4. NoOrphans' /\ AgentAgrees' /\ ModulesFollowConnection'
    BY <2>1, <2>2 DEF ObjInv, NoOrphans, AgentAgrees, Reaches, ModulesFollowConnection
  <2> QED BY <2>2, <2>3, <2>4 DEF ObjInv
<1>3. CASE OnReady
  <2>1. /\ UNCHANGED <<class, objects, containers, held, ids, of, current>>
        /\ lua = "script" /\ lua' \in {"script", "deinit"}
        /\ Lost \/ UNCHANGED <<link, atAgent, strays>>
        /\ threw' \/ (lua' = lua /\ Remade(Owners))
    BY <1>3 DEF OnReady, InScript, Throws, script, module, remote
  <2>2. PICK ms \in {{}, {"fs"}, {"fs", "os"}, Owners} : Remade(ms)
    BY <1>3 DEF OnReady
  <2>3. /\ made' \in [Owners -> Nat] /\ InOrder'
        /\ Remade(Owners) => \A m \in Owners : made'[m] = current
    <3>1. /\ current \in Nat /\ made \in [Owners -> Nat] /\ InOrder
      BY DEF ObjInv, Dated, ModulesFollowConnection, InOrder
    <3>2. made' = [m \in Owners |-> IF m \in ms THEN current ELSE made[m]]
      BY <2>2 DEF Remade
    <3>3. "fs" \in Owners /\ "os" \in Owners /\ "logger" \in Owners
      BY DEF Owners
    <3>4. made["fs"] \in Nat /\ made["os"] \in Nat /\ made["logger"] \in Nat
      BY <3>1, <3>3
    <3>5. made' \in [Owners -> Nat]
      BY <3>1, <3>2
    <3>6. ("logger" \in ms => "os" \in ms) /\ ("os" \in ms => "fs" \in ms)
      BY <3>3
    <3>7. InOrder'
      BY <2>1, <3>1, <3>2, <3>3, <3>4, <3>6 DEF InOrder
    <3>8. Remade(Owners) => \A m \in Owners : made'[m] = current
      BY DEF Remade
    <3> QED BY <3>5, <3>7, <3>8
  <2>4. CASE Lost
    BY <2>1, <2>3, <2>4, ConnectionLost DEF ObjInv, Dated
  <2>5. CASE UNCHANGED <<link, atAgent, strays>>
    <3>1. Dated' /\ HandlesGiven' /\ FilesOpen' /\ ModulesGone'
      BY <2>1, <2>3, <2>5 DEF ObjInv, Dated, HandlesGiven, FilesOpen, ModulesGone
    <3>2. NoOrphans' /\ AgentAgrees'
      BY <2>1, <2>5 DEF ObjInv, NoOrphans, AgentAgrees, Reaches
    <3>3. ModulesFollowConnection'
      BY <2>1, <2>3 DEF ModulesFollowConnection, InOrder
    <3> QED BY <3>1, <3>2, <3>3 DEF ObjInv
  <2> QED BY <2>1, <2>4, <2>5
<1>4. CASE Deinit
  <2>1. /\ lua' = "joined" /\ objects' = {} /\ containers' = containers \cap OfClass("gpio")
        /\ ids' = ids \cap {"spi", "logger"} /\ link' = "lost" /\ atAgent' = {} /\ strays' = {}
        /\ UNCHANGED <<class, held, of, current, made>>
    BY <1>4 DEF Deinit, Lost, Dropped
  <2>2. \A h \in containers' : h \in containers /\ class[h] = "gpio"
    BY <2>1 DEF OfClass, Given
  <2>3. Dated' /\ HandlesGiven' /\ FilesOpen' /\ ModulesGone'
    BY <2>1, <2>2 DEF ObjInv, Dated, HandlesGiven, FilesOpen, ModulesGone
  <2>4. NoOrphans' /\ AgentAgrees' /\ ModulesFollowConnection'
    BY <2>1 DEF ObjInv, NoOrphans, AgentAgrees, Reaches, ModulesFollowConnection
  <2> QED BY <2>3, <2>4 DEF ObjInv
<1>5. CASE CloseState
  <2>1. /\ lua = "joined" /\ lua' = "closed"
        /\ UNCHANGED <<class, objects, containers, ids, of, atAgent, strays, current, link, made, ready, threw>>
    BY <1>5 DEF CloseState, module, remote, connection
  <2>2. Dated' /\ HandlesGiven' /\ FilesOpen' /\ ModulesGone'
    BY <2>1 DEF ObjInv, Dated, HandlesGiven, FilesOpen, ModulesGone
  <2>3. NoOrphans' /\ AgentAgrees' /\ ModulesFollowConnection'
    BY <2>1 DEF ObjInv, ModulesGone, NoOrphans, AgentAgrees, Reaches, ModulesFollowConnection
  <2> QED BY <2>2, <2>3 DEF ObjInv
<1> QED BY <1>1, <1>2, <1>3, <1>4, <1>5 DEF Posted, Ending

LEMMA RpcStep == ASSUME ObjInv, Rpc PROVE ObjInv'
<1>1. UNCHANGED <<lua, class, objects, containers, held, ids, of>>
  BY DEF Rpc, PostCall, BecomesReady, LinkDrops, Event, Deliver, Running,
         script, module
<1>2. CASE PostCall \/ \E h \in Handles : Event(h) \/ Deliver(h)
  <2>1. UNCHANGED <<atAgent, strays, current, link, made, ready, threw>>
    BY <1>2 DEF PostCall, Event, Deliver, remote, connection
  <2> QED BY <1>1, <2>1, ObjectsKept
<1>3. CASE BecomesReady
  <2>1. link = "connecting" /\ link' = "up" /\ ready' = TRUE /\ UNCHANGED <<atAgent, strays, current, made>>
    BY <1>3 DEF BecomesReady, remote
  <2>2. Dated' /\ HandlesGiven' /\ FilesOpen' /\ ModulesGone'
    BY <1>1, <2>1 DEF ObjInv, Dated, HandlesGiven, FilesOpen, ModulesGone
  <2>3. AgentAgrees'
    BY <1>1, <2>1 DEF ObjInv, Dated, AgentAgrees, Reaches
  <2>4. NoOrphans' /\ ModulesFollowConnection'
    BY <1>1, <2>1 DEF ObjInv, NoOrphans, ModulesFollowConnection
  <2> QED BY <2>2, <2>3, <2>4 DEF ObjInv
<1>4. CASE LinkDrops
  <2>1. Lost /\ UNCHANGED <<current, made, ready>>
    BY <1>4 DEF LinkDrops
  <2>2. class \in [Handles -> Classes \cup {"none"}] /\ made \in [Owners -> Nat] /\ InOrder
    BY DEF ObjInv, Dated, ModulesFollowConnection, InOrder
  <2> QED BY <1>1, <2>1, <2>2, ConnectionLost DEF InOrder
<1> QED BY <1>2, <1>3, <1>4 DEF Rpc

LEMMA ObjBegins == ObjectsInit => ObjInv
<1> SUFFICES ASSUME ObjectsInit PROVE ObjInv
  OBVIOUS
<1>1. /\ lua = "script" /\ class = [h \in Handles |-> "none"] /\ objects = {} /\ containers = {}
      /\ of = [h \in Handles |-> 0] /\ atAgent = {} /\ strays = {} /\ current = 0 /\ link = "none"
      /\ made = [m \in Owners |-> 0]
  BY DEF ObjectsInit, None
<1>2. Dated /\ HandlesGiven /\ FilesOpen /\ ModulesGone
  BY <1>1 DEF Dated, HandlesGiven, FilesOpen, ModulesGone
<1>3. NoOrphans /\ AgentAgrees /\ ModulesFollowConnection
  BY <1>1 DEF NoOrphans, AgentAgrees, ModulesFollowConnection, Owners
<1> QED BY <1>2, <1>3 DEF ObjInv

LEMMA ObjStep == ASSUME ObjInv, [ObjectsNext]_(objectsVars) PROVE ObjInv'
<1>1. CASE Script
  BY <1>1, OpensStep, UsesStep, SubscribesStep, ClosesStep, ThreadStep DEF Script
<1>2. CASE Posted \/ Ending
  BY <1>2, ThreadStep
<1>3. CASE Rpc
  BY <1>3, RpcStep
<1>4. CASE UNCHANGED objectsVars
  BY <1>4, ObjectsKept DEF objectsVars, script, module, remote, connection
<1> QED BY <1>1, <1>2, <1>3, <1>4 DEF ObjectsNext

LEMMA ObjInvariant == ObjectsSpec => []ObjInv
BY ObjBegins, ObjStep, PTL DEF ObjectsSpec

\* Script, modules and agent have the same objects, over any sequence of
\* connections, but for the iterators of begins that threw at the agent: fs_fopen, gpio's new_dev and the other calls of
\* src/lua-client/modules that make an object, close, __gc and deinit.
THEOREM ObjectsStayAgreed == ObjectsSpec => []ObjectsAgree
<1>1. ObjInv => ObjectsAgree
  BY DEF ObjInv, ModulesGone, ObjectsAgree, CollectFindsModule
<1> QED BY <1>1, ObjInvariant, PTL

\* After a new connection the modules' own proxies belong to it once on_ready
\* has run to its end, and if it threw half way those it reached come first,
\* whatever the script did and the connection was lost in between.
THEOREM ModulesCatchUp == ObjectsSpec => []ModulesFollowConnection
<1>1. ObjInv => ModulesFollowConnection
  BY DEF ObjInv
<1> QED BY <1>1, ObjInvariant, PTL

\* The rpc thread takes up no event of a file that was closed, those on their
\* way included: file_event finds no container.
THEOREM ClosedFilesStaySilent == ObjectsSpec => ClosedFilesFallSilent
<1>1. ASSUME ObjInv, [ObjectsNext]_(objectsVars)
      PROVE  [\A h \in OfClass("file") \ objects : rpc # h => rpc' # h]_(objectsVars)
  <2> SUFFICES ASSUME NEW h \in OfClass("file") \ objects, rpc # h, rpc' = h PROVE FALSE
    OBVIOUS
  <2>1. h \in Handles /\ h # "none" /\ class[h] = "file" /\ h \notin objects
    BY LuaObjectsAssumption DEF OfClass, Given
  <2>2. h \notin containers
    BY <1>1, <2>1 DEF ObjInv, FilesOpen
  <2>3. rpc' = rpc \/ rpc' = "none" \/ rpc' \in containers
    <3>1. CASE Script
      BY <3>1 DEF Script, Opens, FileOpen, IterBegin, IterBeginFails, GpioExport, LoggerAdd,
                  SpiOpen, SmbusOpen, GpioExportFails, OpenFails, New, Uses, FileRead,
                  FileSeek, IterCall, GpioSet, GpioGet, LoggerWrite, SpiCall,
                  SmbusCall, SmbusBytes, SmbusFunctions, CallOn, Subscribes,
                  FileSubscribe, GpioSubscribe, LoggerSubscribe, Subscribed, Closes,
                  FileClose, IterClose, GpioClose, SpiClose, SmbusClose,
                  LoggerClose, Closing, Collect, LocalCall, OwnCall, NewConnection,
                  Exit, InScript
    <3>2. CASE Posted \/ Ending
      BY <3>2 DEF Posted, OnReady, RunPosted, Ending, Deinit, CloseState,
                  InScript
    <3>3. CASE Rpc
      BY <3>3 DEF Rpc, PostCall, BecomesReady, LinkDrops, Event, Deliver, None
    <3>4. CASE UNCHANGED objectsVars
      BY <3>4 DEF objectsVars
    <3> QED BY <1>1, <3>1, <3>2, <3>3, <3>4 DEF ObjectsNext
  <2> QED BY <2>1, <2>2, <2>3
<1> QED BY <1>1, ObjInvariant, PTL DEF ObjectsSpec, ClosedFilesFallSilent

-----------------------------------------------------------------------------
(* The types of the Lua client's objects                                   *)

\* What ObjectsTypeOK says of the variables that the invariant leaves open.
LinkTyped ==
  /\ says \in {"nothing", "done", "error", "bad handle"}
  /\ posts \in Seq(Handles) /\ rpc \in Handles \cup {None}
  /\ current <= MaxConnections /\ made \in [Owners -> 0..MaxConnections]
  /\ ready \in BOOLEAN /\ threw \in BOOLEAN
  /\ link \in {"none", "connecting", "up", "lost"} /\ crashed \in BOOLEAN

\* Everything that is kept of an object is kept of a handle that was given.
OnlyGiven ==
  /\ calls \subseteq Given /\ held \subseteq Given /\ underway \subseteq Given
  /\ ids \subseteq Classes /\ sending \subseteq atAgent

\* A handle that was given stays given, and no step but an open gives one.
LEMMA GivenGrows ==
  ASSUME ObjInv, [ObjectsNext]_objectsVars
  PROVE  Given \subseteq Given'
<1>1. ASSUME NEW h \in Handles, Opens(h) PROVE Given \subseteq Given'
  <2>1. PICK k \in Classes : class[h] = "none" /\ class' = [class EXCEPT ![h] = k]
    BY <1>1 DEF Opens, FileOpen, IterBegin, IterBeginFails, GpioExport, GpioExportFails, OpenFails,
                LoggerAdd, SpiOpen, SmbusOpen, New, None, Classes
  <2>2. \A x \in Handles : class[x] # "none" => class'[x] = class[x]
    BY <2>1 DEF ObjInv, Dated
  <2> QED BY <2>2 DEF Given, None
<1>2. class' = class \/ \E h \in Handles : Opens(h)
  <2>1. CASE Script
    BY <2>1 DEF Script, Uses, FileRead, FileSeek, IterCall, GpioSet, GpioGet, LoggerWrite,
                SpiCall, SmbusCall, SmbusBytes, SmbusFunctions, CallOn, Subscribes,
                FileSubscribe, GpioSubscribe, LoggerSubscribe, Subscribed, Closes,
                FileClose, IterClose, GpioClose, SpiClose, SmbusClose, LoggerClose,
                Collect, Forget, LocalCall, OwnCall, NewConnection, Exit, script
  <2>2. CASE Posted \/ Ending
    BY <2>2 DEF Posted, OnReady, RunPosted, Ending, Deinit, CloseState, script
  <2>3. CASE Rpc
    BY <2>3 DEF Rpc, PostCall, BecomesReady, LinkDrops, Event, Deliver, Running, script
  <2>4. CASE UNCHANGED objectsVars
    BY <2>4 DEF objectsVars
  <2> QED BY <2>1, <2>2, <2>3, <2>4 DEF ObjectsNext
<1> QED BY <1>1, <1>2 DEF Given

LEMMA OpensTyped ==
  ASSUME ObjInv, LinkTyped, OnlyGiven, NEW h \in Handles, Opens(h), Given \subseteq Given'
  PROVE  LinkTyped' /\ OnlyGiven'
<1>1. ASSUME NEW k \in Classes, NEW evented \in BOOLEAN, New(h, k, evented) PROVE LinkTyped' /\ OnlyGiven'
  <2>1. h \in Given'
    BY <1>1 DEF New, Given, ObjInv, Dated, None, Classes
  <2>2. /\ held' = held \cup {h} /\ atAgent' = atAgent \cup {h} /\ says' = "done"
        /\ UNCHANGED <<posts, rpc, calls, ids, sending, underway, current, link, made, ready, threw, crashed>>
    BY <1>1 DEF New, InScript, connection
  <2> QED BY <2>1, <2>2 DEF LinkTyped, OnlyGiven
<1>2. CASE GpioExportFails(h) \/ IterBeginFails(h)
  <2>1. /\ says' = "error" /\ UNCHANGED <<posts, rpc, held, ids, calls, current, made, ready, threw, crashed>>
    BY <1>2 DEF GpioExportFails, IterBeginFails, OpenFails, InScript, module
  <2>2. \/ link' = "lost" /\ atAgent' = {} /\ sending' = {} /\ underway' = {}
        \/ atAgent \subseteq atAgent' /\ UNCHANGED <<link, sending, underway>>
    BY <1>2 DEF GpioExportFails, IterBeginFails, Lost, Dropped, remote
  <2> QED BY <2>1, <2>2 DEF LinkTyped, OnlyGiven
<1>3. \A k \in {"file", "iterator", "gpio", "logger", "spi", "smbus"} : k \in Classes
  BY DEF Classes
<1> QED
  BY <1>1, <1>2, <1>3 DEF Opens, FileOpen, IterBegin, GpioExport, LoggerAdd, SpiOpen, SmbusOpen

\* Calls that make and end no object.
LEMMA SaysTyped ==
  ASSUME LinkTyped, OnlyGiven, Given \subseteq Given', says' \in {says, "done", "error", "bad handle"},
         UNCHANGED <<posts, rpc, held, ids, calls, module, remote, connection, crashed>>
  PROVE  LinkTyped' /\ OnlyGiven'
BY DEF LinkTyped, OnlyGiven, module, remote, connection

LEMMA SubscribesTyped ==
  ASSUME LinkTyped, OnlyGiven, NEW h \in Handles, Subscribes(h), Given \subseteq Given', ObjInv
  PROVE  LinkTyped' /\ OnlyGiven'
<1>1. PICK on \in BOOLEAN : FileSubscribe(h, on) \/ GpioSubscribe(h, on) \/ LoggerSubscribe(h, on)
  BY DEF Subscribes
<1>2. h \in held /\ Subscribed(h, on)
  BY <1>1 DEF FileSubscribe, GpioSubscribe, LoggerSubscribe
<1>3. (Sends(h, on) /\ h \in objects) \/ (says' \in {says, "done"} /\ UNCHANGED sending)
  BY <1>1, Zenon DEF FileSubscribe, GpioSubscribe, LoggerSubscribe, Throws
<1>4. /\ calls' \subseteq calls \cup {h} /\ crashed' \in BOOLEAN
      /\ UNCHANGED <<posts, rpc, held, ids, atAgent, underway, current, link, made, ready, threw>>
  BY <1>2 DEF Subscribed, InScript, Racing, LinkTyped, script, connection
<1>5. sending' \subseteq atAgent /\ says' \in {"nothing", "done", "error", "bad handle"}
  <2>1. CASE says' \in {says, "done"} /\ UNCHANGED sending
    BY <2>1 DEF OnlyGiven, LinkTyped
  <2>2. CASE Sends(h, on) /\ h \in objects
    <3>1. Reaches(h) => h \in atAgent
      BY <2>2 DEF ObjInv, AgentAgrees, HandlesGiven
    <3> QED BY <2>2, <3>1 DEF Sends, OnlyGiven
  <2> QED BY <1>3, <2>1, <2>2
<1> QED BY <1>2, <1>4, <1>5 DEF LinkTyped, OnlyGiven

LEMMA ClosesTyped ==
  ASSUME LinkTyped, OnlyGiven, NEW h \in Handles, Closes(h), Given \subseteq Given'
  PROVE  LinkTyped' /\ OnlyGiven'
<1>1. /\ held' \subseteq held /\ UNCHANGED <<posts, rpc>> /\ says' \in {says, "done"}
  BY DEF Closes, FileClose, IterClose, GpioClose, SpiClose, SmbusClose, LoggerClose,
         Collect, Closing, InScript, script
<1>2. \/ Forget(h)
      \/ UNCHANGED <<ids, calls, atAgent, sending, underway, current, link, made, ready, threw, crashed>>
  BY DEF Closes, FileClose, IterClose, GpioClose, SpiClose, SmbusClose, LoggerClose,
         Collect, script, module, remote, connection
<1>3. /\ UNCHANGED <<ids, calls, underway, current, link, made, ready, threw, crashed>>
      /\ \E gone : atAgent' = atAgent \ gone /\ sending' = sending \ gone
  <2>1. CASE Forget(h)
    BY <2>1 DEF Forget, Release, connection
  <2>2. CASE UNCHANGED <<ids, calls, atAgent, sending, underway, current, link, made, ready, threw, crashed>>
    <3>1. atAgent' = atAgent \ {} /\ sending' = sending \ {}
      BY <2>2
    <3> QED BY <2>2, <3>1
  <2> QED BY <1>2, <2>1, <2>2
<1> QED BY <1>1, <1>3 DEF LinkTyped, OnlyGiven

LEMMA ThreadTyped ==
  ASSUME ObjInv, LinkTyped, OnlyGiven, Given \subseteq Given',
         LocalCall \/ (\E m \in Owners : OwnCall(m)) \/ NewConnection \/ Exit \/ Posted \/ Ending
  PROVE  LinkTyped' /\ OnlyGiven'
<1>1. CASE LocalCall \/ (\E m \in Owners : OwnCall(m)) \/ Exit
  <2>1. /\ says' \in {says, "done", "error"}
        /\ UNCHANGED <<posts, rpc, held, ids, calls, module, remote, connection, crashed>>
    BY <1>1 DEF LocalCall, OwnCall, Exit, InScript, script, module
  <2> QED BY <2>1, SaysTyped
<1>2. CASE NewConnection
  <2>1. /\ current' = current + 1 /\ current < MaxConnections /\ link' = "connecting"
        /\ atAgent' = {} /\ sending' = {} /\ underway' = {}
        /\ UNCHANGED <<posts, rpc, says, held, ids, calls, made, ready, threw, crashed>>
    BY <1>2 DEF NewConnection, Dropped, InScript, script, module
  <2>2. current' <= MaxConnections
    BY <2>1, LuaObjectsAssumption DEF ObjInv, Dated
  <2> QED BY <2>1, <2>2 DEF LinkTyped, OnlyGiven
<1>3. CASE OnReady
  <2>1. /\ ready' = FALSE /\ threw' \in BOOLEAN
        /\ \/ link' = "lost" /\ atAgent' = {} /\ sending' = {} /\ underway' = {}
           \/ UNCHANGED <<link, atAgent, sending, underway>>
        /\ UNCHANGED <<posts, rpc, says, held, ids, calls, current, crashed>>
    BY <1>3 DEF OnReady, Throws, Lost, Dropped, InScript, script, module, remote
  <2>2. PICK ms : Remade(ms)
    BY <1>3 DEF OnReady
  <2>3. made' \in [Owners -> 0..MaxConnections]
    <3>1. current \in Nat /\ current <= MaxConnections /\ made \in [Owners -> 0..MaxConnections]
      BY DEF LinkTyped, ObjInv, Dated
    <3>2. current \in 0..MaxConnections
      BY <3>1, LuaObjectsAssumption
    <3> QED BY <2>2, <3>1, <3>2 DEF Remade
  <2> QED BY <2>1, <2>3 DEF LinkTyped, OnlyGiven
<1>4. CASE RunPosted
  <2>1. posts' \in Seq(Handles)
    <3>1. posts \in Seq(Handles) /\ posts # <<>> /\ posts' = Tail(posts)
      BY <1>4 DEF RunPosted, LinkTyped
    <3> QED BY <3>1
  <2> QED BY <1>4, <2>1 DEF RunPosted, LinkTyped, OnlyGiven, script, module, remote, connection
<1>5. CASE Ending
  <2>1. /\ held' \subseteq held /\ ids' \subseteq ids /\ crashed' \in BOOLEAN
        /\ \/ link' = "lost" /\ atAgent' = {} /\ sending' = {} /\ underway' = {}
           \/ UNCHANGED <<link, atAgent, sending, underway>>
        /\ UNCHANGED <<posts, rpc, says, calls, current, made, ready, threw>>
    BY <1>5 DEF Ending, Deinit, CloseState, Lost, Dropped, LinkTyped, module, remote, connection
  <2> QED BY <2>1 DEF LinkTyped, OnlyGiven
<1> QED BY <1>1, <1>2, <1>3, <1>4, <1>5 DEF Posted

LEMMA RpcTyped ==
  ASSUME ObjInv, LinkTyped, OnlyGiven, Given \subseteq Given', Rpc
  PROVE  LinkTyped' /\ OnlyGiven'
<1>0. UNCHANGED <<says, held, ids, calls, crashed>>
  BY DEF Rpc, PostCall, BecomesReady, LinkDrops, Event, Deliver, Running,
         script, module
<1>1. CASE PostCall
  <2>1. posts' \in Seq(Handles) /\ rpc' = None
    <3>1. /\ posts \in Seq(Handles) /\ rpc \in Handles /\ rpc' = None
          /\ posts' = IF rpc \in calls THEN Append(posts, rpc) ELSE posts
      BY <1>1 DEF PostCall, LinkTyped
    <3> QED BY <3>1
  <2> QED BY <1>0, <1>1, <2>1 DEF PostCall, LinkTyped, OnlyGiven, remote, connection
<1>2. CASE BecomesReady \/ LinkDrops
  BY <1>0, <1>2 DEF BecomesReady, LinkDrops, Lost, Dropped, LinkTyped, OnlyGiven, remote
<1>3. ASSUME NEW h \in Handles, Event(h) PROVE LinkTyped' /\ OnlyGiven'
  <2>1. h \in Given
    BY <1>3 DEF Event, OnlyGiven, ObjInv, AgentAgrees, HandlesGiven, Given, None
  <2> QED BY <1>0, <1>3, <2>1 DEF Event, LinkTyped, OnlyGiven, connection
<1>4. ASSUME NEW h \in Handles, Deliver(h) PROVE LinkTyped' /\ OnlyGiven'
  BY <1>0, <1>4 DEF Deliver, LinkTyped, OnlyGiven, connection
<1> QED BY <1>1, <1>2, <1>3, <1>4 DEF Rpc

\* The variables of the Lua client's objects keep their types: maps, containers,
\* subscriptions and events are of handles that were given, and the agent sends
\* events only for what it has open.
THEOREM ObjectsTypeCorrect == ObjectsSpec => []ObjectsTypeOK
<1>1. ASSUME ObjectsInit PROVE LinkTyped /\ OnlyGiven
  <2>1. <<>> \in Seq(Handles) /\ 0 <= MaxConnections /\ 0 \in 0..MaxConnections
    BY LuaObjectsAssumption
  <2> QED BY <1>1, <2>1 DEF ObjectsInit, LinkTyped, OnlyGiven
<1>2. ASSUME ObjInv, LinkTyped /\ OnlyGiven, [ObjectsNext]_objectsVars PROVE LinkTyped' /\ OnlyGiven'
  <2>1. Given \subseteq Given'
    BY <1>2, GivenGrows
  <2>2. ASSUME NEW h \in Handles, Uses(h) PROVE LinkTyped' /\ OnlyGiven'
    <3>1. /\ says' \in {"done", "error", "bad handle"}
          /\ UNCHANGED <<posts, rpc, held, ids, calls, module, remote, connection, crashed>>
      BY <2>2 DEF Uses, FileRead, FileSeek, IterCall, GpioSet, GpioGet, LoggerWrite,
                  SpiCall, SmbusCall, SmbusBytes, SmbusFunctions, CallOn, InScript,
                  script, module
    <3> QED BY <1>2, <2>1, <3>1, SaysTyped
  <2>3. CASE Script
    BY <1>2, <2>1, <2>2, <2>3, OpensTyped, SubscribesTyped, ClosesTyped, ThreadTyped DEF Script, ObjInv
  <2>4. CASE UNCHANGED objectsVars
    BY <1>2, <2>1, <2>4, SaysTyped DEF objectsVars, module, remote, connection
  <2> QED BY <1>2, <2>1, <2>3, <2>4, ThreadTyped, RpcTyped DEF ObjectsNext
<1>3. ASSUME ObjInv, LinkTyped /\ OnlyGiven PROVE ObjectsTypeOK
  <2>1. objects \subseteq Given /\ containers \subseteq Given /\ atAgent \subseteq Given /\ strays \subseteq atAgent
    BY <1>3 DEF ObjInv, HandlesGiven, AgentAgrees, Given, None
  <2>2. current \in 0..MaxConnections /\ of \in [Handles -> 0..MaxConnections]
    <3>1. /\ current \in Nat /\ current <= MaxConnections /\ of \in [Handles -> Nat]
          /\ \A h \in Handles : of[h] <= current
      BY <1>3 DEF ObjInv, Dated, LinkTyped
    <3>2. \A h \in Handles : of[h] \in 0..MaxConnections
      BY <3>1, LuaObjectsAssumption
    <3> QED BY <3>1, <3>2, LuaObjectsAssumption
  <2> QED BY <1>3, <2>1, <2>2 DEF ObjInv, Dated, ModulesGone, LinkTyped, OnlyGiven, ObjectsTypeOK, None
<1> QED BY <1>1, <1>2, <1>3, ObjBegins, ObjStep, PTL DEF ObjectsSpec
=============================================================================
