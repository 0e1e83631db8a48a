------------------------------ MODULE Logging ------------------------------
(***************************************************************************)
(* The agent's log: the record queue and the strand of agent/logger.cpp,   *)
(* and the outputs, the flush timer and the subscribed clients that        *)
(* agent/subsys-logging.cpp connects to its on_write signal.  Any pool     *)
(* thread writes records, calls the subsystem and runs what was posted to  *)
(* the strand; Main creates the subsystem, joins the pools and writes what *)
(* is left.                                                                *)
(***************************************************************************)
EXTENDS Naturals, Sequences, FiniteSets

CONSTANTS Threads, Main,   \* pool threads, the main thread
          Names,           \* names of outputs, as the user writes them
          Stdout, Dash,    \* two names of one output
          Syslog,          \* the output that is opened only once
          Default,         \* the names given on the command line
          Outputs,         \* log_output objects
          Clients,         \* connections with a logger service
          NoName, NoOut, NoThread,
          MaxRecords, MaxCalls, MaxSubs \* bounds: records, calls, slots of a service

ASSUME ConstantsAssumption ==
  /\ Main \notin Threads /\ NoThread \notin Threads \cup {Main}
  /\ Dash # Stdout /\ Dash # Syslog /\ Stdout # Syslog
  /\ Default \in Seq(Names)
  /\ NoName \notin Names /\ NoOut \notin Outputs
  /\ MaxRecords \in Nat /\ MaxCalls \in Nat /\ MaxSubs \in Nat

VARIABLES
  queue,    \* queue_: the records not yet popped, numbered as emplaced
  emplaced, \* how many records were emplaced
  written,  \* the records given to on_write_, in that order
  hand,     \* the record a thread has popped and not yet given to on_write_
  jobs,     \* what was posted to dispatcher_
  strand,   \* the thread that runs a job of dispatcher_
  pc, arg,  \* where each thread is, and with which name
  life,     \* create, run, stopping (the pools), joined, done
  made,     \* how many of Default create has added
  calls,    \* how many times an output was added or deleted since (a bound)
  listed,   \* the keys of connections_
  out,      \* ... output_
  conn,     \* ... connection_: the slot it refers to
  slots,    \* the outputs that slots of on_write_ are bound to
  opened,   \* the outputs whose stream_ is open
  syslog,   \* syslog_
  flusher,  \* flusher_: off, armed, or its handler has posted a flush
  service, subs, linked, \* a client's service, its slots, connect_ has one
  replaced, \* outputs that a second add of their name destroyed: their slots stay
  orphans,  \* a service's slots that connect_ was made to forget
  crashed   \* a destroyed object was used, or connections_ without order

records == <<queue, emplaced, written, hand>>
outputs == <<listed, out, conn, slots, opened, syslog, replaced>>
clients == <<service, subs, linked, orphans>>
state == <<records, jobs, strand, pc, arg, life, made, calls, outputs, flusher, clients>>
vars == <<state, crashed>>

All == Threads \cup {Main}
Key(n) == IF n = Dash THEN Stdout ELSE n
Keys == {Key(n) : n \in Names}
IsFile(n) == n \notin {Stdout, Dash, Syslog}
NoRecord == 0
Write == <<"write", NoName>>
Flush == <<"flush", NoName>>
Jobs == {Write, Flush} \cup ({"add", "del"} \X Names)

Init ==
  /\ queue = << >> /\ emplaced = 0 /\ written = << >>
  /\ hand = [t \in All |-> NoRecord]
  /\ jobs = << >> /\ strand = NoThread
  /\ pc = [t \in All |-> "idle"] /\ arg = [t \in All |-> NoName]
  /\ life = "create" /\ made = 0 /\ calls = 0
  /\ listed = {} /\ slots = {} /\ opened = {} /\ syslog = FALSE
  /\ out = [k \in Keys |-> NoOut] /\ conn = [k \in Keys |-> NoOut]
  /\ flusher = "armed"
  /\ service = [c \in Clients |-> "none"]
  /\ subs = [c \in Clients |-> 0] /\ linked = [c \in Clients |-> FALSE]
  /\ replaced = {} /\ orphans = [c \in Clients |-> 0] /\ crashed = FALSE

(***************************************************************************)
(* Threads.  The pools run until quit stops them; a thread that is in the  *)
(* middle of something then still finishes it.                             *)
(***************************************************************************)
Goto(t, label) == pc' = [pc EXCEPT ![t] = label]
Free(t) == pc[t] = "idle" /\ life \in {"create", "run"}
Calls(t) == Free(t) /\ (t = Main \/ life = "run")
Runs(t) == Free(t) /\ strand = NoThread /\ jobs # << >>

\* Mutant: a queue that is full gives up its oldest record.
AppendRecordLossy ==
  /\ emplaced' = emplaced + 1
  /\ queue' = Append(IF Len(queue) = 2 THEN Tail(queue) ELSE queue, emplaced + 1)
  /\ UNCHANGED <<written, hand>>

\* emplace_element, under queue_lock_.
AppendRecord ==
  /\ emplaced' = emplaced + 1
  /\ queue' = Append(queue, emplaced + 1)
  /\ UNCHANGED <<written, hand>>

\* send_data: the record first, then the job that will write it.
Emplace(t) ==
  /\ Calls(t) /\ emplaced < MaxRecords
  /\ AppendRecord
  /\ Goto(t, "post")
  /\ UNCHANGED <<jobs, strand, arg, life, made, calls, outputs, flusher, clients>>

\* Its end; quit then stops the pools.
Post(t) ==
  /\ pc[t] \in {"post", "quit"}
  /\ jobs' = Append(jobs, Write)
  /\ Goto(t, "idle")
  /\ strand' = IF strand = t THEN NoThread ELSE strand
  /\ life' = IF pc[t] = "quit" THEN "stopping" ELSE life
  /\ UNCHANGED <<records, arg, made, calls, outputs, flusher, clients>>

(***************************************************************************)
(* do_write, run by the strand: popped under queue_lock_, given to the     *)
(* slots after it.  front( ) of an empty queue is undefined: there is no   *)
(* such step, and WritesHaveRecords says that none is needed.              *)
(***************************************************************************)
PopFront(t) ==
  /\ queue # << >>
  /\ hand' = [hand EXCEPT ![t] = Head(queue)]
  /\ queue' = Tail(queue)
  /\ UNCHANGED <<emplaced, written>>

\* Mutant: posted to the pool and not to the strand.
PopAnywhere(t) ==
  /\ Free(t) /\ jobs # << >> /\ Head(jobs) = Write
  /\ jobs' = Tail(jobs)
  /\ PopFront(t)
  /\ Goto(t, "emit")
  /\ UNCHANGED <<strand, arg, life, made, calls, outputs, flusher, clients>>

Pop(t) ==
  /\ Runs(t) /\ Head(jobs) = Write
  /\ jobs' = Tail(jobs)
  /\ strand' = t
  /\ PopFront(t)
  /\ Goto(t, "emit")
  /\ UNCHANGED <<arg, life, made, calls, outputs, flusher, clients>>

Emit(t) ==
  /\ pc[t] = "emit"
  /\ written' = Append(written, hand[t])
  /\ hand' = [hand EXCEPT ![t] = NoRecord]
  /\ Goto(t, IF t = Main THEN "drop" ELSE "idle")
  /\ strand' = IF strand = t THEN NoThread ELSE strand
  /\ UNCHANGED <<queue, emplaced, jobs, arg, life, made, calls, outputs, flusher, clients>>

(***************************************************************************)
(* add_logger, run by the strand, or by Main from create: the key, then    *)
(* the output, then the slot, then a record of it.                         *)
(***************************************************************************)
Enlist(t, n) ==
  /\ IF n = Syslog /\ syslog
       THEN /\ AppendRecord /\ Goto(t, "post") /\ UNCHANGED <<listed, arg>>
       ELSE /\ listed' = listed \cup {Key(n)}
            /\ Goto(t, "create")
            /\ arg' = [arg EXCEPT ![t] = n]
            /\ UNCHANGED records
  /\ UNCHANGED <<out, conn, slots, opened, syslog, replaced>>

CreateNext ==
  /\ life = "create" /\ pc[Main] = "idle" /\ made < Len(Default)
  /\ made' = made + 1
  /\ Enlist(Main, Default[made + 1])
  /\ UNCHANGED <<jobs, strand, life, calls, flusher, clients>>

CreateEnds ==
  /\ life = "create" /\ pc[Main] = "idle" /\ made = Len(Default)
  /\ life' = "run"
  /\ UNCHANGED <<records, jobs, strand, pc, arg, made, calls, outputs, flusher, clients>>

AddBegin(t) ==
  /\ Runs(t) /\ Head(jobs)[1] = "add"
  /\ jobs' = Tail(jobs)
  /\ strand' = t
  /\ Enlist(t, Head(jobs)[2])
  /\ UNCHANGED <<life, made, calls, flusher, clients>>

\* output_ is replaced: the output that was there is destroyed, its slot is not
\* disconnected.  A file that cannot be opened makes an output all the same,
\* with a null stream_.
AddOutput(t, o) ==
  LET k == Key(arg[t]) IN
  /\ pc[t] = "create"
  /\ o \notin slots /\ \A j \in Keys : out[j] # o
  /\ out' = [out EXCEPT ![k] = o]
  /\ \/ opened' = (opened \ {out[k]}) \cup {o}
     \/ IsFile(arg[t]) /\ opened' = opened \ {out[k]}
  /\ replaced' = replaced \cup (slots \cap {out[k]})
  /\ syslog' = (syslog \/ arg[t] = Syslog)
  /\ Goto(t, "connect")
  /\ UNCHANGED <<records, jobs, strand, arg, life, made, calls, listed, conn, slots, flusher, clients>>

\* connection_ is assigned: the slot that it referred to stays connected.
AddConnect(t) ==
  LET k == Key(arg[t]) IN
  /\ pc[t] = "connect"
  /\ slots' = slots \cup {out[k]}
  /\ conn' = [conn EXCEPT ![k] = out[k]]
  /\ arg' = [arg EXCEPT ![t] = NoName]
  /\ AppendRecord
  /\ Goto(t, "post")
  /\ UNCHANGED <<jobs, strand, life, made, calls, listed, out, opened, syslog, replaced, flusher, clients>>

\* Mutant: connections_.erase does not disconnect.
DelStaysConnected(t) ==
  LET n == Head(jobs)[2] IN
  /\ Runs(t) /\ Head(jobs)[1] = "del"
  /\ jobs' = Tail(jobs)
  /\ strand' = t
  /\ listed' = listed \ {n}
  /\ IF n \in listed
       THEN /\ out' = [out EXCEPT ![n] = NoOut] /\ conn' = [conn EXCEPT ![n] = NoOut]
            /\ opened' = opened \ {out[n]}
       ELSE UNCHANGED <<out, conn, opened>>
  /\ syslog' = (syslog /\ n # Syslog)
  /\ AppendRecord
  /\ Goto(t, "post")
  /\ UNCHANGED <<arg, life, made, calls, slots, replaced, flusher, clients>>

\* del_logger_output, run by the strand: the name as it is, not its key.  The
\* entry's destructor disconnects the slot of connection_.
Del(t) ==
  LET n == Head(jobs)[2] IN
  /\ Runs(t) /\ Head(jobs)[1] = "del"
  /\ jobs' = Tail(jobs)
  /\ strand' = t
  /\ listed' = listed \ {n}
  /\ IF n \in listed
       THEN /\ out' = [out EXCEPT ![n] = NoOut] /\ conn' = [conn EXCEPT ![n] = NoOut]
            /\ slots' = slots \ {conn[n]} /\ opened' = opened \ {out[n]}
       ELSE UNCHANGED <<out, conn, slots, opened>>
  /\ syslog' = (syslog /\ n # Syslog)
  /\ AppendRecord
  /\ Goto(t, "post")
  /\ UNCHANGED <<arg, life, made, calls, replaced, flusher, clients>>

Dispatch(t, job) ==
  /\ Calls(t) /\ life = "run" /\ calls < MaxCalls
  /\ calls' = calls + 1
  /\ jobs' = Append(jobs, job)
  /\ UNCHANGED <<records, strand, pc, arg, life, made, outputs, flusher, clients>>

CallAdd(t, n) == Dispatch(t, <<"add", n>>)
CallDel(t, n) == Dispatch(t, <<"del", n>>)

(***************************************************************************)
(* The flush timer.  stop cancels it, but not what it has posted; it runs  *)
(* from the constructor on, before create has added anything.              *)
(***************************************************************************)
Elapse ==
  /\ flusher = "armed" /\ life \in {"create", "run"}
  /\ flusher' = "posted"
  /\ jobs' = Append(jobs, Flush)
  /\ UNCHANGED <<records, strand, pc, arg, life, made, calls, outputs, clients>>

\* flush_all and start_flusher.
FlushAll(t) ==
  /\ Runs(t) /\ Head(jobs) = Flush
  /\ jobs' = Tail(jobs)
  /\ flusher' = "armed"
  /\ UNCHANGED <<records, strand, pc, arg, life, made, calls, outputs, clients>>

(***************************************************************************)
(* The logger service of a client.                                         *)
(***************************************************************************)
Connect(c) ==
  /\ life = "run" /\ service[c] = "none"
  /\ service' = [service EXCEPT ![c] = "alive"]
  /\ UNCHANGED <<records, jobs, strand, pc, arg, life, made, calls, outputs, flusher, subs, linked, orphans>>

\* connect_ is overwritten, whatever it was: that slot stays connected.
Subscribe(t, c) ==
  /\ Calls(t) /\ service[c] = "alive"
  /\ subs[c] < MaxSubs
  /\ orphans' = [orphans EXCEPT ![c] = IF linked[c] THEN @ + 1 ELSE @]
  /\ subs' = [subs EXCEPT ![c] = @ + 1]
  /\ linked' = [linked EXCEPT ![c] = TRUE]
  /\ UNCHANGED <<records, jobs, strand, pc, arg, life, made, calls, outputs, flusher, service>>

\* connect_ knows the last slot only.
Disconnect(c) ==
  /\ subs' = [subs EXCEPT ![c] = IF linked[c] THEN @ - 1 ELSE @]
  /\ linked' = [linked EXCEPT ![c] = FALSE]
  /\ UNCHANGED orphans

Unsubscribe(t, c) ==
  /\ Calls(t) /\ service[c] = "alive"
  /\ Disconnect(c)
  /\ UNCHANGED <<records, jobs, strand, pc, arg, life, made, calls, outputs, flusher, service>>

\* The connection is lost, or stop_all drops all clients.
Destroy(c) ==
  /\ life \in {"run", "stopping"} /\ service[c] = "alive"
  /\ service' = [service EXCEPT ![c] = "gone"]
  /\ Disconnect(c)
  /\ UNCHANGED <<records, jobs, strand, pc, arg, life, made, calls, outputs, flusher>>

(***************************************************************************)
(* quit, on a pool thread: stop_all, then the pools; and the end of main.  *)
(***************************************************************************)
Quit(t) ==
  /\ Calls(t) /\ life = "run"
  /\ flusher' = IF flusher = "armed" THEN "off" ELSE flusher
  /\ AppendRecord
  /\ Goto(t, "quit")
  /\ UNCHANGED <<jobs, strand, arg, life, made, calls, outputs, clients>>

\* Mutant: main leaves without drop_all.
JoinLeaves ==
  /\ life = "stopping" /\ \A t \in All : pc[t] = "idle"
  /\ life' = "joined"
  /\ AppendRecord
  /\ UNCHANGED <<jobs, strand, pc, arg, made, calls, outputs, flusher, clients>>

\* join_all returns, and main writes its last record, which is posted in vain.
Join ==
  /\ life = "stopping" /\ \A t \in All : pc[t] = "idle"
  /\ life' = "joined"
  /\ AppendRecord
  /\ jobs' = Append(jobs, Write)
  /\ Goto(Main, "drop")
  /\ UNCHANGED <<strand, arg, made, calls, outputs, flusher, clients>>

\* drop_all: do_write as long as the queue is not empty.
DropNext ==
  /\ pc[Main] = "drop"
  /\ PopFront(Main)
  /\ Goto(Main, "emit")
  /\ UNCHANGED <<jobs, strand, arg, life, made, calls, outputs, flusher, clients>>

DropEnds ==
  /\ pc[Main] = "drop" /\ queue = << >>
  /\ Goto(Main, "idle")
  /\ life' = "done"
  /\ UNCHANGED <<records, jobs, strand, arg, made, calls, outputs, flusher, clients>>

(***************************************************************************)
(* Undefined behaviour.  A record is given to the slot of an output that   *)
(* is destroyed or has no stream, or of a service that is gone; flush_all  *)
(* walks connections_ while create is still adding to it, or meets an      *)
(* output that has no stream.                                              *)
(***************************************************************************)
BadSlots ==
  \/ \E o \in slots : o \notin opened \/ \A k \in listed : out[k] # o
  \/ \E c \in Clients : subs[c] > 0 /\ service[c] # "alive"
BadEntries ==
  \/ life = "create" /\ (made < Len(Default) \/ pc[Main] = "create")
  \/ \E k \in listed : out[k] \notin opened

Crash ==
  /\ \/ \E t \in All : pc[t] = "emit" /\ BadSlots
     \/ \E t \in Threads : Runs(t) /\ Head(jobs) = Flush /\ BadEntries
  /\ crashed' = TRUE
  /\ UNCHANGED state

JobStep(t) == Pop(t) \/ AddBegin(t) \/ Del(t) \/ FlushAll(t)
OwnStep(t) == Post(t) \/ Emit(t) \/ (\E o \in Outputs : AddOutput(t, o)) \/ AddConnect(t)
MainStep == CreateNext \/ CreateEnds \/ Join \/ DropNext \/ DropEnds

Step ==
  \/ \E t \in Threads :
       \/ Quit(t) \/ JobStep(t)
       \/ \E n \in Names : CallAdd(t, n) \/ CallDel(t, n)
       \/ \E c \in Clients : Subscribe(t, c) \/ Unsubscribe(t, c)
  \/ \E t \in All : Emplace(t) \/ OwnStep(t)
  \/ \E c \in Clients : Connect(c) \/ Destroy(c)
  \/ Elapse
  \/ MainStep

Lives == ~crashed /\ UNCHANGED crashed
Next == (Lives /\ Step) \/ (~crashed /\ Crash)

Spec == Init /\ [][Next]_vars

\* The pool runs what is posted, and threads go on with what they do.
Fairness ==
  /\ SF_vars(Lives /\ \E t \in Threads : JobStep(t))
  /\ \A t \in All : WF_vars(Lives /\ OwnStep(t))
  /\ WF_vars(Lives /\ MainStep)
FairSpec == Spec /\ Fairness

-----------------------------------------------------------------------------
(***************************************************************************)
(* Properties.                                                             *)
(***************************************************************************)
TypeOK ==
  /\ queue \in Seq(Nat \ {0}) /\ emplaced \in Nat
  /\ written \in Seq(Nat \ {0}) /\ hand \in [All -> Nat]
  /\ jobs \in Seq(Jobs)
  /\ strand \in Threads \cup {NoThread}
  /\ pc \in [All -> {"idle", "post", "quit", "emit", "create", "connect", "drop"}]
  /\ arg \in [All -> Names \cup {NoName}]
  /\ life \in {"create", "run", "stopping", "joined", "done"}
  /\ made \in 0..Len(Default) /\ calls \in 0..MaxCalls
  /\ listed \in SUBSET Keys
  /\ out \in [Keys -> Outputs \cup {NoOut}] /\ conn \in [Keys -> Outputs \cup {NoOut}]
  /\ slots \in SUBSET Outputs /\ opened \in SUBSET Outputs /\ syslog \in BOOLEAN
  /\ flusher \in {"off", "armed", "posted"}
  /\ service \in [Clients -> {"none", "alive", "gone"}]
  /\ subs \in [Clients -> 0..MaxSubs] /\ linked \in [Clients -> BOOLEAN]
  /\ replaced \in SUBSET Outputs /\ orphans \in [Clients -> Nat] /\ crashed \in BOOLEAN
  /\ strand # NoThread => pc[strand] # "idle"
  /\ \A t \in Threads : pc[t] \in {"emit", "create", "connect"} => strand = t

\* do_write takes front( ) without looking whether there is one: whoever has
\* posted has emplaced before, and nobody else pops while the strand may run.
Writes == {i \in DOMAIN jobs : jobs[i] = Write}
WritesHaveRecords ==
  life \in {"create", "run"} => Cardinality(Writes) <= Len(queue)

\* Records are given to the slots once each, in the order in which they were
\* emplaced, whichever threads emplaced them and whichever wrote them.
InOrder == \A i \in DOMAIN written : written[i] = i

\* What the pools left in the queue is written by drop_all before main ends,
\* with nothing left behind in a thread's hand.
NothingLost == life = "done" => Len(written) = emplaced

\* Both: no record is lost, doubled or overtaken.
WrittenInFull == InOrder /\ NothingLost

\* Slots are bound to raw outputs and services: each one that is connected has
\* its target, through adding, deleting, subscribing and lost connections, but
\* for what two calls leave behind for good: an add of a name that is there
\* already (replaced), and a subscribe of a client that is subscribed (orphans).
SlotsHaveTargets ==
  /\ \A o \in slots : o \in replaced \/ \E k \in listed : out[k] = o
  /\ \A c \in Clients : subs[c] > orphans[c] => service[c] = "alive"

\* subsys-logging.cpp:650, "dispatcher!": what the strand does not run, flush_all
\* does not meet; every entry of connections_ has an output, but for the one that
\* create, on the main thread, has listed and not yet given its own.
FlushFindsOutputs ==
  (strand = NoThread /\ jobs # << >> /\ Head(jobs) = Flush /\ life \in {"create", "run"}) =>
    \A k \in listed : out[k] # NoOut \/ (life = "create" /\ pc[Main] = "create" /\ k = Key(arg[Main]))

\* Both: whoever emits or flushes finds the outputs that the log has.
OutputsLive == SlotsHaveTargets /\ FlushFindsOutputs

\* Every record gets written, whether quit comes before, between or after its
\* emplace, its post and its turn on the strand, if nothing crashes.
EveryRecordWritten ==
  \A r \in 1..MaxRecords : (emplaced >= r) ~> (crashed \/ \E i \in DOMAIN written : written[i] = r)
=============================================================================
