--------------------------- MODULE LoggingProofs ---------------------------
(***************************************************************************)
(* Proofs about Logging: its types, and that records are written once and  *)
(* in order, for any number of threads, outputs, clients and records.      *)
(* Whoever has popped a record is alone in doing so: a thread that owns    *)
(* the strand, or Main once all others are idle (OnePopper).  The number   *)
(* of each record then follows from its place (Numbered).                  *)
(***************************************************************************)
EXTENDS Logging, FiniteSetTheorems, FunctionTheorems, TLAPS

Adding == {"create", "connect"}

\* A thread that adds an output knows its name; create does so before any quit,
\* add or del can be posted, the strand after it.
Shape ==
  /\ \A t \in All : pc[t] \in Adding => arg[t] \in Names
  /\ \A t \in All : pc[t] = "emit" => hand[t] # NoRecord
  /\ \A t \in All : pc[t] = "connect" => out[Key(arg[t])] \in Outputs
  /\ pc[Main] \in Adding => life = "create"
  /\ life = "create" => /\ \A i \in 1..Len(jobs) : jobs[i] \in {Write, Flush}
                        /\ \A t \in Threads : pc[t] \notin Adding
                        /\ \A t \in All : pc[t] # "quit"
  /\ \A c \in Clients : linked[c] => subs[c] > 0

\* The thread, if any, that holds a record.
Emitting == {t \in All : pc[t] = "emit"}
Ahead == IF Emitting = {} THEN 0 ELSE 1

\* Main pops only when the pools are joined, and nothing pops after it.
OnePopper ==
  /\ pc[Main] \in {"emit", "drop"} => life = "joined"
  /\ life \in {"joined", "done"} => \A t \in Threads : pc[t] = "idle"
  /\ life = "done" => pc[Main] = "idle" /\ queue = << >>

\* The records are, in the order of their numbers, those that are written, the
\* one in a hand, and those that are queued.
Numbered ==
  /\ emplaced = Len(written) + Ahead + Len(queue)
  /\ \A i \in 1..Len(written) : written[i] = i
  /\ \A t \in Emitting : hand[t] = Len(written) + 1
  /\ \A i \in 1..Len(queue) : queue[i] = Len(written) + Ahead + i

-----------------------------------------------------------------------------
LEMMA KeyOfName == \A n \in Names : Key(n) \in Keys
  BY DEF Keys

\* The kinds of jobs.
LEMMA JobKinds ==
  /\ Write \in Jobs /\ Flush \in Jobs /\ Write # Flush
  /\ \A n \in Names : <<"add", n>> \in Jobs /\ <<"del", n>> \in Jobs
  /\ \A j \in Jobs : j[1] \in {"add", "del"} => j[2] \in Names /\ j \notin {Write, Flush}
  BY DEF Jobs, Write, Flush

\* What the strand takes from the front of its jobs, and what is left.
LEMMA FrontJob ==
  ASSUME jobs \in Seq(Jobs), jobs # << >>
  PROVE  /\ Tail(jobs) \in Seq(Jobs) /\ Head(jobs) \in Jobs /\ Head(jobs) = jobs[1]
         /\ Len(Tail(jobs)) = Len(jobs) - 1
         /\ \A i \in 1..Len(Tail(jobs)) : Tail(jobs)[i] = jobs[i + 1]
         /\ 1 \in 1..Len(jobs) /\ \A i \in 1..Len(Tail(jobs)) : i + 1 \in 1..Len(jobs)
  OBVIOUS

RecordsType ==
  /\ queue \in Seq(Nat \ {0}) /\ emplaced \in Nat
  /\ written \in Seq(Nat \ {0}) /\ hand \in [All -> Nat]
ThreadsType ==
  /\ strand \in Threads \cup {NoThread}
  /\ pc \in [All -> {"idle", "post", "quit", "emit", "create", "connect", "drop"}]
  /\ arg \in [All -> Names \cup {NoName}]
  /\ life \in {"create", "run", "stopping", "joined", "done"}
  /\ strand # NoThread => pc[strand] # "idle"
  /\ \A t \in Threads : pc[t] \in {"emit", "create", "connect"} => strand = t
JobsType ==
  /\ jobs \in Seq(Jobs)
  /\ made \in 0..Len(Default) /\ calls \in 0..MaxCalls
OutputsType ==
  /\ listed \in SUBSET Keys
  /\ out \in [Keys -> Outputs \cup {NoOut}] /\ conn \in [Keys -> Outputs \cup {NoOut}]
  /\ slots \in SUBSET Outputs /\ opened \in SUBSET Outputs /\ syslog \in BOOLEAN
  /\ replaced \in SUBSET Outputs
ClientsType ==
  /\ flusher \in {"off", "armed", "posted"}
  /\ service \in [Clients -> {"none", "alive", "gone"}]
  /\ subs \in [Clients -> 0..MaxSubs] /\ linked \in [Clients -> BOOLEAN]
  /\ orphans \in [Clients -> Nat]

LEMMA TypeParts ==
  TypeOK <=> RecordsType /\ ThreadsType /\ JobsType /\ OutputsType /\ ClientsType /\ crashed \in BOOLEAN
  BY DEF TypeOK, RecordsType, ThreadsType, JobsType, OutputsType, ClientsType

\* What the proofs need of the constants.
LEMMA Bounds == MaxCalls \in Nat /\ MaxSubs \in Nat
  BY ConstantsAssumption
LEMMA Apart == Main \notin Threads /\ NoThread \notin Threads /\ NoThread # Main /\ Main \in All
  BY ConstantsAssumption DEF All

-----------------------------------------------------------------------------
(***************************************************************************)
(* What a step can do to the records and to the jobs, for the proofs that  *)
(* need no more of it.                                                     *)
(***************************************************************************)
RecordStep ==
  \/ (AppendRecord \/ UNCHANGED records) /\ Emitting' = Emitting
  \/ \E t \in All : PopFront(t) /\ Emitting = {} /\ Emitting' = {t}
  \/ \E t \in All : Emit(t) /\ Emitting = {t} /\ Emitting' = {}
JobsStep ==
  \/ UNCHANGED jobs
  \/ jobs # << >> /\ jobs' = Tail(jobs)
  \/ \E j \in Jobs : jobs' = Append(jobs, j)

LEMMA StepRecords == ASSUME TypeOK, OnePopper, [Step]_state PROVE RecordStep
  <1>1. ASSUME NEW t \in All, Emplace(t) PROVE RecordStep
    BY <1>1, Apart DEF Emplace, AppendRecord, Goto, Calls, Free, RecordStep, Emitting, OnePopper, TypeOK, All, records, outputs, clients
  <1>2. ASSUME NEW t \in All, Post(t) PROVE RecordStep
    BY <1>2, Apart DEF Post, Goto, RecordStep, Emitting, OnePopper, TypeOK, All, records, outputs, clients
  <1>3. ASSUME NEW t \in All, Emit(t) PROVE RecordStep
    <2>1. pc[t] = "emit" /\ pc' = [pc EXCEPT ![t] = IF t = Main THEN "drop" ELSE "idle"]
      BY <1>3 DEF Emit, Goto
    <2>2. Emitting = {t}
      BY <2>1, Apart DEF Emitting, OnePopper, TypeOK, All
    <2>3. Emitting' = {}
      BY <2>1, <2>2 DEF Emitting, TypeOK
    <2> QED BY <1>3, <2>2, <2>3 DEF RecordStep
  <1>4. ASSUME NEW t \in All, NEW o \in Outputs, AddOutput(t, o) PROVE RecordStep
    BY <1>4, Apart DEF AddOutput, Goto, RecordStep, Emitting, OnePopper, TypeOK, All, records, outputs, clients
  <1>5. ASSUME NEW t \in All, AddConnect(t) PROVE RecordStep
    BY <1>5, Apart DEF AddConnect, AppendRecord, Goto, RecordStep, Emitting, OnePopper, TypeOK, All, records, outputs, clients
  <1>6. ASSUME NEW t \in Threads, Quit(t) PROVE RecordStep
    BY <1>6, Apart DEF Quit, AppendRecord, Goto, Calls, Free, RecordStep, Emitting, OnePopper, TypeOK, All, records, outputs, clients
  <1>7. ASSUME NEW t \in Threads, Pop(t) PROVE RecordStep
    <2>1. /\ strand = NoThread /\ life \in {"create", "run"}
          /\ pc' = [pc EXCEPT ![t] = "emit"] /\ PopFront(t)
      BY <1>7 DEF Pop, Runs, Free, Goto
    <2>2. Emitting = {}
      BY <2>1, Apart DEF Emitting, OnePopper, TypeOK, All
    <2>3. Emitting' = {t}
      BY <2>1, <2>2 DEF Emitting, TypeOK, All
    <2> QED BY <2>1, <2>2, <2>3 DEF RecordStep, All
  <1>8. ASSUME NEW t \in Threads, AddBegin(t) PROVE RecordStep
    BY <1>8, Apart DEF AddBegin, Enlist, AppendRecord, Goto, Runs, Free, RecordStep, Emitting, OnePopper, TypeOK, All, records, outputs, clients
  <1>9. ASSUME NEW t \in Threads, Del(t) PROVE RecordStep
    BY <1>9, Apart DEF Del, AppendRecord, Goto, Runs, Free, RecordStep, Emitting, OnePopper, TypeOK, All, records, outputs, clients
  <1>10. ASSUME NEW t \in Threads, FlushAll(t) PROVE RecordStep
    BY <1>10, Apart DEF FlushAll, Runs, Free, RecordStep, Emitting, OnePopper, TypeOK, All, records, outputs, clients
  <1>11. ASSUME NEW t \in Threads, NEW n \in Names, CallAdd(t, n) PROVE RecordStep
    BY <1>11, Apart DEF CallAdd, Dispatch, Calls, Free, RecordStep, Emitting, OnePopper, TypeOK, All, records, outputs, clients
  <1>12. ASSUME NEW t \in Threads, NEW n \in Names, CallDel(t, n) PROVE RecordStep
    BY <1>12, Apart DEF CallDel, Dispatch, Calls, Free, RecordStep, Emitting, OnePopper, TypeOK, All, records, outputs, clients
  <1>13. ASSUME NEW t \in Threads, NEW c \in Clients, Subscribe(t, c) PROVE RecordStep
    BY <1>13, Apart DEF Subscribe, Calls, Free, RecordStep, Emitting, OnePopper, TypeOK, All, records, outputs, clients
  <1>14. ASSUME NEW t \in Threads, NEW c \in Clients, Unsubscribe(t, c) PROVE RecordStep
    BY <1>14, Apart DEF Unsubscribe, Disconnect, Calls, Free, RecordStep, Emitting, OnePopper, TypeOK, All, records, outputs, clients
  <1>15. ASSUME NEW c \in Clients, Connect(c) PROVE RecordStep
    BY <1>15, Apart DEF Connect, RecordStep, Emitting, OnePopper, TypeOK, All, records, outputs, clients
  <1>16. ASSUME NEW c \in Clients, Destroy(c) PROVE RecordStep
    BY <1>16, Apart DEF Destroy, Disconnect, RecordStep, Emitting, OnePopper, TypeOK, All, records, outputs, clients
  <1>17. ASSUME Elapse PROVE RecordStep
    BY <1>17, Apart DEF Elapse, RecordStep, Emitting, OnePopper, TypeOK, All, records, outputs, clients
  <1>18. ASSUME CreateNext PROVE RecordStep
    BY <1>18, Apart DEF CreateNext, Enlist, AppendRecord, Goto, RecordStep, Emitting, OnePopper, TypeOK, All, records, outputs, clients
  <1>19. ASSUME CreateEnds PROVE RecordStep
    BY <1>19, Apart DEF CreateEnds, RecordStep, Emitting, OnePopper, TypeOK, All, records, outputs, clients
  <1>20. ASSUME Join PROVE RecordStep
    BY <1>20, Apart DEF Join, AppendRecord, Goto, RecordStep, Emitting, OnePopper, TypeOK, All, records, outputs, clients
  <1>21. ASSUME DropNext PROVE RecordStep
    BY <1>21, Apart DEF DropNext, PopFront, Goto, RecordStep, Emitting, OnePopper, TypeOK, All, records, outputs, clients
  <1>22. ASSUME DropEnds PROVE RecordStep
    BY <1>22, Apart DEF DropEnds, Goto, RecordStep, Emitting, OnePopper, TypeOK, All, records, outputs, clients
  <1>23. ASSUME UNCHANGED state PROVE RecordStep
    BY <1>23 DEF state, records, outputs, clients, RecordStep, Emitting, OnePopper, TypeOK, All
  <1> QED BY <1>1, <1>2, <1>3, <1>4, <1>5, <1>6, <1>7, <1>8, <1>9, <1>10, <1>11, <1>12, <1>13, <1>14, <1>15, <1>16, <1>17, <1>18, <1>19, <1>20, <1>21, <1>22, <1>23 DEF Step, JobStep, OwnStep, MainStep

LEMMA StepJobs == ASSUME [Step]_state PROVE JobsStep
  <1>1. ASSUME NEW t \in All, Emplace(t) PROVE JobsStep
    BY <1>1, JobKinds DEF Emplace, AppendRecord, Goto, Calls, Free, JobsStep, records, outputs, clients
  <1>2. ASSUME NEW t \in All, Post(t) PROVE JobsStep
    BY <1>2, JobKinds DEF Post, Goto, JobsStep, records, outputs, clients
  <1>3. ASSUME NEW t \in All, Emit(t) PROVE JobsStep
    BY <1>3, JobKinds DEF Emit, Goto, JobsStep, records, outputs, clients
  <1>4. ASSUME NEW t \in All, NEW o \in Outputs, AddOutput(t, o) PROVE JobsStep
    BY <1>4, JobKinds DEF AddOutput, Goto, JobsStep, records, outputs, clients
  <1>5. ASSUME NEW t \in All, AddConnect(t) PROVE JobsStep
    BY <1>5, JobKinds DEF AddConnect, AppendRecord, Goto, JobsStep, records, outputs, clients
  <1>6. ASSUME NEW t \in Threads, Quit(t) PROVE JobsStep
    BY <1>6, JobKinds DEF Quit, AppendRecord, Goto, Calls, Free, JobsStep, records, outputs, clients
  <1>7. ASSUME NEW t \in Threads, Pop(t) PROVE JobsStep
    BY <1>7, JobKinds DEF Pop, PopFront, Goto, Runs, Free, JobsStep, records, outputs, clients
  <1>8. ASSUME NEW t \in Threads, AddBegin(t) PROVE JobsStep
    BY <1>8, JobKinds DEF AddBegin, Enlist, AppendRecord, Goto, Runs, Free, JobsStep, records, outputs, clients
  <1>9. ASSUME NEW t \in Threads, Del(t) PROVE JobsStep
    BY <1>9, JobKinds DEF Del, AppendRecord, Goto, Runs, Free, JobsStep, records, outputs, clients
  <1>10. ASSUME NEW t \in Threads, FlushAll(t) PROVE JobsStep
    BY <1>10, JobKinds DEF FlushAll, Runs, Free, JobsStep, records, outputs, clients
  <1>11. ASSUME NEW t \in Threads, NEW n \in Names, CallAdd(t, n) PROVE JobsStep
    BY <1>11, JobKinds DEF CallAdd, Dispatch, Calls, Free, JobsStep, records, outputs, clients
  <1>12. ASSUME NEW t \in Threads, NEW n \in Names, CallDel(t, n) PROVE JobsStep
    BY <1>12, JobKinds DEF CallDel, Dispatch, Calls, Free, JobsStep, records, outputs, clients
  <1>13. ASSUME NEW t \in Threads, NEW c \in Clients, Subscribe(t, c) PROVE JobsStep
    BY <1>13, JobKinds DEF Subscribe, Calls, Free, JobsStep, records, outputs, clients
  <1>14. ASSUME NEW t \in Threads, NEW c \in Clients, Unsubscribe(t, c) PROVE JobsStep
    BY <1>14, JobKinds DEF Unsubscribe, Disconnect, Calls, Free, JobsStep, records, outputs, clients
  <1>15. ASSUME NEW c \in Clients, Connect(c) PROVE JobsStep
    BY <1>15, JobKinds DEF Connect, JobsStep, records, outputs, clients
  <1>16. ASSUME NEW c \in Clients, Destroy(c) PROVE JobsStep
    BY <1>16, JobKinds DEF Destroy, Disconnect, JobsStep, records, outputs, clients
  <1>17. ASSUME Elapse PROVE JobsStep
    BY <1>17, JobKinds DEF Elapse, JobsStep, records, outputs, clients
  <1>18. ASSUME CreateNext PROVE JobsStep
    BY <1>18, JobKinds DEF CreateNext, Enlist, AppendRecord, Goto, JobsStep, records, outputs, clients
  <1>19. ASSUME CreateEnds PROVE JobsStep
    BY <1>19, JobKinds DEF CreateEnds, JobsStep, records, outputs, clients
  <1>20. ASSUME Join PROVE JobsStep
    BY <1>20, JobKinds DEF Join, AppendRecord, Goto, JobsStep, records, outputs, clients
  <1>21. ASSUME DropNext PROVE JobsStep
    BY <1>21, JobKinds DEF DropNext, PopFront, Goto, JobsStep, records, outputs, clients
  <1>22. ASSUME DropEnds PROVE JobsStep
    BY <1>22, JobKinds DEF DropEnds, Goto, JobsStep, records, outputs, clients
  <1>23. ASSUME UNCHANGED state PROVE JobsStep
    BY <1>23 DEF state, records, outputs, clients, JobsStep
  <1> QED BY <1>1, <1>2, <1>3, <1>4, <1>5, <1>6, <1>7, <1>8, <1>9, <1>10, <1>11, <1>12, <1>13, <1>14, <1>15, <1>16, <1>17, <1>18, <1>19, <1>20, <1>21, <1>22, <1>23 DEF Step, JobStep, OwnStep, MainStep

LEMMA RecordsTypeStep ==
  ASSUME RecordsType, RecordStep, \A t \in All : pc[t] = "emit" => hand[t] # NoRecord
  PROVE  RecordsType'
<1>1. CASE AppendRecord
  <2>1. emplaced + 1 \in Nat \ {0}
    BY DEF RecordsType
  <2> QED BY <1>1, <2>1 DEF AppendRecord, RecordsType
<1>2. ASSUME NEW t \in All, PopFront(t) PROVE RecordsType'
  <2>1. Head(queue) \in Nat /\ Tail(queue) \in Seq(Nat \ {0})
    BY <1>2 DEF PopFront, RecordsType
  <2> QED BY <1>2, <2>1 DEF PopFront, RecordsType
<1>3. ASSUME NEW t \in All, Emit(t) PROVE RecordsType'
  BY <1>3 DEF Emit, RecordsType, NoRecord
<1> QED BY <1>1, <1>2, <1>3 DEF RecordStep, RecordsType, records

LEMMA JobsTypeStep == ASSUME jobs \in Seq(Jobs), JobsStep PROVE jobs' \in Seq(Jobs)
  BY DEF JobsStep

\* The name that create is about to add.
LEMMA NextDefault ==
  ASSUME made \in 0..Len(Default), made < Len(Default)
  PROVE  made + 1 \in 0..Len(Default) /\ Default[made + 1] \in Names
<1>1. Default \in Seq(Names)
  BY ConstantsAssumption
<1>2. Len(Default) \in Nat
  BY <1>1
<1>3. made + 1 \in 1..Len(Default)
  BY <1>2
<1>4. Default[made + 1] \in Names
  BY <1>1, <1>3
<1> QED BY <1>3, <1>4

LEMMA CallsBound == ASSUME JobsType, calls < MaxCalls PROVE calls + 1 \in 0..MaxCalls
<1>1. MaxCalls \in Nat
  BY Bounds
<1> QED BY <1>1 DEF JobsType

LEMMA CountsStep == ASSUME JobsType, [Step]_state PROVE made' \in 0..Len(Default) /\ calls' \in 0..MaxCalls
  <1>1. ASSUME NEW t \in All, Emplace(t) PROVE made' \in 0..Len(Default) /\ calls' \in 0..MaxCalls
    BY <1>1 DEF Emplace, AppendRecord, Goto, Calls, Free, JobsType, records, outputs, clients
  <1>2. ASSUME NEW t \in All, Post(t) PROVE made' \in 0..Len(Default) /\ calls' \in 0..MaxCalls
    BY <1>2 DEF Post, Goto, JobsType, records, outputs, clients
  <1>3. ASSUME NEW t \in All, Emit(t) PROVE made' \in 0..Len(Default) /\ calls' \in 0..MaxCalls
    BY <1>3 DEF Emit, Goto, JobsType, records, outputs, clients
  <1>4. ASSUME NEW t \in All, NEW o \in Outputs, AddOutput(t, o) PROVE made' \in 0..Len(Default) /\ calls' \in 0..MaxCalls
    BY <1>4 DEF AddOutput, Goto, JobsType, records, outputs, clients
  <1>5. ASSUME NEW t \in All, AddConnect(t) PROVE made' \in 0..Len(Default) /\ calls' \in 0..MaxCalls
    BY <1>5 DEF AddConnect, AppendRecord, Goto, JobsType, records, outputs, clients
  <1>6. ASSUME NEW t \in Threads, Quit(t) PROVE made' \in 0..Len(Default) /\ calls' \in 0..MaxCalls
    BY <1>6 DEF Quit, AppendRecord, Goto, Calls, Free, JobsType, records, outputs, clients
  <1>7. ASSUME NEW t \in Threads, Pop(t) PROVE made' \in 0..Len(Default) /\ calls' \in 0..MaxCalls
    BY <1>7 DEF Pop, PopFront, Goto, Runs, Free, JobsType, records, outputs, clients
  <1>8. ASSUME NEW t \in Threads, AddBegin(t) PROVE made' \in 0..Len(Default) /\ calls' \in 0..MaxCalls
    BY <1>8 DEF AddBegin, Enlist, AppendRecord, Goto, Runs, Free, JobsType, records, outputs, clients
  <1>9. ASSUME NEW t \in Threads, Del(t) PROVE made' \in 0..Len(Default) /\ calls' \in 0..MaxCalls
    BY <1>9 DEF Del, AppendRecord, Goto, Runs, Free, JobsType, records, outputs, clients
  <1>10. ASSUME NEW t \in Threads, FlushAll(t) PROVE made' \in 0..Len(Default) /\ calls' \in 0..MaxCalls
    BY <1>10 DEF FlushAll, Runs, Free, JobsType, records, outputs, clients
  <1>11. ASSUME NEW t \in Threads, NEW n \in Names, CallAdd(t, n) PROVE made' \in 0..Len(Default) /\ calls' \in 0..MaxCalls
    <2>1. calls + 1 \in 0..MaxCalls
      BY <1>11, CallsBound DEF CallAdd, Dispatch
    <2> QED BY <1>11, <2>1 DEF CallAdd, Dispatch, JobsType
  <1>12. ASSUME NEW t \in Threads, NEW n \in Names, CallDel(t, n) PROVE made' \in 0..Len(Default) /\ calls' \in 0..MaxCalls
    <2>1. calls + 1 \in 0..MaxCalls
      BY <1>12, CallsBound DEF CallDel, Dispatch
    <2> QED BY <1>12, <2>1 DEF CallDel, Dispatch, JobsType
  <1>13. ASSUME NEW t \in Threads, NEW c \in Clients, Subscribe(t, c) PROVE made' \in 0..Len(Default) /\ calls' \in 0..MaxCalls
    BY <1>13 DEF Subscribe, Calls, Free, JobsType, records, outputs, clients
  <1>14. ASSUME NEW t \in Threads, NEW c \in Clients, Unsubscribe(t, c) PROVE made' \in 0..Len(Default) /\ calls' \in 0..MaxCalls
    BY <1>14 DEF Unsubscribe, Disconnect, Calls, Free, JobsType, records, outputs, clients
  <1>15. ASSUME NEW c \in Clients, Connect(c) PROVE made' \in 0..Len(Default) /\ calls' \in 0..MaxCalls
    BY <1>15 DEF Connect, JobsType, records, outputs, clients
  <1>16. ASSUME NEW c \in Clients, Destroy(c) PROVE made' \in 0..Len(Default) /\ calls' \in 0..MaxCalls
    BY <1>16 DEF Destroy, Disconnect, JobsType, records, outputs, clients
  <1>17. ASSUME Elapse PROVE made' \in 0..Len(Default) /\ calls' \in 0..MaxCalls
    BY <1>17 DEF Elapse, JobsType, records, outputs, clients
  <1>18. ASSUME CreateNext PROVE made' \in 0..Len(Default) /\ calls' \in 0..MaxCalls
    BY <1>18, NextDefault DEF CreateNext, Enlist, AppendRecord, Goto, JobsType, records, outputs, clients
  <1>19. ASSUME CreateEnds PROVE made' \in 0..Len(Default) /\ calls' \in 0..MaxCalls
    BY <1>19 DEF CreateEnds, JobsType, records, outputs, clients
  <1>20. ASSUME Join PROVE made' \in 0..Len(Default) /\ calls' \in 0..MaxCalls
    BY <1>20 DEF Join, AppendRecord, Goto, JobsType, records, outputs, clients
  <1>21. ASSUME DropNext PROVE made' \in 0..Len(Default) /\ calls' \in 0..MaxCalls
    BY <1>21 DEF DropNext, PopFront, Goto, JobsType, records, outputs, clients
  <1>22. ASSUME DropEnds PROVE made' \in 0..Len(Default) /\ calls' \in 0..MaxCalls
    BY <1>22 DEF DropEnds, Goto, JobsType, records, outputs, clients
  <1>23. ASSUME UNCHANGED state PROVE made' \in 0..Len(Default) /\ calls' \in 0..MaxCalls
    BY <1>23 DEF state, records, outputs, clients, JobsType
  <1> QED BY <1>1, <1>2, <1>3, <1>4, <1>5, <1>6, <1>7, <1>8, <1>9, <1>10, <1>11, <1>12, <1>13, <1>14, <1>15, <1>16, <1>17, <1>18, <1>19, <1>20, <1>21, <1>22, <1>23 DEF Step, JobStep, OwnStep, MainStep

LEMMA ThreadsTypeStep == ASSUME TypeOK, Shape, [Step]_state PROVE ThreadsType'
  <1>1. ASSUME NEW t \in All, Emplace(t) PROVE ThreadsType'
    BY <1>1, Apart, JobKinds, FrontJob DEF Emplace, AppendRecord, Goto, Calls, Free, TypeOK, ThreadsType, All, Shape, Adding, records, outputs, clients
  <1>2. ASSUME NEW t \in All, Post(t) PROVE ThreadsType'
    BY <1>2, Apart, JobKinds, FrontJob DEF Post, Goto, TypeOK, ThreadsType, All, Shape, Adding, records, outputs, clients
  <1>3. ASSUME NEW t \in All, Emit(t) PROVE ThreadsType'
    BY <1>3, Apart, JobKinds, FrontJob DEF Emit, Goto, TypeOK, ThreadsType, All, Shape, Adding, records, outputs, clients
  <1>4. ASSUME NEW t \in All, NEW o \in Outputs, AddOutput(t, o) PROVE ThreadsType'
    BY <1>4, Apart, JobKinds, FrontJob DEF AddOutput, Goto, TypeOK, ThreadsType, All, Shape, Adding, records, outputs, clients
  <1>5. ASSUME NEW t \in All, AddConnect(t) PROVE ThreadsType'
    BY <1>5, Apart, JobKinds, FrontJob DEF AddConnect, AppendRecord, Goto, TypeOK, ThreadsType, All, Shape, Adding, records, outputs, clients
  <1>6. ASSUME NEW t \in Threads, Quit(t) PROVE ThreadsType'
    BY <1>6, Apart, JobKinds, FrontJob DEF Quit, AppendRecord, Goto, Calls, Free, TypeOK, ThreadsType, All, Shape, Adding, records, outputs, clients
  <1>7. ASSUME NEW t \in Threads, Pop(t) PROVE ThreadsType'
    BY <1>7, Apart, JobKinds, FrontJob DEF Pop, PopFront, Goto, Runs, Free, TypeOK, ThreadsType, All, Shape, Adding, records, outputs, clients
  <1>8. ASSUME NEW t \in Threads, AddBegin(t) PROVE ThreadsType'
    <2>1. strand = NoThread /\ strand' = t /\ life' = life
      BY <1>8 DEF AddBegin, Runs
    <2>2. Head(jobs)[2] \in Names
      BY <1>8, JobKinds, FrontJob DEF AddBegin, Runs, TypeOK, JobsType
    <2>3. /\ pc' = [pc EXCEPT ![t] = "post"] \/ pc' = [pc EXCEPT ![t] = "create"]
          /\ arg' = arg \/ arg' = [arg EXCEPT ![t] = Head(jobs)[2]]
      BY <1>8 DEF AddBegin, Enlist, Goto
    <2>4. \A u \in Threads : pc[u] \notin {"emit", "create", "connect"}
      BY <2>1, Apart DEF TypeOK, ThreadsType
    <2> QED BY <2>1, <2>2, <2>3, <2>4 DEF TypeOK, ThreadsType, All
  <1>9. ASSUME NEW t \in Threads, Del(t) PROVE ThreadsType'
    BY <1>9, Apart, JobKinds, FrontJob DEF Del, AppendRecord, Goto, Runs, Free, TypeOK, ThreadsType, All, Shape, Adding, records, outputs, clients
  <1>10. ASSUME NEW t \in Threads, FlushAll(t) PROVE ThreadsType'
    BY <1>10, Apart, JobKinds, FrontJob DEF FlushAll, Runs, Free, TypeOK, ThreadsType, All, Shape, Adding, records, outputs, clients
  <1>11. ASSUME NEW t \in Threads, NEW n \in Names, CallAdd(t, n) PROVE ThreadsType'
    BY <1>11, Apart, JobKinds, FrontJob DEF CallAdd, Dispatch, Calls, Free, TypeOK, ThreadsType, All, Shape, Adding, records, outputs, clients
  <1>12. ASSUME NEW t \in Threads, NEW n \in Names, CallDel(t, n) PROVE ThreadsType'
    BY <1>12, Apart, JobKinds, FrontJob DEF CallDel, Dispatch, Calls, Free, TypeOK, ThreadsType, All, Shape, Adding, records, outputs, clients
  <1>13. ASSUME NEW t \in Threads, NEW c \in Clients, Subscribe(t, c) PROVE ThreadsType'
    BY <1>13, Apart, JobKinds, FrontJob DEF Subscribe, Calls, Free, TypeOK, ThreadsType, All, Shape, Adding, records, outputs, clients
  <1>14. ASSUME NEW t \in Threads, NEW c \in Clients, Unsubscribe(t, c) PROVE ThreadsType'
    BY <1>14, Apart, JobKinds, FrontJob DEF Unsubscribe, Disconnect, Calls, Free, TypeOK, ThreadsType, All, Shape, Adding, records, outputs, clients
  <1>15. ASSUME NEW c \in Clients, Connect(c) PROVE ThreadsType'
    BY <1>15, Apart, JobKinds, FrontJob DEF Connect, TypeOK, ThreadsType, All, Shape, Adding, records, outputs, clients
  <1>16. ASSUME NEW c \in Clients, Destroy(c) PROVE ThreadsType'
    BY <1>16, Apart, JobKinds, FrontJob DEF Destroy, Disconnect, TypeOK, ThreadsType, All, Shape, Adding, records, outputs, clients
  <1>17. ASSUME Elapse PROVE ThreadsType'
    BY <1>17, Apart, JobKinds, FrontJob DEF Elapse, TypeOK, ThreadsType, All, Shape, Adding, records, outputs, clients
  <1>18. ASSUME CreateNext PROVE ThreadsType'
    <2>1. Default[made + 1] \in Names
      BY <1>18, NextDefault DEF CreateNext, TypeOK
    <2> QED BY <1>18, <2>1, Apart DEF CreateNext, Enlist, Goto, TypeOK, ThreadsType, All
  <1>19. ASSUME CreateEnds PROVE ThreadsType'
    BY <1>19, Apart, JobKinds, FrontJob DEF CreateEnds, TypeOK, ThreadsType, All, Shape, Adding, records, outputs, clients
  <1>20. ASSUME Join PROVE ThreadsType'
    BY <1>20, Apart, JobKinds, FrontJob DEF Join, AppendRecord, Goto, TypeOK, ThreadsType, All, Shape, Adding, records, outputs, clients
  <1>21. ASSUME DropNext PROVE ThreadsType'
    BY <1>21, Apart, JobKinds, FrontJob DEF DropNext, PopFront, Goto, TypeOK, ThreadsType, All, Shape, Adding, records, outputs, clients
  <1>22. ASSUME DropEnds PROVE ThreadsType'
    BY <1>22, Apart, JobKinds, FrontJob DEF DropEnds, Goto, TypeOK, ThreadsType, All, Shape, Adding, records, outputs, clients
  <1>23. ASSUME UNCHANGED state PROVE ThreadsType'
    BY <1>23 DEF state, records, outputs, clients, TypeOK, ThreadsType, All, Shape, Adding
  <1> QED BY <1>1, <1>2, <1>3, <1>4, <1>5, <1>6, <1>7, <1>8, <1>9, <1>10, <1>11, <1>12, <1>13, <1>14, <1>15, <1>16, <1>17, <1>18, <1>19, <1>20, <1>21, <1>22, <1>23 DEF Step, JobStep, OwnStep, MainStep

\* What Enlist does to the outputs' entries.
LEMMA EnlistOutputs ==
  ASSUME OutputsType, NEW t \in All, NEW n \in Names, Enlist(t, n)
  PROVE  OutputsType'
  BY KeyOfName DEF Enlist, OutputsType

LEMMA OutputsTypeStep == ASSUME TypeOK, OutputsType, Shape, [Step]_state PROVE OutputsType'
  <1>1. ASSUME NEW t \in All, Emplace(t) PROVE OutputsType'
    BY <1>1, KeyOfName DEF Emplace, AppendRecord, Goto, Calls, Free, OutputsType, All, Shape, Adding, records, outputs, clients
  <1>2. ASSUME NEW t \in All, Post(t) PROVE OutputsType'
    BY <1>2, KeyOfName DEF Post, Goto, OutputsType, All, Shape, Adding, records, outputs, clients
  <1>3. ASSUME NEW t \in All, Emit(t) PROVE OutputsType'
    BY <1>3, KeyOfName DEF Emit, Goto, OutputsType, All, Shape, Adding, records, outputs, clients
  <1>4. ASSUME NEW t \in All, NEW o \in Outputs, AddOutput(t, o) PROVE OutputsType'
    BY <1>4, KeyOfName DEF AddOutput, Goto, OutputsType, All, Shape, Adding, records, outputs, clients
  <1>5. ASSUME NEW t \in All, AddConnect(t) PROVE OutputsType'
    BY <1>5, KeyOfName DEF AddConnect, AppendRecord, Goto, OutputsType, All, Shape, Adding, records, outputs, clients
  <1>6. ASSUME NEW t \in Threads, Quit(t) PROVE OutputsType'
    BY <1>6, KeyOfName DEF Quit, AppendRecord, Goto, Calls, Free, OutputsType, All, Shape, Adding, records, outputs, clients
  <1>7. ASSUME NEW t \in Threads, Pop(t) PROVE OutputsType'
    BY <1>7, KeyOfName DEF Pop, PopFront, Goto, Runs, Free, OutputsType, All, Shape, Adding, records, outputs, clients
  <1>8. ASSUME NEW t \in Threads, AddBegin(t) PROVE OutputsType'
    <2>1. Head(jobs)[2] \in Names
      BY <1>8, FrontJob, JobKinds DEF AddBegin, Runs, TypeOK
    <2> QED BY <1>8, <2>1, EnlistOutputs DEF AddBegin, All
  <1>9. ASSUME NEW t \in Threads, Del(t) PROVE OutputsType'
    BY <1>9, KeyOfName DEF Del, AppendRecord, Goto, Runs, Free, OutputsType, All, Shape, Adding, records, outputs, clients
  <1>10. ASSUME NEW t \in Threads, FlushAll(t) PROVE OutputsType'
    BY <1>10, KeyOfName DEF FlushAll, Runs, Free, OutputsType, All, Shape, Adding, records, outputs, clients
  <1>11. ASSUME NEW t \in Threads, NEW n \in Names, CallAdd(t, n) PROVE OutputsType'
    BY <1>11, KeyOfName DEF CallAdd, Dispatch, Calls, Free, OutputsType, All, Shape, Adding, records, outputs, clients
  <1>12. ASSUME NEW t \in Threads, NEW n \in Names, CallDel(t, n) PROVE OutputsType'
    BY <1>12, KeyOfName DEF CallDel, Dispatch, Calls, Free, OutputsType, All, Shape, Adding, records, outputs, clients
  <1>13. ASSUME NEW t \in Threads, NEW c \in Clients, Subscribe(t, c) PROVE OutputsType'
    BY <1>13, KeyOfName DEF Subscribe, Calls, Free, OutputsType, All, Shape, Adding, records, outputs, clients
  <1>14. ASSUME NEW t \in Threads, NEW c \in Clients, Unsubscribe(t, c) PROVE OutputsType'
    BY <1>14, KeyOfName DEF Unsubscribe, Disconnect, Calls, Free, OutputsType, All, Shape, Adding, records, outputs, clients
  <1>15. ASSUME NEW c \in Clients, Connect(c) PROVE OutputsType'
    BY <1>15, KeyOfName DEF Connect, OutputsType, All, Shape, Adding, records, outputs, clients
  <1>16. ASSUME NEW c \in Clients, Destroy(c) PROVE OutputsType'
    BY <1>16, KeyOfName DEF Destroy, Disconnect, OutputsType, All, Shape, Adding, records, outputs, clients
  <1>17. ASSUME Elapse PROVE OutputsType'
    BY <1>17, KeyOfName DEF Elapse, OutputsType, All, Shape, Adding, records, outputs, clients
  <1>18. ASSUME CreateNext PROVE OutputsType'
    <2>1. Default[made + 1] \in Names
      BY <1>18, NextDefault DEF CreateNext, TypeOK
    <2> QED BY <1>18, <2>1, EnlistOutputs DEF CreateNext, All
  <1>19. ASSUME CreateEnds PROVE OutputsType'
    BY <1>19, KeyOfName DEF CreateEnds, OutputsType, All, Shape, Adding, records, outputs, clients
  <1>20. ASSUME Join PROVE OutputsType'
    BY <1>20, KeyOfName DEF Join, AppendRecord, Goto, OutputsType, All, Shape, Adding, records, outputs, clients
  <1>21. ASSUME DropNext PROVE OutputsType'
    BY <1>21, KeyOfName DEF DropNext, PopFront, Goto, OutputsType, All, Shape, Adding, records, outputs, clients
  <1>22. ASSUME DropEnds PROVE OutputsType'
    BY <1>22, KeyOfName DEF DropEnds, Goto, OutputsType, All, Shape, Adding, records, outputs, clients
  <1>23. ASSUME UNCHANGED state PROVE OutputsType'
    BY <1>23 DEF state, records, outputs, clients, OutputsType, All, Shape, Adding
  <1> QED BY <1>1, <1>2, <1>3, <1>4, <1>5, <1>6, <1>7, <1>8, <1>9, <1>10, <1>11, <1>12, <1>13, <1>14, <1>15, <1>16, <1>17, <1>18, <1>19, <1>20, <1>21, <1>22, <1>23 DEF Step, JobStep, OwnStep, MainStep

LEMMA DisconnectType ==
  ASSUME ClientsType, Shape, NEW c \in Clients, Disconnect(c)
  PROVE  /\ subs' \in [Clients -> 0..MaxSubs] /\ linked' \in [Clients -> BOOLEAN]
         /\ orphans' \in [Clients -> Nat]
<1>1. MaxSubs \in Nat /\ subs[c] \in 0..MaxSubs /\ (linked[c] => subs[c] > 0)
  BY Bounds DEF ClientsType, Shape
<1>2. linked[c] => subs[c] - 1 \in 0..MaxSubs
  BY <1>1
<1> QED BY <1>2 DEF Disconnect, ClientsType

LEMMA ClientsTypeStep == ASSUME ClientsType, Shape, [Step]_state PROVE ClientsType'
  <1>1. ASSUME NEW t \in All, Emplace(t) PROVE ClientsType'
    BY <1>1 DEF Emplace, AppendRecord, Goto, Calls, Free, ClientsType, records, outputs, clients
  <1>2. ASSUME NEW t \in All, Post(t) PROVE ClientsType'
    BY <1>2 DEF Post, Goto, ClientsType, records, outputs, clients
  <1>3. ASSUME NEW t \in All, Emit(t) PROVE ClientsType'
    BY <1>3 DEF Emit, Goto, ClientsType, records, outputs, clients
  <1>4. ASSUME NEW t \in All, NEW o \in Outputs, AddOutput(t, o) PROVE ClientsType'
    BY <1>4 DEF AddOutput, Goto, ClientsType, records, outputs, clients
  <1>5. ASSUME NEW t \in All, AddConnect(t) PROVE ClientsType'
    BY <1>5 DEF AddConnect, AppendRecord, Goto, ClientsType, records, outputs, clients
  <1>6. ASSUME NEW t \in Threads, Quit(t) PROVE ClientsType'
    BY <1>6 DEF Quit, AppendRecord, Goto, Calls, Free, ClientsType, records, outputs, clients
  <1>7. ASSUME NEW t \in Threads, Pop(t) PROVE ClientsType'
    BY <1>7 DEF Pop, PopFront, Goto, Runs, Free, ClientsType, records, outputs, clients
  <1>8. ASSUME NEW t \in Threads, AddBegin(t) PROVE ClientsType'
    BY <1>8 DEF AddBegin, Enlist, AppendRecord, Goto, Runs, Free, ClientsType, records, outputs, clients
  <1>9. ASSUME NEW t \in Threads, Del(t) PROVE ClientsType'
    BY <1>9 DEF Del, AppendRecord, Goto, Runs, Free, ClientsType, records, outputs, clients
  <1>10. ASSUME NEW t \in Threads, FlushAll(t) PROVE ClientsType'
    BY <1>10 DEF FlushAll, Runs, Free, ClientsType, records, outputs, clients
  <1>11. ASSUME NEW t \in Threads, NEW n \in Names, CallAdd(t, n) PROVE ClientsType'
    BY <1>11 DEF CallAdd, Dispatch, Calls, Free, ClientsType, records, outputs, clients
  <1>12. ASSUME NEW t \in Threads, NEW n \in Names, CallDel(t, n) PROVE ClientsType'
    BY <1>12 DEF CallDel, Dispatch, Calls, Free, ClientsType, records, outputs, clients
  <1>13. ASSUME NEW t \in Threads, NEW c \in Clients, Subscribe(t, c) PROVE ClientsType'
    <2>1. MaxSubs \in Nat /\ subs[c] \in 0..MaxSubs /\ subs[c] < MaxSubs
      BY <1>13, Bounds DEF Subscribe, ClientsType
    <2>2. subs[c] + 1 \in 0..MaxSubs
      BY <2>1
    <2> QED BY <1>13, <2>2 DEF Subscribe, ClientsType
  <1>14. ASSUME NEW t \in Threads, NEW c \in Clients, Unsubscribe(t, c) PROVE ClientsType'
    BY <1>14, DisconnectType DEF Unsubscribe, Calls, Free, ClientsType, records, outputs, clients
  <1>15. ASSUME NEW c \in Clients, Connect(c) PROVE ClientsType'
    BY <1>15 DEF Connect, ClientsType, records, outputs, clients
  <1>16. ASSUME NEW c \in Clients, Destroy(c) PROVE ClientsType'
    BY <1>16, DisconnectType DEF Destroy, ClientsType, records, outputs, clients
  <1>17. ASSUME Elapse PROVE ClientsType'
    BY <1>17 DEF Elapse, ClientsType, records, outputs, clients
  <1>18. ASSUME CreateNext PROVE ClientsType'
    BY <1>18 DEF CreateNext, Enlist, AppendRecord, Goto, ClientsType, records, outputs, clients
  <1>19. ASSUME CreateEnds PROVE ClientsType'
    BY <1>19 DEF CreateEnds, ClientsType, records, outputs, clients
  <1>20. ASSUME Join PROVE ClientsType'
    BY <1>20 DEF Join, AppendRecord, Goto, ClientsType, records, outputs, clients
  <1>21. ASSUME DropNext PROVE ClientsType'
    BY <1>21 DEF DropNext, PopFront, Goto, ClientsType, records, outputs, clients
  <1>22. ASSUME DropEnds PROVE ClientsType'
    BY <1>22 DEF DropEnds, Goto, ClientsType, records, outputs, clients
  <1>23. ASSUME UNCHANGED state PROVE ClientsType'
    BY <1>23 DEF state, records, outputs, clients, ClientsType
  <1> QED BY <1>1, <1>2, <1>3, <1>4, <1>5, <1>6, <1>7, <1>8, <1>9, <1>10, <1>11, <1>12, <1>13, <1>14, <1>15, <1>16, <1>17, <1>18, <1>19, <1>20, <1>21, <1>22, <1>23 DEF Step, JobStep, OwnStep, MainStep

LEMMA TypeStep == ASSUME TypeOK, Shape, OnePopper, [Step]_state, crashed' \in BOOLEAN PROVE TypeOK'
<1>1. RecordsType' /\ jobs' \in Seq(Jobs)
  BY StepRecords, StepJobs, RecordsTypeStep, JobsTypeStep, TypeParts DEF Shape, JobsType
<1>2. ThreadsType' /\ OutputsType' /\ ClientsType'
  BY ThreadsTypeStep, OutputsTypeStep, ClientsTypeStep, TypeParts
<1>3. JobsType'
  BY <1>1, CountsStep, TypeParts DEF JobsType
<1> QED BY <1>1, <1>2, <1>3 DEF TypeOK, RecordsType, ThreadsType, JobsType, OutputsType, ClientsType

-----------------------------------------------------------------------------
(***************************************************************************)
(* The inductive invariant.                                                *)
(***************************************************************************)
IInv == TypeOK /\ Shape /\ OnePopper /\ Numbered

LEMMA InitIInv == Init => IInv
<1> SUFFICES ASSUME Init PROVE IInv
  OBVIOUS
<1>1. RecordsType /\ ThreadsType /\ OutputsType /\ ClientsType
  <2>1. RecordsType
    BY DEF Init, RecordsType, NoRecord
  <2>2. ThreadsType
    BY DEF Init, ThreadsType, All
  <2>3. OutputsType
    BY DEF Init, OutputsType
  <2>4. ClientsType
    BY Bounds DEF Init, ClientsType
  <2> QED BY <2>1, <2>2, <2>3, <2>4
<1>2. JobsType
  <2>1. Default \in Seq(Names)
    BY ConstantsAssumption
  <2>2. Len(Default) \in Nat
    BY <2>1
  <2> QED BY <2>2, Bounds DEF Init, JobsType
<1>3. Shape /\ OnePopper
  BY Apart DEF Init, Shape, OnePopper, Adding, All
<1>4. Numbered
  BY DEF Init, Numbered, Ahead, Emitting
<1>5. crashed \in BOOLEAN
  BY DEF Init
<1> QED BY <1>1, <1>2, <1>3, <1>4, <1>5, TypeParts DEF IInv

LEMMA OnePopperStep == ASSUME TypeOK, OnePopper, [Step]_state PROVE OnePopper'
  <1>1. ASSUME NEW t \in All, Emplace(t) PROVE OnePopper'
    BY <1>1, Apart DEF Emplace, AppendRecord, Goto, Calls, Free, OnePopper, TypeOK, All, records, outputs, clients
  <1>2. ASSUME NEW t \in All, Post(t) PROVE OnePopper'
    BY <1>2, Apart DEF Post, Goto, OnePopper, TypeOK, All, records, outputs, clients
  <1>3. ASSUME NEW t \in All, Emit(t) PROVE OnePopper'
    BY <1>3, Apart DEF Emit, Goto, OnePopper, TypeOK, All, records, outputs, clients
  <1>4. ASSUME NEW t \in All, NEW o \in Outputs, AddOutput(t, o) PROVE OnePopper'
    BY <1>4, Apart DEF AddOutput, Goto, OnePopper, TypeOK, All, records, outputs, clients
  <1>5. ASSUME NEW t \in All, AddConnect(t) PROVE OnePopper'
    BY <1>5, Apart DEF AddConnect, AppendRecord, Goto, OnePopper, TypeOK, All, records, outputs, clients
  <1>6. ASSUME NEW t \in Threads, Quit(t) PROVE OnePopper'
    BY <1>6, Apart DEF Quit, AppendRecord, Goto, Calls, Free, OnePopper, TypeOK, All, records, outputs, clients
  <1>7. ASSUME NEW t \in Threads, Pop(t) PROVE OnePopper'
    BY <1>7, Apart DEF Pop, PopFront, Goto, Runs, Free, OnePopper, TypeOK, All, records, outputs, clients
  <1>8. ASSUME NEW t \in Threads, AddBegin(t) PROVE OnePopper'
    BY <1>8, Apart DEF AddBegin, Enlist, AppendRecord, Goto, Runs, Free, OnePopper, TypeOK, All, records, outputs, clients
  <1>9. ASSUME NEW t \in Threads, Del(t) PROVE OnePopper'
    BY <1>9, Apart DEF Del, AppendRecord, Goto, Runs, Free, OnePopper, TypeOK, All, records, outputs, clients
  <1>10. ASSUME NEW t \in Threads, FlushAll(t) PROVE OnePopper'
    BY <1>10, Apart DEF FlushAll, Runs, Free, OnePopper, TypeOK, All, records, outputs, clients
  <1>11. ASSUME NEW t \in Threads, NEW n \in Names, CallAdd(t, n) PROVE OnePopper'
    BY <1>11, Apart DEF CallAdd, Dispatch, Calls, Free, OnePopper, TypeOK, All, records, outputs, clients
  <1>12. ASSUME NEW t \in Threads, NEW n \in Names, CallDel(t, n) PROVE OnePopper'
    BY <1>12, Apart DEF CallDel, Dispatch, Calls, Free, OnePopper, TypeOK, All, records, outputs, clients
  <1>13. ASSUME NEW t \in Threads, NEW c \in Clients, Subscribe(t, c) PROVE OnePopper'
    BY <1>13, Apart DEF Subscribe, Calls, Free, OnePopper, TypeOK, All, records, outputs, clients
  <1>14. ASSUME NEW t \in Threads, NEW c \in Clients, Unsubscribe(t, c) PROVE OnePopper'
    BY <1>14, Apart DEF Unsubscribe, Disconnect, Calls, Free, OnePopper, TypeOK, All, records, outputs, clients
  <1>15. ASSUME NEW c \in Clients, Connect(c) PROVE OnePopper'
    BY <1>15, Apart DEF Connect, OnePopper, TypeOK, All, records, outputs, clients
  <1>16. ASSUME NEW c \in Clients, Destroy(c) PROVE OnePopper'
    BY <1>16, Apart DEF Destroy, Disconnect, OnePopper, TypeOK, All, records, outputs, clients
  <1>17. ASSUME Elapse PROVE OnePopper'
    BY <1>17, Apart DEF Elapse, OnePopper, TypeOK, All, records, outputs, clients
  <1>18. ASSUME CreateNext PROVE OnePopper'
    BY <1>18, Apart DEF CreateNext, Enlist, AppendRecord, Goto, OnePopper, TypeOK, All, records, outputs, clients
  <1>19. ASSUME CreateEnds PROVE OnePopper'
    BY <1>19, Apart DEF CreateEnds, OnePopper, TypeOK, All, records, outputs, clients
  <1>20. ASSUME Join PROVE OnePopper'
    BY <1>20, Apart DEF Join, AppendRecord, Goto, OnePopper, TypeOK, All, records, outputs, clients
  <1>21. ASSUME DropNext PROVE OnePopper'
    BY <1>21, Apart DEF DropNext, PopFront, Goto, OnePopper, TypeOK, All, records, outputs, clients
  <1>22. ASSUME DropEnds PROVE OnePopper'
    BY <1>22, Apart DEF DropEnds, Goto, OnePopper, TypeOK, All, records, outputs, clients
  <1>23. ASSUME UNCHANGED state PROVE OnePopper'
    BY <1>23 DEF state, records, outputs, clients, OnePopper, TypeOK, All
  <1> QED BY <1>1, <1>2, <1>3, <1>4, <1>5, <1>6, <1>7, <1>8, <1>9, <1>10, <1>11, <1>12, <1>13, <1>14, <1>15, <1>16, <1>17, <1>18, <1>19, <1>20, <1>21, <1>22, <1>23 DEF Step, JobStep, OwnStep, MainStep

\* A job that is posted, and a job that is taken, leave only such jobs.
LEMMA QuietJobs ==
  ASSUME jobs \in Seq(Jobs), NEW j \in {Write, Flush}, jobs' = Append(jobs, j),
         \A i \in 1..Len(jobs) : jobs[i] \in {Write, Flush}
  PROVE  \A i \in 1..Len(jobs') : jobs'[i] \in {Write, Flush}
  BY JobKinds

LEMMA ShapeStep == ASSUME TypeOK, TypeOK', Shape, [Step]_state PROVE Shape'
  <1>1. ASSUME NEW t \in All, Emplace(t) PROVE Shape'
    BY <1>1, Apart, KeyOfName DEF Emplace, AppendRecord, Goto, Calls, Free, Shape, Adding, TypeOK, All, records, outputs, clients
  <1>2. ASSUME NEW t \in All, Post(t) PROVE Shape'
    <2>1. jobs' = Append(jobs, Write)
      BY <1>2 DEF Post
    <2>2. life' = "create" => life = "create"
      BY <1>2 DEF Post
    <2>3. life' = "create" => \A i \in 1..Len(jobs') : jobs'[i] \in {Write, Flush}
      BY <2>1, <2>2, QuietJobs DEF Shape, TypeOK
    <2>4. pc' = [pc EXCEPT ![t] = "idle"]
      BY <1>2 DEF Post, Goto
    <2>5. records' = records /\ arg' = arg /\ outputs' = outputs /\ clients' = clients
      BY <1>2 DEF Post
    <2>6. life = "create" => life' = "create"
      BY <1>2 DEF Post, Shape
    <2> QED BY <2>2, <2>3, <2>4, <2>5, <2>6, Apart DEF Shape, Adding, TypeOK, All, records, outputs, clients
  <1>3. ASSUME NEW t \in All, Emit(t) PROVE Shape'
    BY <1>3, Apart, KeyOfName DEF Emit, Goto, Shape, Adding, TypeOK, All, records, outputs, clients
  <1>4. ASSUME NEW t \in All, NEW o \in Outputs, AddOutput(t, o) PROVE Shape'
    <2>1. /\ pc[t] = "create" /\ pc' = [pc EXCEPT ![t] = "connect"]
          /\ out' = [out EXCEPT ![Key(arg[t])] = o]
          /\ hand' = hand /\ jobs' = jobs /\ arg' = arg /\ life' = life
          /\ linked' = linked /\ subs' = subs
      BY <1>4 DEF AddOutput, Goto, records, clients
    <2>2. arg[t] \in Names /\ Key(arg[t]) \in Keys
      BY <2>1, KeyOfName DEF Shape, Adding
    <2>3. \A k \in Keys : out[k] \in Outputs => out'[k] \in Outputs
      BY <2>1 DEF TypeOK
    <2>4. out'[Key(arg[t])] \in Outputs
      BY <2>1, <2>2 DEF TypeOK
    <2>5. \A u \in All : pc'[u] = IF u = t THEN "connect" ELSE pc[u]
      BY <2>1 DEF TypeOK
    <2>6. \A u \in All : pc'[u] = "connect" => out'[Key(arg'[u])] \in Outputs
      BY <2>1, <2>3, <2>4, <2>5, KeyOfName DEF Shape, Adding
    <2> QED BY <2>1, <2>5, <2>6, Apart DEF Shape, Adding, All
  <1>5. ASSUME NEW t \in All, AddConnect(t) PROVE Shape'
    BY <1>5, Apart, KeyOfName DEF AddConnect, AppendRecord, Goto, Shape, Adding, TypeOK, All, records, outputs, clients
  <1>6. ASSUME NEW t \in Threads, Quit(t) PROVE Shape'
    BY <1>6, Apart, KeyOfName DEF Quit, AppendRecord, Goto, Calls, Free, Shape, Adding, TypeOK, All, records, outputs, clients
  <1>7. ASSUME NEW t \in Threads, Pop(t) PROVE Shape'
    <2>1. Head(queue) # NoRecord
      BY <1>7 DEF Pop, PopFront, TypeOK, NoRecord
    <2>2. \A i \in 1..Len(jobs') : \E k \in 1..Len(jobs) : jobs'[i] = jobs[k]
      BY <1>7, FrontJob DEF Pop, Runs, TypeOK
    <2>3. life' = life /\ pc' = [pc EXCEPT ![t] = "emit"] /\ hand' = [hand EXCEPT ![t] = Head(queue)]
      BY <1>7 DEF Pop, PopFront, Goto
    <2> QED BY <1>7, <2>1, <2>2, <2>3, Apart DEF Pop, Shape, Adding, TypeOK, All, outputs, clients
  <1>8. ASSUME NEW t \in Threads, AddBegin(t) PROVE Shape'
    <2>1. /\ jobs' = Tail(jobs) /\ Head(jobs)[1] = "add" /\ jobs # << >>
          /\ out' = out /\ hand' = hand /\ life' = life
          /\ linked' = linked /\ subs' = subs
      BY <1>8 DEF AddBegin, Enlist, AppendRecord, Runs, records, clients
    <2>2. Head(jobs)[2] \in Names /\ Head(jobs) \notin {Write, Flush}
      BY <2>1, JobKinds, FrontJob DEF TypeOK
    <2>3. life # "create"
      BY <2>1, <2>2, FrontJob DEF Shape, TypeOK
    <2>4. \/ pc' = [pc EXCEPT ![t] = "post"] /\ arg' = arg
          \/ pc' = [pc EXCEPT ![t] = "create"] /\ arg' = [arg EXCEPT ![t] = Head(jobs)[2]]
      BY <1>8 DEF AddBegin, Enlist, Goto
    <2>5. /\ \A u \in All : u # t => pc'[u] = pc[u] /\ arg'[u] = arg[u]
          /\ (pc'[t] = "create" /\ arg'[t] \in Names) \/ pc'[t] = "post"
      BY <2>2, <2>4 DEF TypeOK, All
    <2>6. \A u \in All : /\ pc'[u] \in Adding => arg'[u] \in Names
                         /\ pc'[u] = "connect" => pc[u] = "connect" /\ arg'[u] = arg[u]
                         /\ pc'[u] = "emit" => pc[u] = "emit"
      BY <2>5 DEF Shape, Adding
    <2>7. pc'[Main] = pc[Main]
      BY <2>5, Apart DEF All
    <2>8. \A u \in All : pc'[u] = "connect" => out'[Key(arg'[u])] \in Outputs
      BY <2>1, <2>6 DEF Shape
    <2>9. \A u \in All : pc'[u] = "emit" => hand'[u] # NoRecord
      BY <2>1, <2>6 DEF Shape
    <2>10. \A c \in Clients : linked'[c] => subs'[c] > 0
      BY <2>1 DEF Shape
    <2>11. life' # "create" /\ (pc'[Main] \in Adding => life' = "create")
      BY <2>1, <2>3, <2>7 DEF Shape
    <2> QED BY <2>6, <2>8, <2>9, <2>10, <2>11 DEF Shape
  <1>9. ASSUME NEW t \in Threads, Del(t) PROVE Shape'
    BY <1>9, Apart, KeyOfName, FrontJob, JobKinds DEF Del, AppendRecord, Goto, Runs, Free, Shape, Adding, TypeOK, All, records, outputs, clients
  <1>10. ASSUME NEW t \in Threads, FlushAll(t) PROVE Shape'
    BY <1>10, Apart, KeyOfName, FrontJob, JobKinds DEF FlushAll, Runs, Free, Shape, Adding, TypeOK, All, records, outputs, clients
  <1>11. ASSUME NEW t \in Threads, NEW n \in Names, CallAdd(t, n) PROVE Shape'
    BY <1>11, Apart, KeyOfName, JobKinds DEF CallAdd, Dispatch, Calls, Free, Shape, Adding, TypeOK, All, records, outputs, clients
  <1>12. ASSUME NEW t \in Threads, NEW n \in Names, CallDel(t, n) PROVE Shape'
    BY <1>12, Apart, KeyOfName, JobKinds DEF CallDel, Dispatch, Calls, Free, Shape, Adding, TypeOK, All, records, outputs, clients
  <1>13. ASSUME NEW t \in Threads, NEW c \in Clients, Subscribe(t, c) PROVE Shape'
    <2>1. subs[c] + 1 > 0
      BY <1>13 DEF TypeOK
    <2> QED BY <1>13, <2>1 DEF Subscribe, Shape, Adding, TypeOK, records, outputs
  <1>14. ASSUME NEW t \in Threads, NEW c \in Clients, Unsubscribe(t, c) PROVE Shape'
    BY <1>14, Apart, KeyOfName DEF Unsubscribe, Disconnect, Calls, Free, Shape, Adding, TypeOK, All, records, outputs, clients
  <1>15. ASSUME NEW c \in Clients, Connect(c) PROVE Shape'
    BY <1>15, Apart, KeyOfName DEF Connect, Shape, Adding, TypeOK, All, records, outputs, clients
  <1>16. ASSUME NEW c \in Clients, Destroy(c) PROVE Shape'
    BY <1>16, Apart, KeyOfName DEF Destroy, Disconnect, Shape, Adding, TypeOK, All, records, outputs, clients
  <1>17. ASSUME Elapse PROVE Shape'
    <2>1. life' = "create" => \A i \in 1..Len(jobs') : jobs'[i] \in {Write, Flush}
      BY <1>17, QuietJobs DEF Elapse, Shape, TypeOK
    <2> QED BY <1>17, <2>1 DEF Elapse, Shape, Adding, records, outputs, clients
  <1>18. ASSUME CreateNext PROVE Shape'
    <2>1. Default[made + 1] \in Names
      BY <1>18, NextDefault DEF CreateNext, TypeOK
    <2>2. life = "create" /\ Enlist(Main, Default[made + 1]) /\ UNCHANGED <<jobs, life, clients>>
      BY <1>18 DEF CreateNext
    <2>3. CASE pc' = [pc EXCEPT ![Main] = "post"] /\ UNCHANGED <<hand, arg, out>>
      BY <2>2, <2>3, Apart DEF Shape, Adding, TypeOK, All, clients
    <2>4. CASE /\ pc' = [pc EXCEPT ![Main] = "create"] /\ UNCHANGED <<hand, out>>
               /\ arg' = [arg EXCEPT ![Main] = Default[made + 1]]
      BY <2>1, <2>2, <2>4, Apart DEF Shape, Adding, TypeOK, All, clients
    <2> QED BY <2>2, <2>3, <2>4 DEF Enlist, Goto, AppendRecord, records
  <1>19. ASSUME CreateEnds PROVE Shape'
    BY <1>19, Apart, KeyOfName DEF CreateEnds, Shape, Adding, TypeOK, All, records, outputs, clients
  <1>20. ASSUME Join PROVE Shape'
    BY <1>20, Apart, KeyOfName, JobKinds DEF Join, AppendRecord, Goto, Shape, Adding, TypeOK, All, records, outputs, clients
  <1>21. ASSUME DropNext PROVE Shape'
    <2>1. Head(queue) # NoRecord
      BY <1>21 DEF DropNext, PopFront, TypeOK, NoRecord
    <2>2. /\ pc' = [pc EXCEPT ![Main] = "emit"] /\ hand' = [hand EXCEPT ![Main] = Head(queue)]
          /\ UNCHANGED <<jobs, life, arg, outputs, clients>>
      BY <1>21 DEF DropNext, PopFront, Goto
    <2> QED BY <2>1, <2>2, Apart DEF Shape, Adding, TypeOK, All, outputs, clients
  <1>22. ASSUME DropEnds PROVE Shape'
    BY <1>22, Apart, KeyOfName DEF DropEnds, Goto, Shape, Adding, TypeOK, All, records, outputs, clients
  <1>23. ASSUME UNCHANGED state PROVE Shape'
    BY <1>23 DEF state, records, outputs, clients, Shape, Adding, TypeOK, All
  <1> QED BY <1>1, <1>2, <1>3, <1>4, <1>5, <1>6, <1>7, <1>8, <1>9, <1>10, <1>11, <1>12, <1>13, <1>14, <1>15, <1>16, <1>17, <1>18, <1>19, <1>20, <1>21, <1>22, <1>23 DEF Step, JobStep, OwnStep, MainStep

LEMMA NumberedStep ==
  ASSUME RecordsType, Numbered, RecordStep
  PROVE  Numbered'
<1>1. CASE UNCHANGED records /\ Emitting' = Emitting
  BY <1>1 DEF records, Numbered, Ahead
<1>2. CASE AppendRecord /\ Emitting' = Emitting
  <2>1. /\ queue' = Append(queue, emplaced + 1) /\ emplaced' = emplaced + 1
        /\ written' = written /\ hand' = hand /\ Ahead' = Ahead
    BY <1>2 DEF AppendRecord, Ahead
  <2>2. Len(queue) \in Nat /\ Len(queue') = Len(queue) + 1 /\ queue'[Len(queue) + 1] = emplaced + 1
    BY <2>1 DEF RecordsType
  <2>3. \A i \in 1..Len(queue) : queue'[i] = queue[i]
    BY <2>1 DEF RecordsType
  <2>4. Ahead \in Nat /\ Len(written) \in Nat
    BY DEF Ahead, RecordsType
  <2>5. emplaced' = Len(written') + Ahead' + Len(queue')
    BY <2>1, <2>2, <2>4 DEF Numbered
  <2>6. ASSUME NEW i \in 1..Len(queue') PROVE queue'[i] = Len(written') + Ahead' + i
    <3>1. CASE i \in 1..Len(queue)
      BY <3>1, <2>1, <2>3 DEF Numbered
    <3>2. CASE i = Len(queue) + 1
      BY <3>2, <2>1, <2>2, <2>4 DEF Numbered
    <3> QED BY <3>1, <3>2, <2>2
  <2> QED BY <1>2, <2>1, <2>5, <2>6 DEF Numbered
<1>3. ASSUME NEW t \in All, PopFront(t), Emitting = {}, Emitting' = {t} PROVE Numbered'
  <2>1. /\ Len(queue) > 0 /\ Head(queue) = queue[1] /\ Len(Tail(queue)) = Len(queue) - 1
        /\ \A i \in 1..Len(Tail(queue)) : Tail(queue)[i] = queue[i + 1] /\ i + 1 \in 1..Len(queue)
    BY <1>3 DEF PopFront, RecordsType
  <2>2. Ahead = 0 /\ Ahead' = 1
    BY <1>3 DEF Ahead
  <2>3. hand'[t] = Len(written) + 1
    BY <1>3, <2>1, <2>2 DEF PopFront, RecordsType, Numbered
  <2> QED BY <1>3, <2>1, <2>2, <2>3 DEF PopFront, RecordsType, Numbered
<1>4. ASSUME NEW t \in All, Emit(t), Emitting = {t}, Emitting' = {} PROVE Numbered'
  <2>1. Ahead = 1 /\ Ahead' = 0
    BY <1>4 DEF Ahead
  <2>2. /\ written' = Append(written, Len(written) + 1)
        /\ queue' = queue /\ emplaced' = emplaced
    BY <1>4 DEF Emit, Numbered
  <2> QED BY <1>4, <2>1, <2>2 DEF RecordsType, Numbered
<1> QED BY <1>1, <1>2, <1>3, <1>4 DEF RecordStep

\* What a crash leaves is the state it met.
LEMMA StepOrCrash ==
  ASSUME TypeOK, [Next]_vars
  PROVE  [Step]_state /\ crashed' \in BOOLEAN
<1>1. CASE Lives /\ Step
  BY <1>1 DEF Lives, TypeOK
<1>2. CASE Crash
  BY <1>2 DEF Crash
<1>3. CASE UNCHANGED vars
  BY <1>3 DEF vars, TypeOK
<1> QED BY <1>1, <1>2, <1>3 DEF Next

LEMMA IInvStep == IInv /\ [Next]_vars => IInv'
<1> SUFFICES ASSUME IInv, [Next]_vars PROVE IInv'
  OBVIOUS
<1>1. [Step]_state /\ crashed' \in BOOLEAN
  BY StepOrCrash DEF IInv
<1> QED BY <1>1, TypeStep, OnePopperStep, ShapeStep, StepRecords, NumberedStep, TypeParts DEF IInv

LEMMA Invariance == Spec => []IInv
<1>1. Init => IInv
  BY InitIInv
<1>2. IInv /\ [Next]_vars => IInv'
  BY IInvStep
<1> QED BY <1>1, <1>2, PTL DEF Spec

-----------------------------------------------------------------------------
(***************************************************************************)
(* Records and the jobs that write them come in pairs: a record in the     *)
(* queue has its job, or a thread that is about to post it.                *)
(***************************************************************************)
Posting == {t \in All : pc[t] \in {"post", "quit"}}
Paired ==
  life \in {"create", "run"} =>
    IsFiniteSet(Posting) /\ Len(queue) = Cardinality(Writes) + Cardinality(Posting)

LEMMA WritesFinite ==
  ASSUME jobs \in Seq(Jobs)
  PROVE  Writes \in SUBSET (1..Len(jobs)) /\ IsFiniteSet(Writes) /\ Cardinality(Writes) \in Nat
<1>1. Writes \in SUBSET (1..Len(jobs)) /\ 1 \in Int /\ Len(jobs) \in Int
  BY DEF Writes
<1>2. IsFiniteSet(1..Len(jobs))
  BY <1>1, FS_Interval
<1>3. IsFiniteSet(Writes)
  BY <1>1, <1>2, FS_Subset
<1> QED BY <1>1, <1>3, FS_CardinalityType

LEMMA WritesAppend ==
  ASSUME jobs \in Seq(Jobs), NEW j \in Jobs, jobs' = Append(jobs, j)
  PROVE  Cardinality(Writes') = IF j = Write THEN Cardinality(Writes) + 1 ELSE Cardinality(Writes)
<1>1. Writes' = IF j = Write THEN Writes \cup {Len(jobs) + 1} ELSE Writes
  BY DEF Writes
<1>2. Len(jobs) + 1 \notin Writes
  BY DEF Writes
<1> QED BY <1>1, <1>2, WritesFinite, FS_AddElement

LEMMA WritesTail ==
  ASSUME jobs \in Seq(Jobs), jobs # << >>, jobs' = Tail(jobs)
  PROVE  Cardinality(Writes') = IF Head(jobs) = Write THEN Cardinality(Writes) - 1 ELSE Cardinality(Writes)
<1> DEFINE Rest == Writes \ {1}
           Next1 == [i \in Writes' |-> i + 1]
<1>1. /\ Len(jobs') = Len(jobs) - 1 /\ Len(jobs) \in Nat /\ Head(jobs) = jobs[1] /\ 1 \in 1..Len(jobs)
      /\ \A i \in 1..Len(jobs') : jobs'[i] = jobs[i + 1] /\ i + 1 \in 1..Len(jobs)
  BY FrontJob
<1>2. DOMAIN jobs = 1..Len(jobs) /\ DOMAIN jobs' = 1..Len(jobs')
  BY FrontJob
<1>3. \A i \in Writes' : i \in 1..Len(jobs') /\ i \in Nat \ {0} /\ i + 1 \in Rest
  BY <1>1, <1>2 DEF Writes
<1>4. \A k \in Rest : k - 1 \in Writes' /\ (k - 1) + 1 = k
  <2> SUFFICES ASSUME NEW k \in Rest PROVE k - 1 \in Writes' /\ (k - 1) + 1 = k
    OBVIOUS
  <2>1. k \in 1..Len(jobs) /\ k # 1 /\ jobs[k] = Write
    BY <1>2 DEF Writes
  <2>2. k - 1 \in 1..Len(jobs') /\ (k - 1) + 1 = k
    BY <1>1, <2>1
  <2>3. jobs'[k - 1] = Write
    BY <1>1, <2>1, <2>2
  <2> QED BY <1>2, <2>2, <2>3 DEF Writes
<1>5. Next1 \in Bijection(Writes', Rest)
  <2>1. Next1 \in [Writes' -> Rest]
    BY <1>3
  <2>2. \A i, k \in Writes' : Next1[i] = Next1[k] => i = k
    BY <1>3
  <2>3. \A k \in Rest : \E i \in Writes' : Next1[i] = k
    <3> SUFFICES ASSUME NEW k \in Rest PROVE \E i \in Writes' : Next1[i] = k
      OBVIOUS
    <3>1. k - 1 \in Writes' /\ Next1[k - 1] = k
      BY <1>4
    <3> QED BY <3>1
  <2> QED BY <2>1, <2>2, <2>3, Fun_IsBij
<1>6. jobs' \in Seq(Jobs)
  BY FrontJob
<1>7. IsFiniteSet(Writes')
  <2>1. Writes' \in SUBSET (1..Len(jobs'))
    BY <1>3
  <2>2. IsFiniteSet(1..Len(jobs'))
    BY <1>1, FS_Interval
  <2> QED BY <2>1, <2>2, FS_Subset
<1>8. Cardinality(Rest) = Cardinality(Writes')
  BY <1>5, <1>7, FS_Bijection DEF ExistsBijection
<1>9. 1 \in Writes <=> Head(jobs) = Write
  BY <1>1, <1>2 DEF Writes
<1> QED BY <1>8, <1>9, WritesFinite, FS_RemoveElement

\* A thread that moves joins those who are about to post, or leaves them.
LEMMA PostingStep ==
  ASSUME TypeOK, NEW t \in All, NEW l, pc' = [pc EXCEPT ![t] = l]
  PROVE  Posting' = IF l \in {"post", "quit"} THEN Posting \cup {t} ELSE Posting \ {t}
BY DEF Posting, TypeOK

LEMMA PairedKept ==
  ASSUME Paired, Posting' = Posting, Len(queue') = Len(queue),
         Cardinality(Writes') = Cardinality(Writes),
         life' \in {"create", "run"} => life \in {"create", "run"}
  PROVE  Paired'
BY DEF Paired

\* A record is emplaced by a thread that will post its job.
LEMMA PairedAppend ==
  ASSUME TypeOK, Paired, NEW t \in All, NEW e, pc[t] \notin {"post", "quit"},
         Posting' = Posting \cup {t}, queue' = Append(queue, e),
         Cardinality(Writes') = Cardinality(Writes), life' = life
  PROVE  Paired'
<1>1. t \notin Posting /\ Len(queue') = Len(queue) + 1 /\ Len(queue) \in Nat
  BY DEF Posting, TypeOK
<1>2. Cardinality(Writes) \in Nat
  BY WritesFinite DEF TypeOK
<1>3. SUFFICES ASSUME life \in {"create", "run"}, IsFiniteSet(Posting),
                      Len(queue) = Cardinality(Writes) + Cardinality(Posting)
               PROVE  IsFiniteSet(Posting') /\ Len(queue') = Cardinality(Writes') + Cardinality(Posting')
  BY DEF Paired
<1>4. /\ IsFiniteSet(Posting') /\ Cardinality(Posting') = Cardinality(Posting) + 1
      /\ Cardinality(Posting) \in Nat
  BY <1>1, <1>3, FS_AddElement, FS_CardinalityType
<1> QED BY <1>1, <1>2, <1>3, <1>4

\* Enlist, by the strand or by Main: a record that says no, or no record yet.
LEMMA PairedEnlist ==
  ASSUME TypeOK, Paired, NEW t \in All, NEW n, pc[t] = "idle", Enlist(t, n),
         Cardinality(Writes') = Cardinality(Writes), life' = life
  PROVE  Paired'
<1>1. CASE pc' = [pc EXCEPT ![t] = "post"] /\ queue' = Append(queue, emplaced + 1)
  BY <1>1, PostingStep, PairedAppend
<1>2. CASE pc' = [pc EXCEPT ![t] = "create"] /\ queue' = queue
  <2>1. Posting' = Posting
    BY <1>2, PostingStep DEF Posting
  <2> QED BY <1>2, <2>1, PairedKept
<1> QED BY <1>1, <1>2 DEF Enlist, AppendRecord, Goto, records

LEMMA PairedStep == ASSUME TypeOK, OnePopper, Paired, [Step]_state PROVE Paired'
  <1>1. ASSUME NEW t \in All, Emplace(t) PROVE Paired'
    <2>1. pc[t] = "idle" /\ queue' = Append(queue, emplaced + 1) /\ Writes' = Writes /\ life' = life /\ \E l \in {"post", "quit"} : pc' = [pc EXCEPT ![t] = l]
      BY <1>1 DEF Emplace, AppendRecord, Goto, Writes, Calls, Free
    <2> QED BY <2>1, PostingStep, PairedAppend DEF All
  <1>2. ASSUME NEW t \in All, Post(t) PROVE Paired'
    <2>1. /\ pc' = [pc EXCEPT ![t] = "idle"] /\ queue' = queue /\ jobs' = Append(jobs, Write)
          /\ t \in Posting /\ (life' \in {"create", "run"} => life \in {"create", "run"})
      BY <1>2 DEF Post, Goto, Posting, records
    <2>2. Posting' = Posting \ {t}
      BY <2>1, PostingStep
    <2>3. Cardinality(Writes') = Cardinality(Writes) + 1 /\ Cardinality(Writes) \in Nat
      BY <2>1, JobKinds, WritesAppend, WritesFinite DEF TypeOK
    <2>4. SUFFICES ASSUME IsFiniteSet(Posting), Len(queue) = Cardinality(Writes) + Cardinality(Posting)
                   PROVE  IsFiniteSet(Posting') /\ Len(queue') = Cardinality(Writes') + Cardinality(Posting')
      BY <2>1 DEF Paired
    <2>5. IsFiniteSet(Posting') /\ Cardinality(Posting') = Cardinality(Posting) - 1 /\ Cardinality(Posting) \in Nat
      BY <2>1, <2>2, <2>4, FS_RemoveElement, FS_CardinalityType
    <2> QED BY <2>1, <2>3, <2>4, <2>5
  <1>3. ASSUME NEW t \in All, Emit(t) PROVE Paired'
    <2>1. Posting' = Posting /\ queue' = queue /\ Writes' = Writes /\ (life' \in {"create", "run"} => life \in {"create", "run"})
      BY <1>3 DEF Emit, Posting, Writes, Goto, TypeOK, records
    <2> QED BY <2>1, PairedKept
  <1>4. ASSUME NEW t \in All, NEW o \in Outputs, AddOutput(t, o) PROVE Paired'
    <2>1. Posting' = Posting /\ queue' = queue /\ Writes' = Writes /\ (life' \in {"create", "run"} => life \in {"create", "run"})
      BY <1>4 DEF AddOutput, Posting, Writes, Goto, TypeOK, records
    <2> QED BY <2>1, PairedKept
  <1>5. ASSUME NEW t \in All, AddConnect(t) PROVE Paired'
    <2>1. pc[t] = "connect" /\ queue' = Append(queue, emplaced + 1) /\ Writes' = Writes /\ life' = life /\ \E l \in {"post", "quit"} : pc' = [pc EXCEPT ![t] = l]
      BY <1>5 DEF AddConnect, AppendRecord, Goto, Writes
    <2> QED BY <2>1, PostingStep, PairedAppend DEF All
  <1>6. ASSUME NEW t \in Threads, Quit(t) PROVE Paired'
    <2>1. pc[t] = "idle" /\ queue' = Append(queue, emplaced + 1) /\ Writes' = Writes /\ life' = life /\ \E l \in {"post", "quit"} : pc' = [pc EXCEPT ![t] = l]
      BY <1>6 DEF Quit, AppendRecord, Goto, Writes, Calls, Free
    <2> QED BY <2>1, PostingStep, PairedAppend DEF All
  <1>7. ASSUME NEW t \in Threads, Pop(t) PROVE Paired'
    <2>1. /\ jobs # << >> /\ jobs' = Tail(jobs) /\ Head(jobs) = Write /\ queue # << >> /\ queue' = Tail(queue)
          /\ pc[t] = "idle" /\ pc' = [pc EXCEPT ![t] = "emit"] /\ life' = life
      BY <1>7 DEF Pop, PopFront, Runs, Free, Goto
    <2>2. Posting' = Posting
      BY <2>1, PostingStep DEF Posting, All
    <2>3. Cardinality(Writes') = Cardinality(Writes) - 1 /\ Cardinality(Writes) \in Nat
      BY <2>1, WritesTail, WritesFinite DEF TypeOK
    <2>4. Len(queue') = Len(queue) - 1 /\ Len(queue) \in Nat
      BY <2>1 DEF TypeOK
    <2>5. SUFFICES ASSUME IsFiniteSet(Posting), Len(queue) = Cardinality(Writes) + Cardinality(Posting)
                   PROVE  IsFiniteSet(Posting') /\ Len(queue') = Cardinality(Writes') + Cardinality(Posting')
      BY <2>1 DEF Paired
    <2>6. Cardinality(Posting) \in Nat
      BY <2>5, FS_CardinalityType
    <2> QED BY <2>2, <2>3, <2>4, <2>5, <2>6
  <1>8. ASSUME NEW t \in Threads, AddBegin(t) PROVE Paired'
    <2>1. /\ jobs # << >> /\ jobs' = Tail(jobs) /\ Head(jobs)[1] = "add" /\ pc[t] = "idle" /\ life' = life
          /\ Enlist(t, Head(jobs)[2]) /\ t \in All
      BY <1>8 DEF AddBegin, Runs, Free, All
    <2>2. Cardinality(Writes') = Cardinality(Writes)
      BY <2>1, WritesTail DEF TypeOK, Write
    <2> QED BY <2>1, <2>2, PairedEnlist
  <1>9. ASSUME NEW t \in Threads, Del(t) PROVE Paired'
    <2>1. /\ jobs # << >> /\ jobs' = Tail(jobs) /\ Head(jobs)[1] = "del" /\ pc[t] = "idle" /\ life' = life
          /\ queue' = Append(queue, emplaced + 1) /\ pc' = [pc EXCEPT ![t] = "post"]
      BY <1>9 DEF Del, AppendRecord, Goto, Runs, Free
    <2>2. Cardinality(Writes') = Cardinality(Writes)
      BY <2>1, WritesTail DEF TypeOK, Write
    <2> QED BY <2>1, <2>2, PostingStep, PairedAppend DEF All
  <1>10. ASSUME NEW t \in Threads, FlushAll(t) PROVE Paired'
    <2>1. /\ jobs # << >> /\ jobs' = Tail(jobs) /\ Head(jobs) = Flush /\ UNCHANGED <<pc, queue, life>>
      BY <1>10 DEF FlushAll, Runs, Free, records
    <2>2. Cardinality(Writes') = Cardinality(Writes)
      BY <2>1, WritesTail, JobKinds DEF TypeOK
    <2> QED BY <2>1, <2>2, PairedKept DEF Posting
  <1>11. ASSUME NEW t \in Threads, NEW n \in Names, CallAdd(t, n) PROVE Paired'
    <2>1. Posting' = Posting /\ queue' = queue /\ life' = life /\ jobs' = Append(jobs, <<"add", n>>) /\ <<"add", n>> \in Jobs /\ <<"add", n>> # Write
      BY <1>11, JobKinds DEF CallAdd, Dispatch, Posting, Write, Flush, records
    <2>2. Cardinality(Writes') = Cardinality(Writes)
      BY <2>1, WritesAppend DEF TypeOK
    <2> QED BY <2>1, <2>2, PairedKept
  <1>12. ASSUME NEW t \in Threads, NEW n \in Names, CallDel(t, n) PROVE Paired'
    <2>1. Posting' = Posting /\ queue' = queue /\ life' = life /\ jobs' = Append(jobs, <<"del", n>>) /\ <<"del", n>> \in Jobs /\ <<"del", n>> # Write
      BY <1>12, JobKinds DEF CallDel, Dispatch, Posting, Write, Flush, records
    <2>2. Cardinality(Writes') = Cardinality(Writes)
      BY <2>1, WritesAppend DEF TypeOK
    <2> QED BY <2>1, <2>2, PairedKept
  <1>13. ASSUME NEW t \in Threads, NEW c \in Clients, Subscribe(t, c) PROVE Paired'
    <2>1. Posting' = Posting /\ queue' = queue /\ Writes' = Writes /\ (life' \in {"create", "run"} => life \in {"create", "run"})
      BY <1>13 DEF Subscribe, Posting, Writes, Goto, TypeOK, records
    <2> QED BY <2>1, PairedKept
  <1>14. ASSUME NEW t \in Threads, NEW c \in Clients, Unsubscribe(t, c) PROVE Paired'
    <2>1. Posting' = Posting /\ queue' = queue /\ Writes' = Writes /\ (life' \in {"create", "run"} => life \in {"create", "run"})
      BY <1>14 DEF Unsubscribe, Posting, Writes, Goto, Disconnect, TypeOK, records
    <2> QED BY <2>1, PairedKept
  <1>15. ASSUME NEW c \in Clients, Connect(c) PROVE Paired'
    <2>1. Posting' = Posting /\ queue' = queue /\ Writes' = Writes /\ (life' \in {"create", "run"} => life \in {"create", "run"})
      BY <1>15 DEF Connect, Posting, Writes, Goto, TypeOK, records
    <2> QED BY <2>1, PairedKept
  <1>16. ASSUME NEW c \in Clients, Destroy(c) PROVE Paired'
    <2>1. Posting' = Posting /\ queue' = queue /\ Writes' = Writes /\ (life' \in {"create", "run"} => life \in {"create", "run"})
      BY <1>16 DEF Destroy, Posting, Writes, Goto, Disconnect, TypeOK, records
    <2> QED BY <2>1, PairedKept
  <1>17. ASSUME Elapse PROVE Paired'
    <2>1. Posting' = Posting /\ queue' = queue /\ life' = life /\ jobs' = Append(jobs, Flush) /\ Flush \in Jobs /\ Flush # Write
      BY <1>17, JobKinds DEF Elapse, Posting, Write, Flush, records
    <2>2. Cardinality(Writes') = Cardinality(Writes)
      BY <2>1, WritesAppend DEF TypeOK
    <2> QED BY <2>1, <2>2, PairedKept
  <1>18. ASSUME CreateNext PROVE Paired'
    <2>1. pc[Main] = "idle" /\ Enlist(Main, Default[made + 1]) /\ life' = life /\ Writes' = Writes
      BY <1>18 DEF CreateNext, Writes
    <2> QED BY <2>1, Apart, PairedEnlist
  <1>19. ASSUME CreateEnds PROVE Paired'
    <2>1. Posting' = Posting /\ queue' = queue /\ Writes' = Writes /\ (life' \in {"create", "run"} => life \in {"create", "run"})
      BY <1>19 DEF CreateEnds, Posting, Writes, Goto, TypeOK, records
    <2> QED BY <2>1, PairedKept
  <1>20. ASSUME Join PROVE Paired'
    BY <1>20 DEF Join, Paired
  <1>21. ASSUME DropNext PROVE Paired'
    <2>1. life' = life /\ life = "joined"
      BY <1>21, Apart DEF DropNext, OnePopper
    <2> QED BY <2>1 DEF Paired
  <1>22. ASSUME DropEnds PROVE Paired'
    BY <1>22 DEF DropEnds, Paired
  <1>23. ASSUME UNCHANGED state PROVE Paired'
    BY <1>23 DEF state, records, Paired, Posting, Writes
  <1> QED BY <1>1, <1>2, <1>3, <1>4, <1>5, <1>6, <1>7, <1>8, <1>9, <1>10, <1>11, <1>12, <1>13, <1>14, <1>15, <1>16, <1>17, <1>18, <1>19, <1>20, <1>21, <1>22, <1>23 DEF Step, JobStep, OwnStep, MainStep

LEMMA Pairing == Spec => []Paired
<1>1. Init => Paired
  <2> SUFFICES ASSUME Init PROVE Paired
    OBVIOUS
  <2>1. Posting = {} /\ Writes = {} /\ Len(queue) = 0
    BY DEF Init, Posting, Writes
  <2> QED BY <2>1, FS_EmptySet DEF Paired
<1>2. IInv /\ Paired /\ [Next]_vars => Paired'
  BY PairedStep, StepOrCrash DEF IInv
<1> QED BY <1>1, <1>2, Invariance, PTL DEF Spec

-----------------------------------------------------------------------------
(***************************************************************************)
(* The outputs that are listed are bound to slots, but for the one that is *)
(* being added; the other slots are of outputs that were replaced.         *)
(***************************************************************************)
Bound(k) == out[k] \in Outputs /\ conn[k] = out[k] /\ out[k] \in slots
Entries ==
  /\ \A k \in Keys \ listed : out[k] = NoOut /\ conn[k] = NoOut
  /\ \A k \in listed : Bound(k) \/ \E t \in All : pc[t] \in Adding /\ Key(arg[t]) = k
  /\ \A t \in All : pc[t] \in Adding => Key(arg[t]) \in listed
  /\ \A o \in slots : o \in replaced \/ \E k \in listed : out[k] = o
  /\ \A j, k \in listed : out[j] = out[k] /\ out[j] # NoOut => j = k

\* A service has the slot that it knows of, only while it is there, and those
\* that it was made to forget.
Served ==
  \A c \in Clients : /\ subs[c] = orphans[c] + (IF linked[c] THEN 1 ELSE 0)
                     /\ linked[c] => service[c] = "alive"

LEMMA OneAdder ==
  ASSUME TypeOK, Shape
  PROVE  /\ \A t, u \in All : pc[t] \in Adding /\ pc[u] \in Adding => t = u
         /\ strand = NoThread /\ life # "create" => \A t \in All : pc[t] \notin Adding
         /\ life = "create" /\ pc[Main] \notin Adding => \A t \in All : pc[t] \notin Adding
BY Apart DEF TypeOK, Shape, Adding, All

LEMMA EntriesKept ==
  ASSUME Entries, UNCHANGED outputs,
         \A t \in All : pc'[t] \in Adding \/ pc[t] \in Adding => pc'[t] = pc[t] /\ arg'[t] = arg[t]
  PROVE  Entries'
<1>1. UNCHANGED <<listed, out, conn, slots, replaced>>
  BY DEF outputs
<1>2. \A t \in All : pc'[t] \in Adding => pc[t] \in Adding /\ pc'[t] = pc[t] /\ arg'[t] = arg[t]
  OBVIOUS
<1>3. \A k \in listed' : Bound(k)' \/ \E t \in All : pc'[t] \in Adding /\ Key(arg'[t]) = k
  BY <1>1 DEF Entries, Bound
<1> QED BY <1>1, <1>2, <1>3 DEF Entries

LEMMA EnlistKeeps ==
  ASSUME TypeOK, Entries, NEW t \in All, NEW n \in Names, Enlist(t, n),
         \A u \in All : pc[u] \notin Adding
  PROVE  Entries'
<1>1. UNCHANGED <<out, conn, slots, replaced>> /\ Key(n) \in Keys
  BY KeyOfName DEF Enlist
<1>2. CASE pc' = [pc EXCEPT ![t] = "post"] /\ UNCHANGED <<listed, arg>>
  <2>1. \A u \in All : pc'[u] \notin Adding
    BY <1>2 DEF Adding, TypeOK
  <2> QED BY <1>1, <1>2, <2>1 DEF Entries, Bound
<1>3. CASE /\ pc' = [pc EXCEPT ![t] = "create"] /\ listed' = listed \cup {Key(n)}
           /\ arg' = [arg EXCEPT ![t] = n]
  <2>1. /\ pc'[t] = "create" /\ arg'[t] = n /\ \A u \in All \ {t} : pc'[u] \notin Adding
        /\ "create" \in Adding
    BY <1>3 DEF Adding, TypeOK
  <2>2. \A k \in listed' : Bound(k)' \/ \E u \in All : pc'[u] \in Adding /\ Key(arg'[u]) = k
    BY <1>1, <1>3, <2>1 DEF Entries, Bound
  <2>3. \A o \in slots' : o \in replaced' \/ \E k \in listed' : out'[k] = o
    BY <1>1, <1>3 DEF Entries
  <2>4. \A j, k \in listed' : out'[j] = out'[k] /\ out'[j] # NoOut => j = k
    BY <1>1, <1>3 DEF Entries
  <2>5. \A k \in Keys \ listed' : out'[k] = NoOut /\ conn'[k] = NoOut
    BY <1>1, <1>3 DEF Entries
  <2>6. \A u \in All : pc'[u] \in Adding => Key(arg'[u]) \in listed'
    BY <1>3, <2>1
  <2> QED BY <2>2, <2>3, <2>4, <2>5, <2>6 DEF Entries
<1> QED BY <1>2, <1>3 DEF Enlist, Goto

LEMMA AddOutputKeeps ==
  ASSUME TypeOK, Shape, Entries, NEW t \in All, NEW o \in Outputs, AddOutput(t, o)
  PROVE  Entries'
<1> DEFINE key == Key(arg[t])
<1>1. /\ pc[t] = "create" /\ o \notin slots /\ (\A j \in Keys : out[j] # o)
      /\ out' = [out EXCEPT ![key] = o] /\ pc' = [pc EXCEPT ![t] = "connect"]
      /\ replaced' = replaced \cup (slots \cap {out[key]})
      /\ UNCHANGED <<arg, listed, conn, slots>>
  BY DEF AddOutput, Goto
<1>2. /\ key \in Keys /\ pc[t] \in Adding /\ "connect" \in Adding /\ NoOut \notin Outputs
      /\ listed \subseteq Keys
  BY <1>1, KeyOfName, ConstantsAssumption DEF Shape, Adding, TypeOK
<1>3. key \in listed /\ \A u \in All \ {t} : pc[u] \notin Adding
  BY <1>1, <1>2, OneAdder DEF Entries
<1>4. /\ out'[key] = o /\ (\A k \in Keys \ {key} : out'[k] = out[k])
      /\ pc'[t] = "connect" /\ (\A u \in All \ {t} : pc'[u] \notin Adding)
  BY <1>1, <1>2, <1>3 DEF TypeOK
<1>5. \A k \in Keys \ listed' : out'[k] = NoOut /\ conn'[k] = NoOut
  BY <1>1, <1>3, <1>4 DEF Entries
<1>6. \A k \in listed' : Bound(k)' \/ \E u \in All : pc'[u] \in Adding /\ Key(arg'[u]) = k
  <2>1. \A k \in listed \ {key} : Bound(k)
    BY <1>3 DEF Entries
  <2>2. \A k \in listed \ {key} : Bound(k)'
    BY <1>1, <1>2, <1>4, <2>1 DEF Bound
  <2> QED BY <1>1, <1>2, <1>4, <2>2
<1>7. \A u \in All : pc'[u] \in Adding => Key(arg'[u]) \in listed'
  BY <1>1, <1>3, <1>4
<1>8. \A p \in slots' : p \in replaced' \/ \E k \in listed' : out'[k] = p
  <2> SUFFICES ASSUME NEW p \in slots, p \notin replaced, p # out[key]
               PROVE  \E k \in listed : out'[k] = p
    BY <1>1
  <2>1. PICK k \in listed : out[k] = p
    BY DEF Entries
  <2> QED BY <1>2, <1>4, <2>1
<1>9. \A j, k \in listed' : out'[j] = out'[k] /\ out'[j] # NoOut => j = k
  BY <1>1, <1>2, <1>4 DEF Entries
<1> QED BY <1>5, <1>6, <1>7, <1>8, <1>9 DEF Entries

LEMMA AddConnectKeeps ==
  ASSUME TypeOK, Shape, Entries, NEW t \in All, AddConnect(t)
  PROVE  Entries'
<1>0. PICK key \in Keys, o \in Outputs : key = Key(arg[t]) /\ o = out[key]
  BY KeyOfName DEF AddConnect, Shape, Adding
<1>1. /\ pc[t] = "connect" /\ slots' = slots \cup {o} /\ conn' = [conn EXCEPT ![key] = o]
      /\ pc' = [pc EXCEPT ![t] = "post"] /\ UNCHANGED <<listed, out, replaced>>
  BY <1>0 DEF AddConnect, Goto
<1>2. pc[t] \in Adding /\ "post" \notin Adding /\ listed \subseteq Keys
  BY <1>1 DEF Adding, TypeOK
<1>3. key \in listed /\ \A u \in All \ {t} : pc[u] \notin Adding
  BY <1>0, <1>2, OneAdder DEF Entries
<1>4. /\ conn'[key] = o /\ (\A k \in Keys \ {key} : conn'[k] = conn[k])
      /\ (\A u \in All : pc'[u] \notin Adding)
  BY <1>1, <1>2, <1>3 DEF TypeOK
<1>5. \A k \in Keys \ listed' : out'[k] = NoOut /\ conn'[k] = NoOut
  BY <1>1, <1>3, <1>4 DEF Entries
<1>6. \A k \in listed' : Bound(k)'
  <2>1. \A k \in listed \ {key} : Bound(k)
    BY <1>0, <1>3 DEF Entries
  <2>2. \A k \in listed \ {key} : Bound(k)'
    BY <1>1, <1>2, <1>4, <2>1 DEF Bound
  <2>3. Bound(key)'
    BY <1>0, <1>1, <1>4 DEF Bound
  <2> QED BY <1>1, <2>2, <2>3
<1>7. \A p \in slots' : p \in replaced' \/ \E k \in listed' : out'[k] = p
  BY <1>0, <1>1, <1>3 DEF Entries
<1>8. \A j, k \in listed' : out'[j] = out'[k] /\ out'[j] # NoOut => j = k
  BY <1>1 DEF Entries
<1> QED BY <1>4, <1>5, <1>6, <1>7, <1>8 DEF Entries

LEMMA DelKeeps ==
  ASSUME TypeOK, Entries, NEW t \in Threads, Del(t), \A u \in All : pc[u] \notin Adding
  PROVE  Entries'
<1> DEFINE n == Head(jobs)[2]
<1>1. /\ listed' = listed \ {n} /\ pc' = [pc EXCEPT ![t] = "post"]
      /\ IF n \in listed
           THEN /\ out' = [out EXCEPT ![n] = NoOut] /\ conn' = [conn EXCEPT ![n] = NoOut]
                /\ slots' = slots \ {conn[n]}
           ELSE UNCHANGED <<out, conn, slots>>
      /\ replaced' = replaced
  BY DEF Del, Goto
<1>2. \A u \in All : pc'[u] \notin Adding
  BY <1>1 DEF Adding, TypeOK
<1>3. listed \subseteq Keys /\ NoOut \notin Outputs /\ slots \subseteq Outputs
  BY ConstantsAssumption DEF TypeOK
<1>4. CASE n \notin listed
  <2>1. listed' = listed /\ UNCHANGED <<out, conn, slots, replaced>>
    BY <1>1, <1>4
  <2> QED BY <1>2, <2>1 DEF Entries, Bound
<1>5. CASE n \in listed
  <2>1. /\ n \in Keys /\ out'[n] = NoOut /\ conn'[n] = NoOut
        /\ (\A k \in Keys \ {n} : out'[k] = out[k] /\ conn'[k] = conn[k])
        /\ slots' = slots \ {conn[n]}
    BY <1>1, <1>3, <1>5 DEF TypeOK
  <2>2. \A k \in listed : Bound(k)
    BY DEF Entries
  <2>3. \A k \in listed' : Bound(k)'
    <3> SUFFICES ASSUME NEW k \in listed \ {n} PROVE Bound(k)'
      BY <1>1
    <3>1. Bound(k) /\ Bound(n) /\ k \in Keys
      BY <1>3, <1>5, <2>2
    <3>2. out[k] # conn[n]
      BY <1>3, <1>5, <3>1 DEF Bound, Entries
    <3> QED BY <2>1, <3>1, <3>2 DEF Bound
  <2>4. \A o \in slots' : o \in replaced' \/ \E k \in listed' : out'[k] = o
    <3> SUFFICES ASSUME NEW o \in slots, o \notin replaced, o # conn[n]
                 PROVE  \E k \in listed \ {n} : out'[k] = o
      BY <1>1, <2>1
    <3>1. PICK k \in listed : out[k] = o
      BY DEF Entries
    <3>2. k # n
      BY <1>5, <2>2, <3>1 DEF Bound
    <3> QED BY <1>3, <2>1, <3>1, <3>2
  <2>5. \A k \in Keys \ listed' : out'[k] = NoOut /\ conn'[k] = NoOut
    BY <1>1, <2>1 DEF Entries
  <2>6. \A j, k \in listed' : out'[j] = out'[k] /\ out'[j] # NoOut => j = k
    BY <1>1, <1>3, <2>1 DEF Entries
  <2> QED BY <1>2, <2>3, <2>4, <2>5, <2>6 DEF Entries
<1> QED BY <1>4, <1>5

LEMMA EntriesStep == ASSUME TypeOK, Shape, Entries, [Step]_state PROVE Entries'
  <1>1. ASSUME NEW t \in All, Emplace(t) PROVE Entries'
    <2>1. UNCHANGED outputs /\ arg' = arg /\ (pc' = pc \/ \E u \in All, l \in {"idle", "post", "quit", "emit", "drop"} : pc[u] \notin Adding /\ pc' = [pc EXCEPT ![u] = l])
      BY <1>1, Apart DEF Emplace, Goto, Adding, All, Calls, Free
    <2>2. \A u \in All : pc'[u] \in Adding \/ pc[u] \in Adding => pc'[u] = pc[u] /\ arg'[u] = arg[u]
      BY <2>1 DEF Adding, TypeOK
    <2> QED BY <2>1, <2>2, EntriesKept
  <1>2. ASSUME NEW t \in All, Post(t) PROVE Entries'
    <2>1. UNCHANGED outputs /\ arg' = arg /\ (pc' = pc \/ \E u \in All, l \in {"idle", "post", "quit", "emit", "drop"} : pc[u] \notin Adding /\ pc' = [pc EXCEPT ![u] = l])
      BY <1>2, Apart DEF Post, Goto, Adding, All
    <2>2. \A u \in All : pc'[u] \in Adding \/ pc[u] \in Adding => pc'[u] = pc[u] /\ arg'[u] = arg[u]
      BY <2>1 DEF Adding, TypeOK
    <2> QED BY <2>1, <2>2, EntriesKept
  <1>3. ASSUME NEW t \in All, Emit(t) PROVE Entries'
    <2>1. UNCHANGED outputs /\ arg' = arg /\ (pc' = pc \/ \E u \in All, l \in {"idle", "post", "quit", "emit", "drop"} : pc[u] \notin Adding /\ pc' = [pc EXCEPT ![u] = l])
      BY <1>3, Apart DEF Emit, Goto, Adding, All
    <2>2. \A u \in All : pc'[u] \in Adding \/ pc[u] \in Adding => pc'[u] = pc[u] /\ arg'[u] = arg[u]
      BY <2>1 DEF Adding, TypeOK
    <2> QED BY <2>1, <2>2, EntriesKept
  <1>4. ASSUME NEW t \in All, NEW o \in Outputs, AddOutput(t, o) PROVE Entries'
    BY <1>4, AddOutputKeeps
  <1>5. ASSUME NEW t \in All, AddConnect(t) PROVE Entries'
    BY <1>5, AddConnectKeeps
  <1>6. ASSUME NEW t \in Threads, Quit(t) PROVE Entries'
    <2>1. UNCHANGED outputs /\ arg' = arg /\ (pc' = pc \/ \E u \in All, l \in {"idle", "post", "quit", "emit", "drop"} : pc[u] \notin Adding /\ pc' = [pc EXCEPT ![u] = l])
      BY <1>6, Apart DEF Quit, Goto, Adding, All, Calls, Free
    <2>2. \A u \in All : pc'[u] \in Adding \/ pc[u] \in Adding => pc'[u] = pc[u] /\ arg'[u] = arg[u]
      BY <2>1 DEF Adding, TypeOK
    <2> QED BY <2>1, <2>2, EntriesKept
  <1>7. ASSUME NEW t \in Threads, Pop(t) PROVE Entries'
    <2>1. UNCHANGED outputs /\ arg' = arg /\ (pc' = pc \/ \E u \in All, l \in {"idle", "post", "quit", "emit", "drop"} : pc[u] \notin Adding /\ pc' = [pc EXCEPT ![u] = l])
      BY <1>7, Apart DEF Pop, Goto, Adding, All, Runs, Free
    <2>2. \A u \in All : pc'[u] \in Adding \/ pc[u] \in Adding => pc'[u] = pc[u] /\ arg'[u] = arg[u]
      BY <2>1 DEF Adding, TypeOK
    <2> QED BY <2>1, <2>2, EntriesKept
  <1>8. ASSUME NEW t \in Threads, AddBegin(t) PROVE Entries'
    <2>1. /\ jobs # << >> /\ Head(jobs)[1] = "add" /\ strand = NoThread /\ Enlist(t, Head(jobs)[2])
          /\ t \in All
      BY <1>8 DEF AddBegin, Runs, All
    <2>2. Head(jobs)[2] \in Names /\ Head(jobs) \notin {Write, Flush} /\ life # "create"
      BY <2>1, JobKinds, FrontJob DEF Shape, TypeOK
    <2> QED BY <2>1, <2>2, OneAdder, EnlistKeeps
  <1>9. ASSUME NEW t \in Threads, Del(t) PROVE Entries'
    <2>1. jobs # << >> /\ Head(jobs)[1] = "del" /\ strand = NoThread
      BY <1>9 DEF Del, Runs
    <2>2. life # "create"
      BY <2>1, JobKinds, FrontJob DEF Shape, TypeOK
    <2> QED BY <1>9, <2>1, <2>2, OneAdder, DelKeeps
  <1>10. ASSUME NEW t \in Threads, FlushAll(t) PROVE Entries'
    <2>1. UNCHANGED outputs /\ arg' = arg /\ (pc' = pc \/ \E u \in All, l \in {"idle", "post", "quit", "emit", "drop"} : pc[u] \notin Adding /\ pc' = [pc EXCEPT ![u] = l])
      BY <1>10, Apart DEF FlushAll, Goto, Adding, All
    <2>2. \A u \in All : pc'[u] \in Adding \/ pc[u] \in Adding => pc'[u] = pc[u] /\ arg'[u] = arg[u]
      BY <2>1 DEF Adding, TypeOK
    <2> QED BY <2>1, <2>2, EntriesKept
  <1>11. ASSUME NEW t \in Threads, NEW n \in Names, CallAdd(t, n) PROVE Entries'
    <2>1. UNCHANGED outputs /\ arg' = arg /\ (pc' = pc \/ \E u \in All, l \in {"idle", "post", "quit", "emit", "drop"} : pc[u] \notin Adding /\ pc' = [pc EXCEPT ![u] = l])
      BY <1>11, Apart DEF CallAdd, Goto, Adding, All, Dispatch
    <2>2. \A u \in All : pc'[u] \in Adding \/ pc[u] \in Adding => pc'[u] = pc[u] /\ arg'[u] = arg[u]
      BY <2>1 DEF Adding, TypeOK
    <2> QED BY <2>1, <2>2, EntriesKept
  <1>12. ASSUME NEW t \in Threads, NEW n \in Names, CallDel(t, n) PROVE Entries'
    <2>1. UNCHANGED outputs /\ arg' = arg /\ (pc' = pc \/ \E u \in All, l \in {"idle", "post", "quit", "emit", "drop"} : pc[u] \notin Adding /\ pc' = [pc EXCEPT ![u] = l])
      BY <1>12, Apart DEF CallDel, Goto, Adding, All, Dispatch
    <2>2. \A u \in All : pc'[u] \in Adding \/ pc[u] \in Adding => pc'[u] = pc[u] /\ arg'[u] = arg[u]
      BY <2>1 DEF Adding, TypeOK
    <2> QED BY <2>1, <2>2, EntriesKept
  <1>13. ASSUME NEW t \in Threads, NEW c \in Clients, Subscribe(t, c) PROVE Entries'
    <2>1. UNCHANGED outputs /\ arg' = arg /\ (pc' = pc \/ \E u \in All, l \in {"idle", "post", "quit", "emit", "drop"} : pc[u] \notin Adding /\ pc' = [pc EXCEPT ![u] = l])
      BY <1>13, Apart DEF Subscribe, Goto, Adding, All
    <2>2. \A u \in All : pc'[u] \in Adding \/ pc[u] \in Adding => pc'[u] = pc[u] /\ arg'[u] = arg[u]
      BY <2>1 DEF Adding, TypeOK
    <2> QED BY <2>1, <2>2, EntriesKept
  <1>14. ASSUME NEW t \in Threads, NEW c \in Clients, Unsubscribe(t, c) PROVE Entries'
    <2>1. UNCHANGED outputs /\ arg' = arg /\ (pc' = pc \/ \E u \in All, l \in {"idle", "post", "quit", "emit", "drop"} : pc[u] \notin Adding /\ pc' = [pc EXCEPT ![u] = l])
      BY <1>14, Apart DEF Unsubscribe, Goto, Adding, All
    <2>2. \A u \in All : pc'[u] \in Adding \/ pc[u] \in Adding => pc'[u] = pc[u] /\ arg'[u] = arg[u]
      BY <2>1 DEF Adding, TypeOK
    <2> QED BY <2>1, <2>2, EntriesKept
  <1>15. ASSUME NEW c \in Clients, Connect(c) PROVE Entries'
    <2>1. UNCHANGED outputs /\ arg' = arg /\ (pc' = pc \/ \E u \in All, l \in {"idle", "post", "quit", "emit", "drop"} : pc[u] \notin Adding /\ pc' = [pc EXCEPT ![u] = l])
      BY <1>15, Apart DEF Connect, Goto, Adding, All
    <2>2. \A u \in All : pc'[u] \in Adding \/ pc[u] \in Adding => pc'[u] = pc[u] /\ arg'[u] = arg[u]
      BY <2>1 DEF Adding, TypeOK
    <2> QED BY <2>1, <2>2, EntriesKept
  <1>16. ASSUME NEW c \in Clients, Destroy(c) PROVE Entries'
    <2>1. UNCHANGED outputs /\ arg' = arg /\ (pc' = pc \/ \E u \in All, l \in {"idle", "post", "quit", "emit", "drop"} : pc[u] \notin Adding /\ pc' = [pc EXCEPT ![u] = l])
      BY <1>16, Apart DEF Destroy, Goto, Adding, All
    <2>2. \A u \in All : pc'[u] \in Adding \/ pc[u] \in Adding => pc'[u] = pc[u] /\ arg'[u] = arg[u]
      BY <2>1 DEF Adding, TypeOK
    <2> QED BY <2>1, <2>2, EntriesKept
  <1>17. ASSUME Elapse PROVE Entries'
    <2>1. UNCHANGED outputs /\ arg' = arg /\ (pc' = pc \/ \E u \in All, l \in {"idle", "post", "quit", "emit", "drop"} : pc[u] \notin Adding /\ pc' = [pc EXCEPT ![u] = l])
      BY <1>17, Apart DEF Elapse, Goto, Adding, All
    <2>2. \A u \in All : pc'[u] \in Adding \/ pc[u] \in Adding => pc'[u] = pc[u] /\ arg'[u] = arg[u]
      BY <2>1 DEF Adding, TypeOK
    <2> QED BY <2>1, <2>2, EntriesKept
  <1>18. ASSUME CreateNext PROVE Entries'
    <2>1. life = "create" /\ pc[Main] = "idle" /\ made < Len(Default) /\ Enlist(Main, Default[made + 1])
      BY <1>18 DEF CreateNext
    <2>2. Default[made + 1] \in Names
      BY <2>1, NextDefault DEF TypeOK
    <2>4. \A u \in All : pc[u] \notin Adding
      BY <2>1, OneAdder DEF Adding
    <2> QED BY <2>1, <2>2, <2>4, Apart, EnlistKeeps
  <1>19. ASSUME CreateEnds PROVE Entries'
    <2>1. UNCHANGED outputs /\ arg' = arg /\ (pc' = pc \/ \E u \in All, l \in {"idle", "post", "quit", "emit", "drop"} : pc[u] \notin Adding /\ pc' = [pc EXCEPT ![u] = l])
      BY <1>19, Apart DEF CreateEnds, Goto, Adding, All
    <2>2. \A u \in All : pc'[u] \in Adding \/ pc[u] \in Adding => pc'[u] = pc[u] /\ arg'[u] = arg[u]
      BY <2>1 DEF Adding, TypeOK
    <2> QED BY <2>1, <2>2, EntriesKept
  <1>20. ASSUME Join PROVE Entries'
    <2>1. UNCHANGED outputs /\ arg' = arg /\ (pc' = pc \/ \E u \in All, l \in {"idle", "post", "quit", "emit", "drop"} : pc[u] \notin Adding /\ pc' = [pc EXCEPT ![u] = l])
      BY <1>20, Apart DEF Join, Goto, Adding, All
    <2>2. \A u \in All : pc'[u] \in Adding \/ pc[u] \in Adding => pc'[u] = pc[u] /\ arg'[u] = arg[u]
      BY <2>1 DEF Adding, TypeOK
    <2> QED BY <2>1, <2>2, EntriesKept
  <1>21. ASSUME DropNext PROVE Entries'
    <2>1. UNCHANGED outputs /\ arg' = arg /\ (pc' = pc \/ \E u \in All, l \in {"idle", "post", "quit", "emit", "drop"} : pc[u] \notin Adding /\ pc' = [pc EXCEPT ![u] = l])
      BY <1>21, Apart DEF DropNext, Goto, Adding, All
    <2>2. \A u \in All : pc'[u] \in Adding \/ pc[u] \in Adding => pc'[u] = pc[u] /\ arg'[u] = arg[u]
      BY <2>1 DEF Adding, TypeOK
    <2> QED BY <2>1, <2>2, EntriesKept
  <1>22. ASSUME DropEnds PROVE Entries'
    <2>1. UNCHANGED outputs /\ arg' = arg /\ (pc' = pc \/ \E u \in All, l \in {"idle", "post", "quit", "emit", "drop"} : pc[u] \notin Adding /\ pc' = [pc EXCEPT ![u] = l])
      BY <1>22, Apart DEF DropEnds, Goto, Adding, All
    <2>2. \A u \in All : pc'[u] \in Adding \/ pc[u] \in Adding => pc'[u] = pc[u] /\ arg'[u] = arg[u]
      BY <2>1 DEF Adding, TypeOK
    <2> QED BY <2>1, <2>2, EntriesKept
  <1>23. ASSUME UNCHANGED state PROVE Entries'
    BY <1>23, EntriesKept DEF state
  <1> QED BY <1>1, <1>2, <1>3, <1>4, <1>5, <1>6, <1>7, <1>8, <1>9, <1>10, <1>11, <1>12, <1>13, <1>14, <1>15, <1>16, <1>17, <1>18, <1>19, <1>20, <1>21, <1>22, <1>23 DEF Step, JobStep, OwnStep, MainStep

LEMMA ServedStep ==
  ASSUME TypeOK, Served, [Step]_state
  PROVE  Served'
<1>1. ASSUME NEW t \in Threads, NEW c \in Clients, Subscribe(t, c) PROVE Served'
  <2>1. /\ service[c] = "alive" /\ service' = service
        /\ subs' = [subs EXCEPT ![c] = subs[c] + 1] /\ linked' = [linked EXCEPT ![c] = TRUE]
        /\ orphans' = [orphans EXCEPT ![c] = IF linked[c] THEN orphans[c] + 1 ELSE orphans[c]]
    BY <1>1 DEF Subscribe
  <2>2. orphans[c] \in Nat /\ subs[c] = orphans[c] + (IF linked[c] THEN 1 ELSE 0)
    BY DEF Served, TypeOK
  <2>3. subs'[c] = orphans'[c] + 1
    BY <2>1, <2>2 DEF TypeOK
  <2> QED BY <2>1, <2>3 DEF Served, TypeOK
<1>2. ASSUME NEW c \in Clients, Disconnect(c), service' \in {service, [service EXCEPT ![c] = "gone"]}
      PROVE  Served'
  <2>1. /\ subs' = [subs EXCEPT ![c] = IF linked[c] THEN subs[c] - 1 ELSE subs[c]]
        /\ linked' = [linked EXCEPT ![c] = FALSE] /\ orphans' = orphans
    BY <1>2 DEF Disconnect
  <2>2. orphans[c] \in Nat /\ subs[c] = orphans[c] + (IF linked[c] THEN 1 ELSE 0)
    BY DEF Served, TypeOK
  <2>3. subs'[c] = orphans'[c] /\ ~linked'[c]
    BY <2>1, <2>2 DEF TypeOK
  <2> QED BY <1>2, <2>1, <2>3 DEF Served, TypeOK
<1>3. ASSUME NEW c \in Clients, Connect(c) PROVE Served'
  BY <1>3 DEF Connect, Served, TypeOK
<1>4. CASE UNCHANGED clients
  BY <1>4 DEF clients, Served
<1>5. UNCHANGED clients \/ \E c \in Clients : Connect(c) \/ Destroy(c) \/ \E t \in Threads : Subscribe(t, c) \/ Unsubscribe(t, c)
  BY DEF Step, state, JobStep, OwnStep, MainStep, Emplace, Post, Emit, AddOutput, AddConnect, Quit, Pop, AddBegin, Del, FlushAll,
         CallAdd, CallDel, Dispatch, Elapse, CreateNext, CreateEnds, Join, DropNext, DropEnds
<1> QED BY <1>1, <1>2, <1>3, <1>4, <1>5 DEF Unsubscribe, Destroy

LEMMA OutputsBound == Spec => [](Entries /\ Served)
<1>1. Init => Entries /\ Served
  BY DEF Init, Entries, Served, Adding
<1>2. IInv /\ Entries /\ Served /\ [Next]_vars => Entries' /\ Served'
  BY StepOrCrash, EntriesStep, ServedStep DEF IInv
<1> QED BY <1>1, <1>2, Invariance, PTL DEF Spec

-----------------------------------------------------------------------------
(***************************************************************************)
(* The theorems.                                                           *)
(***************************************************************************)
\* The log stays in its types (logger.cpp, subsys-logging.cpp): in particular
\* the strand runs only threads that are in the middle of a job, and a client
\* never loses more slots than it has.
THEOREM TypeCorrect == Spec => []TypeOK
<1>1. IInv => TypeOK
  BY DEF IInv
<1> QED BY <1>1, Invariance, PTL

\* do_write and drop_all give each record to the slots once, in the order of
\* its emplace, for any number of threads that emplace and run the strand.
THEOREM RecordsInOrder == Spec => []InOrder
<1>1. IInv => InOrder
  BY DEF IInv, Numbered, InOrder, TypeOK
<1> QED BY <1>1, Invariance, PTL

\* When main has come to its end, drop_all has left no record in the queue
\* and no thread holds one: all that was emplaced has been written.
THEOREM AllWrittenAtEnd == Spec => []NothingLost
<1>1. ASSUME IInv, life = "done" PROVE Len(written) = emplaced
  <2>1. Emitting = {}
    BY <1>1 DEF IInv, OnePopper, Emitting, All
  <2>2. queue = << >>
    BY <1>1 DEF IInv, OnePopper
  <2> QED BY <1>1, <2>1, <2>2 DEF IInv, Numbered, Ahead, TypeOK
<1>2. IInv => NothingLost
  BY <1>1 DEF NothingLost
<1> QED BY <1>2, Invariance, PTL

\* What is emplaced is written: once, in its order, and all of it at the end.
THEOREM RecordsWrittenInFull == Spec => []WrittenInFull
<1>1. InOrder /\ NothingLost => WrittenInFull
  BY DEF WrittenInFull
<1> QED BY <1>1, RecordsInOrder, AllWrittenAtEnd, PTL

\* do_write never takes front( ) of an empty queue: while the strand may run,
\* there are at least as many records in the queue as jobs that write one.
THEOREM FrontIsThere == Spec => []WritesHaveRecords
<1>1. TypeOK /\ Paired => WritesHaveRecords
  <2> SUFFICES ASSUME TypeOK, Paired, life \in {"create", "run"}
               PROVE  Cardinality(Writes) <= Len(queue)
    BY DEF WritesHaveRecords
  <2>1. Cardinality(Writes) \in Nat
    BY WritesFinite DEF TypeOK
  <2>2. Cardinality(Posting) \in Nat /\ Len(queue) = Cardinality(Writes) + Cardinality(Posting)
    BY FS_CardinalityType DEF Paired
  <2> QED BY <2>1, <2>2
<1> QED BY <1>1, Pairing, TypeCorrect, PTL

\* Adding, deleting, subscribing and losing connections leave no slot without
\* its output or service but those that a second add of a name or a second
\* subscribe gives up; and flush_all finds an output in every entry but the one
\* that create is adding.
THEOREM OutputsStayLive == Spec => []OutputsLive
<1>1. TypeOK /\ Shape /\ Entries /\ Served => OutputsLive
  <2> SUFFICES ASSUME TypeOK, Shape, Entries, Served PROVE SlotsHaveTargets /\ FlushFindsOutputs
    BY DEF OutputsLive
  <2>1. SlotsHaveTargets
    <3>1. ASSUME NEW c \in Clients, subs[c] > orphans[c] PROVE linked[c]
      BY <3>1 DEF Served, TypeOK
    <3> QED BY <3>1 DEF SlotsHaveTargets, Entries, Served
  <2>2. ASSUME strand = NoThread, NEW k \in listed, out[k] = NoOut
        PROVE  life = "create" /\ pc[Main] = "create" /\ k = Key(arg[Main])
    <3>1. PICK t \in All : pc[t] \in Adding /\ Key(arg[t]) = k
      BY <2>2, ConstantsAssumption DEF Entries, Bound
    <3>2. life = "create" /\ t = Main
      BY <2>2, <3>1, OneAdder DEF Shape, All
    <3>3. pc[Main] # "connect"
      BY <2>2, <3>1, <3>2, ConstantsAssumption DEF Shape
    <3> QED BY <3>1, <3>2, <3>3 DEF Adding
  <2> QED BY <2>1, <2>2 DEF FlushFindsOutputs
<1>2. IInv => TypeOK /\ Shape
  BY DEF IInv
<1> QED BY <1>1, <1>2, OutputsBound, Invariance, PTL
=============================================================================
