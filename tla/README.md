# ferro-remote: specification, model checking and proofs

ferro-remote lets a client drive the hardware of a remote Linux board. An
**agent** (`src/agent`) runs on the board: it accepts RPC connections (vtrc),
serves GPIO, I2C, SPI, files, a shell, its log, and answers discovery pings. A
**client core** (`src/client-core`) wraps the RPC stubs in blocking proxies and
dispatches the events the agent sends; a console, a Lua, a FUSE and a Qt client
are built on it. All the difficulty is in the agent's and the client core's
concurrency: RPC calls run on a pool of threads, kernel events arrive on a
reactor thread, timers and asynchronous sends on a pool with strands, and
connections disappear at any moment.

This directory holds TLA+ modules translated from the source, TLC
configurations that check them on small instances, and TLAPS proofs of every
safety and action property that is checked, for every instance. `PROJECT.json` is the index: it
maps each definition to the lines it models, lists the runs, the mutants that
show that each property can fail, the hazards of the code and the theorems.

## 1. Inventory

### 1.1 Agent

| component | state | operations | interacts with |
|---|---|---|---|
| event reactor (`poll-reactor.*`, `subsys-reactor.*`, `file-keeper.h`) | epoll set, `react_` (descriptor -> keeper and callback), `react_lock_`, stop event, thread | `add_fd`, `del_fd`, `run_one`, `start`, `stop` | called by GPIO and files on pool threads; calls their handlers **with `react_lock_` held**; its keepers close the descriptors |
| GPIO (`subsys-gpio.*`, `gpio-helper.*`) | per client: handles, `gpio_lock_`; shared: `devices_` (weak, by pin); per pin: `value_fd_`, `connections_` and its lock | open, close, setup, set/get, register/unregister for change, disconnect | the reactor runs `reactor_handler`, which posts to a strand that runs the clients' callbacks |
| files (`subsys-fs.*`, `files.*`) | per client: path, iterator and file handles | cd, stat, mkdir, iterate, clone; open, read, write, seek, register for events | the reactor (device files) |
| log (`logger.*`, `subsys-logging.*`) | record queue, strand, named outputs, flush timer, subscriptions | `send_data`, `do_write`, `drop_all`, add/delete output, subscribe | everything logs; main drains it at the end |
| application (`application.*`, `main.cpp`) | subsystems in order, `services_`, `services_lock_`, pools | `init/start/stop_all`, register/get service, `quit`, `run` | every subsystem |
| listeners, multicast, network interfaces | listeners; multicast points; interface table | start/stop, accept; receive, answer | the pools; the network |
| I2C, SPI (`*-helper.*`) | handles (`index_`, `index_map`), bus descriptors | open, close, transfer lists | `/dev` |
| OS, configuration, Lua shell | none beyond a call; command line | run a command; read options | |

What makes each hard and what makes it correct:

- **Reactor.** `del_fd` takes a descriptor out of epoll *before* it takes
  `react_lock_`; an event returned by `epoll_wait` is looked up later and may be
  of a number that was closed, reused and registered again; a failing
  `epoll_ctl` closes the caller's descriptor through its keeper; a callback runs
  under the lock. Correct: epoll set and `react_` agree, a callback runs through
  an entry that stays, the code that registers sees one callback at a time, stop
  terminates, events are taken up.
- **GPIO.** Three locks, a weak registry, raw pointers bound into reactor
  handlers and into the strand's queue, a descriptor that is closed twice.
  Correct: nothing runs for a closed handle or a destroyed pin, subscribers see
  events in order and only while subscribed, no circular wait, an answered
  registration is watched.
- **Log.** A record and the job that writes it are queued separately and paired
  only by counting; outputs are bound raw into signal slots; main changes
  outputs before the strand is the only one to do so; quit strikes anywhere.
  Correct: one record, one write, in order; no write of an empty queue; nothing
  lost at the end; no slot without its target.
- **Files.** An offset shared by concurrent calls; descriptors owned twice, by
  the file and by the reactor's keeper; a handler that re-enters the reactor's
  lock and is bound to the service; clone that answers the old handle. Correct:
  a descriptor is closed by the file that opened it and is not left open; no
  handler remains when its handle is closed; a positional read leaves no trace;
  every handle created is known to the client, but an iterator's whose begin threw.
- **Application.** Start and stop in opposite orders, factories called under the
  registry's lock, `quit` on a thread of the pool it stops. Correct: a subsystem
  uses only started ones; no factory waits for its own lock; main returns.
- **Listeners, multicast.** A receive loop is re-armed by its own handler: an
  error ends it. Correct: a started point goes on receiving until stopped.
- **I2C, SPI.** Lists that fail half-way; words kept in a byte; references into
  a map after its lock was released.

### 1.2 Client side

| component | state | operations | hard |
|---|---|---|---|
| client core (`fr-client.cpp`) | connection, `acb_` under `acb_lock_` | connect, disconnect, register/unregister operation, `async_op` | callbacks run with `acb_lock_` held |
| proxies (`impl/*`) | remote handle | one RPC per call; register for events | the callback is registered after the call that starts the events; it outlives the proxy |
| discovery (`fr-discover.cpp`) | socket, timer, handler | ping, receive, timeout | a timer or completion of an earlier ping meets a later one |
| Lua client, events (`event-queue.cpp`, `event-caller.cpp`, `modules/console.cpp`, `main.cpp`) | timers, posted calls, console reader, two pools | post, timer, cancel, subscribe, teardown | `timers_` is used by two threads without a lock; the teardown races with handlers |
| Lua client, objects (`modules/*`) | per module: handles, proxies, event containers | open, use, subscribe, close, collect; connect, reinit | objects of an old connection; events of closed ones |
| FUSE client (`fuse-client`) | `files_`, `dirs_`, `offset_`, connection, retry timer | open, read, write, readdir, release; connect, retry | calls in progress during a reconnect; a trusted offset |
| console (`console-client`) | proxies by address, handlers by name | connect, open, register, close | handlers run on the rpc thread in the script's Lua state; addresses come again |
| Qt client | views | one proxy call each | - |

What makes each correct:

- **Client core and proxies.** A handle and an operation id reach only what their
  owner opened; only events that arrive before their registration are lost; after
  `unregister` returns nothing more comes; no call waits for ever.
- **Discovery.** One receive at a time; each ping is told how it ended; a point
  answers who asked.
- **Lua client.** Every timer is told; the console is read until the script
  gives it up; the teardown ends and nothing runs in a module that is gone;
  what the client believes open is open at the agent; closed files are silent.
- **FUSE client.** Bytes are moved at the offset that was asked for; the agent
  holds what the kernel holds; a lost connection comes back; calls return.
- **Console.** Agent and script agree; a handler is the one that was registered.

### 1.3 Shared code

`include/utils` holds containers that no source file of this commit includes;
`protocol` the message definitions; `hub-core` is an empty program in this
commit. vtrc, Lua and `struct.c` are external: a submodule and vendored code.

`PROJECT.json` lists 29 components one by one with their status, and
40 hazards, each at its line with the properties that cover it or the reason why
none does.

## 2. Plan

In the order of importance; a module that uses another is after it.

1. `EventDispatch` (abstract reactor), `PollReactor` - done, with proofs
2. `GpioEvents`, on top of `EventDispatch` - done, with proofs
3. `Logging` - done, with proofs
4. `FileService`, on top of `EventDispatch` - done, with proofs
5. `ClientOperations`: client core, proxies and the agent's numbering - done,
   with proofs
6. `AgentLifecycle`: subsystem order, registry, listeners, quit and join - done,
   with proofs; it justifies the `life` of `Logging` and of `PollReactor`
7. `Discovery`: the pinger and the points over a network that loses - done,
   with proofs
8. `LuaEvents`, `LuaObjects`: the Lua client's threads, and its objects - done,
   with proofs
9. `Mounts`: the FUSE client over connections that are lost - done, with proofs
10. `Devices`: I2C and SPI - done, with proofs
11. `Console`: the console client's Lua command - done, with proofs

Every invariant and action property of a run is stated by a theorem, and so are
the types of every component's variables. Left: the liveness properties, which are beyond the
prover (section 7), and abstract specifications for other components than the
reactor; the first candidate is what a proxy of the client core promises to the
programs that use it, on which `LuaObjects`, `Mounts` and `Console` could be built.

## 3. Modules

### 3.1 EventDispatch

What `agent/poll-reactor.h` promises to the code that registers with it: `reg`
(descriptor -> callback) changes only while no callback runs, a callback that
runs is the one registered. `PollReactor` is shown to implement it, and
`GpioEvents` is built on it (`Reactor == INSTANCE EventDispatch`), so that the
nine steps of the reactor need not be interleaved with those of the pins.

### 3.2 PollReactor

| model | code |
|---|---|
| `open`, `interest`, `ready` | the descriptor table, the epoll set, events not yet returned |
| `react`, `lock` | `react_`, `react_lock_` |
| `pc`, `arg`, `cbArg` of each thread | where a pool thread is in `add_fd` or `del_fd` |
| `phase`, `cur`, `running` | where the reactor thread is in `run_one` and `make_callback` |
| `life`, `stopReady` | `thread_` and the stop event of subsys-reactor |

Every lock, system call and container access that another thread can observe is
an action: `AddLock`, `AddNew`, `AddInsert`, `AddModify`, `AddFails` (which closes
the descriptor, as the keeper's destructor does), `DelCtl` (outside the lock),
`DelErase`, `EpollReturn`, `DispatchFound`, `DispatchNotFound`, the three ways a
callback ends (`CallbackKeeps`, `CallbackDrops`, `CallbackSelfDeletes`), start,
stop and join. `OwnerClose` is a close by the descriptor's other owner, behind
the reactor's back. `SelfDeleting` are callbacks that call the reactor's own
`del_fd`, as the file event handler does: the mutex is not recursive, the thread
is `"stuck"`, and the state is kept as it is.

### 3.3 GpioEvents

A handle has its own `pc`: the call in progress on it. Locks are `glock` (per
client), `clock` (per pin) and, through `EventDispatch`, `react_lock_` (`firing`).
Helpers are objects that are created once; a destroyed helper is one that no
handle holds (`~Alive`). `fd`, `file` and `watched` keep apart what the helper
believes (`value_fd_`), who opened a number and what epoll watches, since
`del_fd` closes a number that the helper goes on naming and closes again. Two
opens of a pin may overlap: each reads `value_fd_` unset and opens a number of its
own, the later overwrites the earlier (`OpenValue`), and a number that was in
use is `lost`. A call passes the number it has read (`arg`, `Passing`) to the
reactor, whatever the helper names by then.
`queue` is the strand; `Event`, `Handler` and `StrandStep` follow an edge from
epoll to the client. A use of a destroyed helper sets `crashed`, after which
nothing happens.

### 3.4 Logging

`queue`, `hand` and `written` are the records before, in and after `do_write`;
they are numbered as emplaced. `jobs` and `strand` are the boost strand: FIFO, at
most one thread. Public operations post (`CallAdd`, `CallDel`), the strand runs
(`Pop`, `AddBegin`, `Del`, `FlushAll`). `add_logger` is four steps
(`AddBegin` or `CreateNext`, `AddOutput`, `AddConnect`, `Post`), since writes do
not run between them on the strand but do while main runs `create`. `life` is
main: create, run, stopping (quit has stopped the pools: no *new* job or call is
started, threads finish what they do), joined, done.

The code is used as it allows: a name that has an output is added again, which
destroys the output and leaves its slot (`replaced`); a client subscribes twice,
after which its service no longer knows of the first slot (`orphans`); a file may
not open; the flush timer may fire while `create` is still adding. Writing to such
a slot, or a flush that walks `connections_` then, is undefined: `Crash` is a step
that may be taken instead (`BadSlots`, `BadEntries`), after which nothing happens.

### 3.5 FileService

| model | code |
|---|---|
| `files`, `lock` | `files_`, `files_lock_` as a `close` holds it (other uses are atomic) |
| `fdOf`, `desc`, `pos` | `fd_` of a file; who opened a number by now; the kernel's offset |
| `pc`, `hdl`, `req`, `saved` | an RPC thread: where it is, the `file_sptr` it holds, its request, `pos` of `read` |
| `reg`, `firing` | the reactor, through `EventDispatch`; callbacks are handles |
| `life`, `todo` | the connection, and how far the service's destructor is |
| `cursor`, `handed`, `stolen` | history: where the client believes the file to be; numbers that went to the reactor; numbers closed under another owner |

A call takes its file with `GetFile` and ends at `"end"`; `End` gives the file
up, and the last owner's `Return` closes the number the file *names*, whoever has
it by now (`CloseFor`). `read` and `write` at a position are four steps
(`SavePosition`, `Place`, `TransferEnds`, `SetBack`), as the code has no lock across
them; a write may take several transfers. `DelFd` closes the number when the
reactor has an entry, since its keeper does, as does an `add_fd` that fails
(`AddFdFails`). An event handler reads from the number it was made with. When the
connection is gone it calls `del_fd` under the reactor's lock and no step leads
out of it. `OtherOpens` and `OtherCloses` are the rest of the agent, which takes
and gives back numbers.

`Devices` are files opened `as_device` (no seek, offset 0 after each transfer),
`Shared` handles are used by several calls at a time: what is promised of the
others needs that a handle's calls follow one another.

### 3.6 ClientOperations

| model | code |
|---|---|
| `counter`, `index` | `id_` of the agent's reactor, which numbers most handles and operations; the I2C and SPI services' own counters |
| `table`, `subs` | the handle maps of a connection's services; the operation ids the agent sends events for |
| `asked`, `wire`, `pool` | requests under way; answers and events, in one order; events waiting for the rpc thread |
| `acb`, `running`, `inside` | `acb_`; the callback that holds `acb_lock_`; the proxy it calls |
| `pc`, `hdl`, `opened`, `got`, `quiet` | where each proxy's call is, its handle and connection, the id a registration was answered with |

A proxy is opened, used, registered, unregistered and destroyed by its thread
(`ThreadCalls`, `Destroy`) or used by a callback (`CallbackCalls`), over
connections that are lost and made again (`Connect`, `Disconnect`). A registration
is two steps, as in the code: the answered call and `RegisterAsync`. Callbacks only
make calls that use a proxy; one that registers waits for `acb_lock_`, which it
holds (the mutant `CallbackRegisters`).

### 3.7 AgentLifecycle

`at` and `ep` are how far `start_all` has come in `main`, `left` how far a quit has
come backwards through the same `Order`. A factory runs under `services_lock_`
(`GetService`, `FactoryEnds`). `ExitProcess` and `Quit` are a quit on an rpc thread,
with the join of the reactor's thread and the stop of the pools as steps of
their own. Two quits that both meet `thread_` join it twice (`crashed`).

### 3.8 Discovery

The pinger (`AsyncPing`, the handlers of send, receive and timer, run by one
thread of its io_service) with the completions that are not handled yet in
`done`, each of which reaches the handler of the *present* ping; the network, which
loses and delays; the agent's points (`Request`, `HandleReceive`, `Respond`), whose
receive is armed again by the handler only, beside the listeners that main still
adds (`AddListener`: a vector that grows under a loop, `grown`). Addresses are
numbers and a network is the number of bits of its host part, so that
`iface_info::check` is a division. Only code under `#if 0` of
`lua-client/main.cpp` uses the pinger in this commit.

### 3.9 LuaEvents and LuaObjects

The Lua client has a Lua thread, an io thread and an rpc thread. `LuaEvents` has
the first two: timers with their handlers (`TimerHandler`, which tells the script
also of an abort), posted calls in `posts`, the console reader, which
has the number STDOUT_FILENO to itself (`stdout`), and the teardown (`StopPool`, `JoinPool`, `Deinit`). `timers_`, the event
map and Lua's registry are used by both threads without a lock: a step that meets
such a use may go wrong (`crashed`) or be serialised.

`LuaObjects` has what the modules keep: a handle has a `class`, its object, its
event container, the userdata that holds it (`held`), and what the agent has
open. Every call of the script is one step, as no other thread uses a module's
maps; events come by `Event`, `Deliver` (a container is locked through its weak
pointer) and `PostCall`. Opens may fail half-way: `GpioExportFails`, and `IterBeginFails`, after
which the agent may keep an iterator that nobody knows (`strays`). Connections end
and are made anew, and `OnReady` makes the modules' own proxies again, one by one
(`made`), and may throw after any of them (`threw`).

### 3.10 Mounts

A thread of the FUSE loop has a `pc` in the handler and a `call`; a remote call and
what is done with its answer are steps of their own. `offset` is `offset_`,
`position` the agent's. `conn`, `armed`, `link` and `session` are `try_connect`, which the
retry timer, `init` and `on_disconnect` run; `fs` and `dressed` tell a new `fs_` from
one whose callbacks are set, since it is published before they are. A call may be
given up while the agent makes it, and an `opendir` may throw after the agent inserted
its iterator (`late`). A transfer that fails may have moved a part before it did, as the
agent's loop of writes does (subsys-fs.cpp:840-845): the agent's position is then not the
client's (`disturbed`). `left` is what an iterator has before it, `ended` the client's
`end_`, which a `next` that fails does not set. The agent's half is that of
`subsys-fs.cpp`.

### 3.11 Devices

A handle is a proxy, an entry of the agent's map and a descriptor. A call on a
list takes one item after the other, other calls in between; each item finds the
slave's address in the descriptor. SPI calls hold a reference into `index_map`
and no owner, I2C calls a shared pointer. `Kept` is what remains of a word in the
code.

### 3.12 Console

The script's calls, the proxies by address (`addr`; an address that was freed is
given again), registrations `<<o, n>>` under the globals `call@<address>` (`named`) and
`refs.<address>` (`refs`), the callbacks in the client core (`acb`) and the handler
that the rpc thread runs in the script's own Lua state. Both threads in that
state at once may break it (`Race`, `broken`) or pass. The agent's answer to `unregister`
and the clearing of the two names (`Cleared`) are two steps with handlers between them.
What an open leaves at the agent when it throws is in `Left`: a pin that is closed at
once, or an iterator (or any object whose answer was given up) that stays there until
the connection ends (`strays`). `InitThrows` is the connection that comes up while
`general_init` fails: no `fr.client`, and the old tables. Handlers only use proxies: one that
registers or closes waits for `acb_lock_` for ever, as in 3.6.

### 3.13 MC modules and proofs

An `MC*` module declares the model values of a run, its symmetry set and the
sequences a cfg cannot write. The theorems are in eight modules:
`PollReactorProofs`, `GpioEventsProofs`, `LoggingProofs`, `FileServiceProofs` and
`MountsProofs` each extend one component; `AgentProofs` extends `AgentLifecycle`,
`Discovery` and `Devices`, `ClientProofs` extends `ClientOperations` and `LuaObjects`,
and `ScriptProofs` extends `LuaEvents` and `Console`. Components that share a proof
module share no name, which is why some have names like `DiscoveryInit`,
`ConsoleSpec` or `ObjectsNext`; no theorem relates two of them.

## 4. Runs

`CHECK_DEADLOCK FALSE` is set where the system really stops: after a crash, after
main's end, with a stuck reactor, or when a bounded count of handles, events or
records is used up.

| run | bounds | states | shows |
|---|---|---|---|
| `reactor` | 2 threads, 2 descriptors, 2 callbacks, one self-deleting | 57 752 | epoll set and `react_` agree; implements `EventDispatch`; stop ends, events are taken up |
| `gpio` | a pin, 2 clients, 2 handles, 2 helpers, 2 numbers that are used again, 2 events | 500 311 | no dangling subscriber or handler, order of events, every call returns |
| `log` | 2 threads and main, 4 records, 2 default outputs and a call that adds or deletes, 4 names of which two are one output and one is a file, 1 client with up to 2 slots | 587 871 | pairing of jobs and records, one record one write in order and none lost, which slots and entries have their target |
| `file_calls` | 2 threads, a regular file used by one call at a time and a shared device, 2 numbers, offsets 0 and 1 | 5 095 818 | numbers closed only by who opened them unless they went to the reactor, none left open, no handler of a closed handle, offsets as the client computes them |
| `client_calls` | every interface with a second proxy, 2 connections, 4 numbers, 1 event | 254 852 | no handle or event reaches another's object; nothing after unregister; only early events are lost; calls return |
| `agent_exit` | 2 rpc threads, 2 clients, 2 listeners | 207 885 | factories and registry agree, no client is left, the process ends |
| `discovery` | 2 pings from two networks, a point, 2 listeners | 91 543 | one receive at a time, answers to who asked, each ping ends |
| `lua_events` | a timer, 2 readers, a line, a posted call | 607 001 | timers are told, the console is read, teardown is clean and ends |
| `lua_objects` | 2 objects of any kind, 2 connections, 1 posted event | 1 125 828 | script, modules and agent agree; closed files are silent |
| `mount` | a thread, a file, a directory, 2 connections, requests of up to 2 bytes | 248 488 | offsets, agreement with the agent, the mount comes back, calls return |
| `devices` | 2 calls, 2 I2C handles on one bus, an SPI device, lists up to 2 | 3 741 411 | slaves, descriptors, and what callers are told |
| `console` | a pin, a file, an iterator, a bus, 2 addresses, 2 connections | 2 342 853 | agreement with the agent, handlers find theirs |

Why the bounds are enough to be worth something: the races of the reactor are
between one adder, one deleter and the reactor thread over one descriptor; the
second descriptor makes a wait behind another event and a reuse possible. A pin
shared by two handles has all the cases of the first and the last subscriber, two
helpers for one number the reopening under a number that was closed, and two
numbers for one helper the two opens that overlap. Three action constraints keep
the run small and lose nothing that the properties tell apart: handles, clients
and helpers that are alike are used in one order (`FirstFirst`), a client that
never opens the pin does not come and go (`UsersLeave`), and open(2) gives the
lowest number that is free (`LowestFree`), as it does for outputs in `log`. In the
log a job that takes another thread's record needs two threads; main writes at
both ends; three outputs are what two defaults and one more add need. Two files, two
numbers and the rest of the agent are what it takes for a number to change hands
between the reactor's close and the file's; an offset of 0 or 1 tells a position
that was set back from one that was not.

On the client side two proxies of one interface over two connections are what a
number needs to be given twice; two rpc threads are a quit beside a factory or
beside another quit; two pings are an earlier one's timer and a later one's
socket. The mount's invariants were checked with two threads of the kernel
(20 891 192 states, without liveness), the console's with an object that is
registered twice (21 322 271 states); two timers of the Lua client without a
console have 36 099 states. Two addresses for four objects make an address come
again while its old registration is still in `acb_`. The theorems of section 6
remove the bounds for what they state.

Every property of a run has a mutant: a definition of the model changed as a
plausible bug would change the code (a lock not released, a job posted to the
pool and not to the strand, a listener started first ...), under which TLC finds
the property violated.

## 5. Fairness

- `PollReactor`: strong fairness for a pool thread and for the reactor's dispatch,
  which wait for `react_lock_`: the lock is free infinitely often and a Linux
  mutex does not pass over a waiter for ever. Strong fairness for `EpollReturn` of
  each descriptor and of the stop event: the kernel's ready list is a FIFO. Weak
  fairness for a callback's return and for join. A callback that deletes its own
  descriptor does stop the reactor for good: `StopCompletes` and `EventHandled`
  except the state `"stuck"` by name.
- `GpioEvents`: strong fairness for each handle's call (it waits for locks) and
  for the strand; weak for the handler, which holds its lock already.
- `Logging`: strong fairness for the pool running *some* job of the strand (a
  thread may be busy elsewhere at any moment, but is idle again and again), weak
  for the steps of a thread in the middle of something, and for main.
- `ClientOperations`: the agent answers each request, the pools run, and a mutex
  that is free again and again is taken (strong, `CallbackEnds` with calls inside).
- `AgentLifecycle`: main goes on, factories return; strong for a quit, which may
  find `services_lock_` taken while clients are served.
- `Discovery`: timers end, sends end, the io_service runs its handlers; nothing of
  the network or the agent.
- `LuaEvents`: both threads run; a timer expires; strong for its handler, beside
  which the console's handlers run on the same thread.
- `Mounts`: threads and timer run; strong for a connection that is tried again
  and again, that is, the agent is there in the end.

No fairness is assumed of clients, scripts, kernel events, the flush timer, lost
connections or quit: they may happen or not.

## 6. Proofs

Each theorem rests on the assumption its component's module names
(`ConstantsAssumption`, `LifecycleAssumption`, `ProxiesAssumption` ...: that special
values are not members of the sets, that bounds are numbers), which TLC evaluates in
that component's run. No theorem assumes more of the code's use than the model
does. Every proof has the same shape: an invariant that is inductive, a lemma
for each action or group of actions that says it is preserved, and the property
as a consequence.

**PollReactorProofs.** `TypeCorrect`, `OrphanFree`, `RegisteredIsWatched`,
`EpollStaysAgreed` (the two as the run checks them), `CallbackStaysRegistered`,
`Refinement`. The safety properties are not inductive: `NoOrphanWatch` needs to
know that a thread between `epoll_ctl` and the insertion holds the lock, and that
what it inserts is not registered; `WatchedUnlessLost` has to be extended to the
entry that is about to be inserted. `IInv` adds who may hold the lock (`Locking`)
and that extension (`Watched`). `Refinement` maps each action to a step of
`EventDispatch` or to a stutter; that `react_` does not change while a callback runs
comes from `Locking` and `CallbackIsRegistered`.

**GpioEventsProofs.** `TypeCorrect`, `SubscribersStayOpen`, `HandlersLive`.
`Membership` says at which points of its calls a handle may be in `connections_`.
`HandlersLive` rests on `Handlers`: a registered number that no overlapping open has
taken from `value_fd_` belongs to a helper one of whose handles has still to pass
`del_reactor_action`, so that the last one to go finds it and takes it out; and on
who holds `connections_lock_` (`Locked`) while a call has read the number and not
passed it on, which is the helper's still, or `lost` (`Passed`). `EventsInOrder` is `SentAsSubscribed`:
the strand's queue is sorted, what has been sent is older than all of it
(`Ordered`), and only handles whose client has asked are in `connections_` (`Asked`).

**LoggingProofs.** `TypeCorrect`, `RecordsInOrder`, `AllWrittenAtEnd`,
`RecordsWrittenInFull` (the two as the run checks them). The invariant `Numbered`
lays the records out in a row: written, in a hand, queued. It needs that at most
one thread has popped and not yet written (`OnePopper` and the ownership of the
strand in `TypeOK`), and for the shutdown that main pops only after all others are
idle. `Shape` carries what the types need: that `create` finishes before anything
but writes and flushes can be posted, and that a client whose `connect_` is set has
a slot. `FrontIsThere` is `WritesHaveRecords`: while jobs are posted the queue is as long
as there are writes in the strand and threads about to post one (`Paired`). The
writes are counted as a set of positions, and a bijection between the positions
before and after `Pop` takes the place of an induction over the sequence.
`OutputsStayLive` is `OutputsLive`: each listed name has an output with a slot, or
one thread that is adding it, no two have the same, and a slot that no listed
name has is one that was replaced (`Entries`); a client's slots are the one its
service knows of and those it was made to forget (`Served`).

**FileServiceProofs.** `TypeCorrect`, `ClosedByOwner`, `NoneLeaks`, `HandlersBelong`,
`DescriptorsStayOwned` (the three as the run checks them). Ownership is the
argument of the first two: before a number is handed to the reactor,
`desc[fdOf[h]] = h` for every file that still exists (`Owned`), and only numbers that
were handed over have an entry or a running handler (`HandedOver`), so that no
close meets another's number. `HandlersBelong` needs that a handle that is not
shared has one call (`OneCall`), which keeps it in `files_` (`InTable`), and that a
close which has passed `del_fd`, like the destructor, leaves no entry behind
(`Unwatched`). `ClientKnowsPosition` is `CursorAgrees`: between the calls on a file
that is neither shared nor a device the kernel's offset is the client's, and at
each step of a call it is what the request says (`Positioned`), `SetBack` included.

**ClientProofs.** *Client core.* `TypeCorrect`, `NumbersHold`, `UnregisterIsLast`,
`DropsAreEarly`. `HandlesAgree` and `OperationsAgree` follow a number through
everywhere it can be - the agent's table, the answer on its way, the proxy, `acb_`,
events on the connection and in the pool - and say that all lead to one proxy and
that the counter is above it. That a call has a request or an answer under way and
never both (`Pending`) is what makes the answer that arrives the one that is waited
for. `Silence` says that no event is behind the answer to `unregister`, `Covered` that
an event has its callback, or the call that brings it is not over. *Lua objects.*
`ObjectsTypeCorrect`, `ObjectsStayAgreed`, `ModulesCatchUp`, `ClosedFilesStaySilent`. An
object keeps what it was made with: a handle that was given (`HandlesGiven`) and a
connection that is not later than the present one (`Dated`); the end is
`ModulesGone`; a file that has a container is open (`FilesOpen`).

**AgentProofs.** *Application.* `TypeCorrect`, `RegistryStays`, `NoClientAtEnd`. Who holds
`services_lock_` (`Locked`); that no client comes and nothing quits before the last
factory is registered (`Early`), since the listeners are the last subsystem; and that
with no listener left a quit is going to end the connections there are (`Draining`).
*Discovery.* `DiscoveryTypeCorrect`, `PingReadsOnce`, `AskersAnswered`. Of the send, the
receives and the completions that are not handled there is one at most, until a ping
is started over an old completion (`OneOperation`). A point is not armed while it has
a request, and who asked is the last it has taken (`AskerKept`), so that `from_` is
not written under `Respond`. *Devices.* `CallsTypeCorrect`, `ListGoesToOneSlave`,
`DescriptorsStay`, `CallerIsTold`. A call knows what it has passed (`Phases`) and what
address its descriptor had (`Aimed`), and an open is alone with its handle
(`OpensAlone`); lists of any length are covered, as a step takes one item.

**ScriptProofs.** *Lua threads.* `TypeCorrect`, `TimersStaySafe`, `ConsoleKeepsListening`.
`TearsDown` ties the teardown to the threads: when main has joined the pool no handler
runs and none will. `MapKept` says which timers are in `timers_`, `ErrorsKept` where an
abort comes from, and `Listening` that what is aborted is a read of a reader that was
given up. *Console.* `ConsoleTypeCorrect`, `ConsoleStaysAgreed`, `HandlersKeepTheirs`. The
rpc thread and the main thread share the tables: what a call found when it began
is still so when it is answered (`Called`); the agent has open what was opened over
this connection, is about to be closed, or was left there by an open that threw
(`OpenedHere`); two live objects have two
addresses (`Apart`).

**MountsProofs.** `TypeCorrect`, `HandlesStand` (`MountSafe`), `BytesWhereAsked`
(`MovedWhereAsked`). The second is an argument about each file that nothing has
disturbed: one thread moves it (`Aligned`), at each point of the transfer `offset_`, the
agent's position and the bytes moved are as far apart as `Fits` says, and nobody's file
is at rest with the two different (`AtRest`). It holds for requests of any length,
cut in any way; it says nothing of a file in which a failed call has moved. `HandlesStand`
needs over which connection an object was opened
(`Held`), that an open has an object of its own (`Opening`), and what a mount that
never lost its connection has (`Settled`).

## 7. Only model-checked

The liveness properties, since the prover does not handle fairness: `StopCompletes`
and `EventHandled` (`reactor`), `CallsReturn` (`gpio`, `client_calls`, `mount`),
`EveryRecordWritten` (`log`), `ExitEnds` (`agent_exit`, and another of the name in
`lua_events`), `PingEnds` (`discovery`), `TimerTells` (`lua_events`), `MountComesBack`
(`mount`). They hold for the instances of section 4 under the fairness of section 5.

## 8. What the code does not promise, and what is left out

Modelling met behaviour that no run promises to be absent, because the code has
it. The model keeps it, and the property that would be violated is stated or
excepted where it is said:

- **GPIO.** `reactor_handler` posts a lambda with a raw `this` (gpio-helper.cpp:257),
  which can be destroyed before the strand runs it (`PostedHelperExists` is false).
  A first `register_for_change` whose `add_fd` failed leaves its connection, so that
  the next is answered with success and never signals (`GrantedIsWatched` is false).
  Two opens of one pin at the same time both see `value_fd_` unset; when the later
  overwrites a number that was subscribed meanwhile, nobody takes that number out
  of the reactor and its handler outlives the helper. `HandlerOfLiveHelper` excepts
  these numbers by name (`lost`), and only them; an event of one crashes.
- **Log.** An output that is named twice, as `-` and `stdout`, and a client that
  subscribes twice leave a slot bound to an object that is or will be destroyed;
  `OutputsLive` excepts those two (`replaced`, `orphans`). A flush during `create` walks
  a map that main is changing, and a file that cannot be opened has a null stream.
  Each may crash with the next record or flush, and `EveryRecordWritten` excepts it.
- **Files.** `unregister_for_events` closes the number the file goes on using; a
  handler of a lost connection deadlocks the reactor; both are states of the model.
- **Agent.** Two `exit_process` calls can join the reactor's thread twice. A client
  that comes in by a listener started after a quit is not disconnected.
- **Discovery.** A receive error ends a point's loop for good. Listeners are added
  while points already read the list.
- **Client core.** A callback that registers or unregisters deadlocks. A proxy's
  callback stays in `acb_` after it was destroyed.
- **Lua client.** `timers_`, the event map and the registry are used by two threads
  without a lock. A timer that fires before events are enabled is lost silently.
  The console's reader takes STDOUT_FILENO: a second
  `subscribe` throws after its call was stored, `unsubscribe` closes the standard
  output, and a later `subscribe` throws or reads what has the number by then.
  Loggers can never be closed by their handle. `clone` of an iterator sends no handle
  (impl-fs.cpp:92) and answers the old one (subsys-fs.cpp:471).
  An iterator whose `begin` throws after the agent inserted it (subsys-fs.cpp:427)
  stays open until the connection ends. An `on_ready` that throws leaves the modules
  after it with proxies of the old connection. spi and logger keep the address of
  their module for userdata that are collected after it.
- **FUSE.** `readdir` clears the error of `next` before it looks at it, so that it
  does not end when the connection is lost, nor when the answer that told of the end was
  given up (the agent answers ENODATA from then on, subsys-fs.cpp:446); `CallsReturn`
  excepts both (`GoesRound`). A second `readdir` on a handle lists
  nothing. `fs_` is visible before its channel is configured, and `unlink`, `mkdir`
  and `rmdir` do not check it. Two calls on one file, a seek or transfer that was given up, and a
  write that throws after a part of it leave `offset_` wrong, which the next request
  trusts; `MovedWhereAsked` excepts these files (`disturbed`). An `opendir` whose begin
  throws leaves the agent's iterator open (`late`).
- **I2C, SPI.** Words are kept in a byte (agent subsys-i2c.cpp:246, client
  impl-i2c.cpp:210). The script's `process_call` always returns 0 (smbus.cpp:516).
  `setup( speed, mode )` of SPI reaches a helper that takes mode and speed in the
  other order (subsys-spi.cpp:133). SPI reads write through the address of a
  string object (subsys-spi.cpp:191): `broken`. A close under an SPI call leaves its
  reference dangling.
- **Console.** `iter_begin` inserts its iterator before `fill_iter_info` may throw
  (agent subsys-fs.cpp:427-428); nobody learns its handle, and it is open until the
  connection ends. `ConsoleAgrees` excepts it. A closed or collected object whose event
  is under way is called all the same; `connect` that fails returns one value where two are announced;
  `make_pulse` assigns the reset value to the set value (lua-gpio.cpp:262).

Abstractions:

- One thread drives a GPIO handle at a time, as the client that waits for each
  answer does.
- Of a file's contents and length only the offset is kept in `FileService`, of a
  transfer whether it moved; `Mounts` has a length of up to `Space` bytes. Requests of
  length 0 are left out (the clients do not send them). Handles are numbers that
  are never given twice (`next_op_id`), but where a service numbers them itself.
- vtrc destroys a client's service when its last call has returned. Its pools,
  strand and connections are external and appear as their promises: a posted job
  runs once, a strand runs one job at a time in order, answers and events of one
  connection arrive in order, a closed connection is seen by `lock( )`.
- The sysfs files of a pin (direction, edge, pulse) are calls that may throw.
- A signal's emission is atomic with respect to connecting and disconnecting a
  slot: vtrc's signal takes its lock for both.
- A record's level, text and formatting; the level filter (`set_level`).
- After undefined behaviour (`crashed`, `broken`) no module takes a step.

Not modelled: the agent's configuration (read once before any thread starts), the
OS service (one stateless call), the agent's Lua shell and the hub (empty in this
commit), path strings and file attributes, the conversion of values between Lua
and C++ (`fr-lua`), the console's `fs`, `gpio` and `os` commands (one proxy call and a
line of output each), the Qt client (signal and property glue on Qt's own loop),
the containers of `include/utils` (no source file includes them), generated lists
and build scripts, and vendored code.
