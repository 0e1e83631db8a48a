------------------------------- MODULE Devices ------------------------------
(***************************************************************************)
(* The devices of a bus: the I2C and SPI services of the agent             *)
(* (src/agent/subsys-i2c.cpp, subsys-spi.cpp), their helpers, the proxies  *)
(* of the client core (impl-i2c.cpp, impl-spi.cpp) and the functions of    *)
(* the Lua client over them (modules/smbus.cpp, modules/spi.cpp).          *)
(*                                                                         *)
(* A handle is one proxy, one entry of the agent's map and one descriptor. *)
(* A call on a list is one transaction with a chip after the other: other  *)
(* calls run between them.  What a chip answers is up to the chip.         *)
(***************************************************************************)
EXTENDS Integers, Sequences

CONSTANTS Calls,        \* calls that are on their way at once
          I2C, SPI,     \* handles: neither service gives a number again
          Slaves,       \* addresses on the bus
          I2COps, SpiOps, \* the calls that are made
          MaxLen,       \* bound: items of a list
          Values,       \* what a chip may answer
          Byte,         \* 256
          Speeds, Modes \* what SPI devices are set to

ASSUME DevicesAssumption ==
    /\ I2C \cap SPI = {} /\ MaxLen \in Nat \ {0} /\ Byte \in Nat \ {0}
    /\ Values \subseteq Nat /\ Speeds \subseteq Nat /\ Modes \subseteq 0..3
    /\ I2COps \subseteq {"read_bytes", "write_bytes", "read_words", "write_words", "exchange",
                        "read", "write", "ioctl", "functions", "block", "process"}
    /\ SpiOps \subseteq {"read", "write", "wr", "transfer", "transfer_list"}

VARIABLES proxy,    \* what the client has of a handle
          closing,  \* closes of destructors that are on their way
          mapped,   \* devices_ and files_
          fds,      \* handles whose descriptor is open
          slave,    \* the address set on the descriptor of an I2C handle
          config,   \* mode and speed of an SPI device
          pc, call, \* the calls
          broken    \* memory that was given back, or is no buffer, was used

devicesVars == <<proxy, closing, mapped, fds, slave, config, pc, call, broken>>
agentside == <<mapped, fds, slave, config>>

Handles == I2C \cup SPI
NoSlave == "none"
Lists == {"read_bytes", "write_bytes", "read_words", "write_words", "exchange",
          "wr", "transfer_list"}
Opens == {"open", "open_setup"} \* without and with a setup
Idle == [op |-> "none", h |-> "none", arg |-> NoSlave, len |-> 0, done |-> <<>>,
         aim |-> NoSlave, moved |-> FALSE, gone |-> FALSE, res |-> "none", reply |-> <<>>]

DevicesTypeOK ==
    /\ proxy \in [Handles -> {"none", "opening", "open", "closed", "lost"}]
    /\ closing \subseteq Handles /\ mapped \subseteq Handles /\ fds \subseteq Handles
    /\ slave \in [I2C -> Slaves \cup {NoSlave}]
    /\ config \in [SPI -> [mode : Nat, speed : Nat]]
    /\ pc \in [Calls -> {"idle", "sent", "address", "insert", "run", "told"}]
    /\ \A c \in Calls : call[c].len \in 0..MaxLen /\ Len(call[c].done) <= call[c].len
    /\ broken \in BOOLEAN

DevicesInit ==
    /\ proxy = [h \in Handles |-> "none"] /\ closing = {} /\ mapped = {} /\ fds = {}
    /\ slave = [h \in I2C |-> NoSlave]
    /\ config = [h \in SPI |-> [mode |-> 0, speed |-> 0]]
    /\ pc = [c \in Calls |-> "idle"] /\ call = [c \in Calls |-> Idle] /\ broken = FALSE

-----------------------------------------------------------------------------
(* The client                                                              *)

Begin(c, h, op, arg, len) ==
    /\ pc[c] = "idle"
    /\ pc' = [pc EXCEPT ![c] = "sent"]
    /\ call' = [call EXCEPT ![c] = [Idle EXCEPT !.op = op, !.h = h, !.arg = arg, !.len = len]]
    /\ UNCHANGED <<closing, agentside, broken>>

Open(c, h, op, arg) ==
    /\ proxy[h] = "none"
    /\ proxy' = [proxy EXCEPT ![h] = "opening"]
    /\ Begin(c, h, op, arg, 0)

Call(c, h, op, arg, len) ==
    /\ proxy[h] = "open" /\ UNCHANGED proxy
    /\ Begin(c, h, op, arg, len)

\* calls of the client that use a proxy: who destroys it waits for them
Uses(h) == {c \in Calls : pc[c] # "idle" /\ call[c].h = h /\ ~call[c].gone}

\* the destructor sends a close and does not wait for an answer
Destroy(h) ==
    /\ proxy[h] = "open" /\ Uses(h) = {}
    /\ proxy' = [proxy EXCEPT ![h] = "closed"]
    /\ closing' = closing \cup {h}
    /\ UNCHANGED <<agentside, pc, call, broken>>

\* the answer: a constructor that gets an error leaves no proxy
Return(c) ==
    /\ pc[c] = "told"
    /\ LET k == call[c] IN
        proxy' = IF k.op \in Opens /\ ~k.gone
                 THEN [proxy EXCEPT ![k.h] = IF k.res = "ok" THEN "open" ELSE "closed"]
                 ELSE proxy
    /\ pc' = [pc EXCEPT ![c] = "idle"]
    /\ call' = [call EXCEPT ![c] = Idle]
    /\ UNCHANGED <<closing, agentside, broken>>

\* the call ends with an error of the channel while the agent still makes it
GiveUp(c) ==
    /\ pc[c] \notin {"idle", "told"} /\ ~call[c].gone
    /\ call' = [call EXCEPT ![c].gone = TRUE]
    /\ proxy' = IF call[c].op \in Opens THEN [proxy EXCEPT ![call[c].h] = "lost"] ELSE proxy
    /\ UNCHANGED <<closing, agentside, pc, broken>>

-----------------------------------------------------------------------------
(* The agent                                                               *)

\* the answer of the agent, and what becomes of the call's reply
Tell(c, res) ==
    /\ pc' = [pc EXCEPT ![c] = "told"]
    /\ call' = [call EXCEPT ![c].res = res, ![c].reply = IF res = "ok" THEN @ ELSE <<>>]

\* calls of the agent that hold the helper: an I2C call has a shared_ptr of its own
Holds(h) == {c \in Calls : pc[c] = "run" /\ call[c].h = h}

OpenBus(c) ==
    /\ pc[c] = "sent" /\ call[c].op \in Opens
    /\ \/ /\ fds' = fds \cup {call[c].h}
          /\ pc' = [pc EXCEPT ![c] = IF call[c].op = "open" THEN "insert" ELSE "address"]
          /\ UNCHANGED call
       \/ Tell(c, "error") /\ UNCHANGED fds
    /\ UNCHANGED <<proxy, closing, mapped, slave, config, broken>>

\* Mutant: the address is set for all descriptors of the bus.
AddressAll(h, a) == slave' = [x \in I2C |-> a]

\* the kernel keeps the address with the descriptor
Address(h, a) == slave' = [slave EXCEPT ![h] = a]

\* SPI_IOC_WR_MODE, then SPI_IOC_WR_MAX_SPEED_HZ: an error leaves the device anywhere
\* between.  setup( mode, speed ) is called as setup( speed, mode ).
Configure(h, a, res) ==
    LET mode == a.speed % 4  speed == a.mode IN
    \/ config' = [config EXCEPT ![h] = [mode |-> mode, speed |-> speed]]
    \/ res = "error" /\ \/ config' = [config EXCEPT ![h].mode = mode]
                         \/ UNCHANGED config

\* what a setup does to the device
Applied(h, a, res) ==
    IF h \in I2C THEN /\ IF res = "ok" THEN Address(h, a) ELSE UNCHANGED slave
                      /\ UNCHANGED config
    ELSE Configure(h, a, res) /\ UNCHANGED slave

\* an open with a setup: the helper that cannot be set up is destroyed
OpenSetup(c) ==
    /\ pc[c] = "address"
    /\ \E res \in {"ok", "error"} :
        /\ Applied(call[c].h, call[c].arg, res)
        /\ IF res = "ok" THEN pc' = [pc EXCEPT ![c] = "insert"] /\ UNCHANGED <<fds, call>>
           ELSE Tell(c, "error") /\ fds' = fds \ {call[c].h}
    /\ UNCHANGED <<proxy, closing, mapped, broken>>

Insert(c) ==
    /\ pc[c] = "insert"
    /\ mapped' = mapped \cup {call[c].h}
    /\ Tell(c, "ok")
    /\ UNCHANGED <<proxy, closing, fds, slave, config, broken>>

\* i2c_by_index, get_file: the lock is held for the look-up only
Find(c) ==
    /\ pc[c] = "sent" /\ call[c].op \notin Opens \cup {"close"}
    /\ IF call[c].h \in mapped
       THEN /\ pc' = [pc EXCEPT ![c] = "run"]
            /\ call' = [call EXCEPT ![c].aim =
                        IF call[c].h \in I2C /\ call[c].op # "setup" THEN slave[call[c].h] ELSE @]
       ELSE Tell(c, "error")
    /\ UNCHANGED <<proxy, closing, agentside, broken>>

\* Mutant: the I2C calls work with a reference into devices_, too.
EraseAtOnce(h) ==
    /\ mapped' = mapped \ {h}
    /\ fds' = IF h \in mapped THEN fds \ {h} ELSE fds
    /\ UNCHANGED <<slave, config>>

\* a device that leaves the map is closed with its last holder
Erase(h) ==
    /\ mapped' = mapped \ {h}
    /\ fds' = IF h \in mapped /\ (h \in SPI \/ Holds(h) = {}) THEN fds \ {h} ELSE fds
    /\ UNCHANGED <<slave, config>>

CloseArrives(h) ==
    /\ h \in closing /\ closing' = closing \ {h}
    /\ Erase(h)
    /\ UNCHANGED <<proxy, pc, call, broken>>

\* iface::close of an SPI proxy: a call like others, and the proxy stays
Close(c) ==
    /\ pc[c] = "sent" /\ call[c].op = "close"
    /\ Erase(call[c].h) /\ Tell(c, "ok")
    /\ UNCHANGED <<proxy, closing, broken>>

\* a call has ended: its shared_ptr may be the last
LetGo(c) ==
    LET h == call[c].h IN
    fds' = IF h \in I2C \ mapped /\ Holds(h) = {c} THEN fds \ {h} ELSE fds

Setup(c) ==
    /\ pc[c] = "run" /\ call[c].op = "setup"
    /\ LET h == call[c].h  a == call[c].arg IN
       IF h \notin fds THEN broken' = TRUE /\ UNCHANGED <<agentside, pc, call>>
       ELSE /\ \E res \in {"ok", "error"} :
                /\ Applied(h, a, res)
                /\ pc' = [pc EXCEPT ![c] = "told"]
                /\ call' = [x \in Calls |->
                              IF x = c THEN [call[c] EXCEPT !.res = res]
                              ELSE IF x \in Holds(h) /\ call[x].op # "setup"
                              THEN [call[x] EXCEPT !.moved = TRUE]
                              ELSE call[x]]
            /\ LetGo(c) /\ UNCHANGED <<mapped, broken>>
    /\ UNCHANGED <<proxy, closing>>

\* What reaches the caller of what the chip answered: a word is kept in a byte, by the
\* agent and by the client; exchange never reads; a script gets 0 from process_call.
Kept(op, v) ==
    CASE op \in {"read_words", "write_words"} -> v % Byte
      [] op = "process"  -> 0
      [] op = "exchange" -> -1
      [] OTHER           -> v

\* Mutant: the loop ends at an item that fails, and nobody is told.
ItemFailsUntold(c) == Tell(c, "ok") /\ LetGo(c)

\* the first transaction that fails ends the list: what was made stays made
ItemFails(c) == Tell(c, "error") /\ LetGo(c)

\* a transaction that was made: the chip is found by the address in the descriptor
Made(k, v) == [n |-> Len(k.done) + 1, v |-> v,
               at |-> IF k.h \in I2C THEN slave[k.h] ELSE NoSlave]

ItemMade(c, v) ==
    /\ call' = [call EXCEPT
                  ![c].done  = Append(@, Made(call[c], v)),
                  ![c].reply = Append(@, Kept(call[c].op, v))]
    /\ UNCHANGED <<fds, pc>>

\* one transaction with the chip.  SPI's read gives the driver the string object itself
\* for a buffer, and a reference into files_ may be one to what was erased.
Item(c) ==
    /\ pc[c] = "run" /\ call[c].op # "setup" /\ Len(call[c].done) < call[c].len
    /\ LET h == call[c].h  op == call[c].op IN
       IF h \notin fds THEN broken' = TRUE /\ UNCHANGED <<fds, pc, call>>
       ELSE \/ ItemFails(c) /\ UNCHANGED broken
            \/ \E v \in Values : ItemMade(c, v) /\ broken' = (h \in SPI /\ op = "read")
    /\ UNCHANGED <<proxy, closing, mapped, slave, config>>

ListEnds(c) ==
    /\ pc[c] = "run" /\ call[c].op # "setup" /\ Len(call[c].done) = call[c].len
    /\ Tell(c, "ok") /\ LetGo(c)
    /\ UNCHANGED <<proxy, closing, mapped, slave, config, broken>>

-----------------------------------------------------------------------------

Lengths(op) == IF op \in Lists THEN 1..MaxLen ELSE {1}

Client ==
    \/ \E h \in Handles : Destroy(h)
    \/ \E c \in Calls :
        \/ \E h \in I2C :
            \/ Open(c, h, "open", NoSlave)
            \/ \E a \in Slaves : Open(c, h, "open_setup", a) \/ Call(c, h, "setup", a, 0)
            \/ \E op \in I2COps : \E n \in Lengths(op) : Call(c, h, op, NoSlave, n)
        \/ \E h \in SPI :
            \/ \E m \in Modes, s \in Speeds :
                LET a == [mode |-> m, speed |-> s] IN
                \/ Open(c, h, IF s = 0 THEN "open" ELSE "open_setup", a)
                \/ Call(c, h, "setup", a, 0)
            \/ \E op \in SpiOps : \E n \in Lengths(op) : Call(c, h, op, NoSlave, n)
            \/ Call(c, h, "close", NoSlave, 0)
        \/ GiveUp(c)

Serve(c) ==
    \/ OpenBus(c) \/ OpenSetup(c) \/ Insert(c) \/ Find(c) \/ Close(c)
    \/ Setup(c) \/ Item(c) \/ ListEnds(c) \/ Return(c)

DevicesNext ==
    /\ ~broken
    /\ \/ Client
       \/ \E c \in Calls : Serve(c)
       \/ \E h \in Handles : CloseArrives(h)

DevicesSpec == DevicesInit /\ [][DevicesNext]_devicesVars

-----------------------------------------------------------------------------
(* Properties                                                              *)

\* A list goes to one slave, the one of its handle, though each transaction finds the
\* address anew in the descriptor and other handles of the bus change theirs: unless
\* somebody changed the address of this handle meanwhile.
OneSlave ==
    \A c \in Calls : LET k == call[c] IN
        (k.h \in I2C /\ ~k.moved) => \A i \in DOMAIN k.done : k.done[i].at = k.aim

\* A descriptor is open as long as the map or a call has it, and no longer: an open
\* that failed leaves none, and a close does not take it from an I2C call that runs.
\* The map has what a proxy stands for, what a close is on its way for, and devices
\* whose open was given up, which stay until the connection ends.
DescriptorsHeld ==
    /\ fds = mapped \cup {h \in I2C : Holds(h) # {}}
                    \cup {call[c].h : c \in {x \in Calls : pc[x] \in {"address", "insert"}}}
    /\ \A h \in mapped : proxy[h] = "closed" => h \in closing

\* The caller is told "ok" when every item was made, once and in order, and gets one
\* answer for each; after an error the items made are the first ones and no others.
ToldAsMade ==
    \A c \in Calls : LET k == call[c] IN
        (pc[c] = "told" /\ k.op \notin Opens \cup {"close", "setup"}) =>
            /\ \A i \in DOMAIN k.done : k.done[i].n = i
            /\ k.res = "ok" => Len(k.done) = k.len /\ Len(k.reply) = k.len
            /\ (k.res = "error" /\ k.len > 0) => Len(k.done) < k.len /\ k.reply = <<>>
=============================================================================
