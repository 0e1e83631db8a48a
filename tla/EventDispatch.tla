--------------------------- MODULE EventDispatch ---------------------------
(***************************************************************************)
(* What the agent's event reactor promises to the code that registers      *)
(* descriptors with it (agent/poll-reactor.h): one callback runs at a      *)
(* time, it is the callback the descriptor is registered with, and no      *)
(* registration is added, replaced or removed while it runs.               *)
(***************************************************************************)
CONSTANTS Fds,        \* descriptor numbers
          Callbacks,  \* reaction_callback objects
          NoCb,       \* a descriptor that is not registered
          Nothing     \* no callback is running

VARIABLES reg,        \* the callback each descriptor is registered with
          firing      \* the descriptor and the callback that is running

vars == <<reg, firing>>

Init == /\ reg = [fd \in Fds |-> NoCb]
        /\ firing = Nothing

Register(fd, cb) == /\ firing = Nothing
                    /\ reg' = [reg EXCEPT ![fd] = cb]
                    /\ UNCHANGED firing

Unregister(fd) == /\ firing = Nothing
                  /\ reg' = [reg EXCEPT ![fd] = NoCb]
                  /\ UNCHANGED firing

Fire(fd) == /\ firing = Nothing
            /\ reg[fd] # NoCb
            /\ firing' = <<fd, reg[fd]>>
            /\ UNCHANGED reg

\* The callback returns: true keeps the registration, false removes it.
Keep == /\ firing # Nothing
        /\ firing' = Nothing
        /\ UNCHANGED reg

Drop == /\ firing # Nothing
        /\ firing' = Nothing
        /\ reg' = [reg EXCEPT ![firing[1]] = NoCb]

Next == \/ \E fd \in Fds, cb \in Callbacks : Register(fd, cb)
        \/ \E fd \in Fds : Unregister(fd) \/ Fire(fd)
        \/ Keep
        \/ Drop

Spec == Init /\ [][Next]_vars
=============================================================================
