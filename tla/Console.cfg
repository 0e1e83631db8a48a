SPECIFICATION ConsoleSpec
CONSTANTS
    Gpios = {g1}
    Files = {f1}
    Iterators = {i1}
    Buses = {b1}
    Addrs = {a1, a2}
    MaxRegs = 1
    MaxSessions = 2
    None = None
SYMMETRY Symmetry
INVARIANTS
    ConsoleAgrees
    HandlersFindTheirs
\* a script that has ended or crashed takes no step
CHECK_DEADLOCK FALSE
