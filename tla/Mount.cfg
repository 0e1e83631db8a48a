SPECIFICATION Spec
CONSTANTS
    Threads = {t1}
    Files = {f1}
    Dirs = {d1}
    Size = 1
    Space = 2
    MaxLen = 2
    MaxSessions = 2
INVARIANTS
    MountSafe
    MovedWhereAsked
PROPERTIES
    MountComesBack
    CallsReturn
\* a mount that has ended or crashed takes no step
CHECK_DEADLOCK FALSE
