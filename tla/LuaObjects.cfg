SPECIFICATION ObjectsSpec
CONSTANTS
    Handles = {h1, h2}
    MaxConnections = 2
    MaxPosts = 1
SYMMETRY Symmetry
INVARIANTS
    ObjectsAgree
    ModulesFollowConnection
PROPERTIES
    ClosedFilesFallSilent
\* a program that was closed, or that crashed, takes no step
CHECK_DEADLOCK FALSE
