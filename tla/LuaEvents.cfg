SPECIFICATION Spec
CONSTANTS
    Timers = {t1}
    MaxPosts = 1
    MaxReaders = 2
    MaxLines = 1
INVARIANTS
    TimersSafe
    ConsoleListens
PROPERTIES
    TimerTells
    ExitEnds
\* a program that ended, crashed or waits for input takes no step
CHECK_DEADLOCK FALSE
