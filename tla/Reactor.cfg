SPECIFICATION FairSpec
CONSTANTS
  f1 = f1  f2 = f2  t1 = t1  t2 = t2  c1 = c1  c2 = c2
  Fds = {f1, f2}
  Threads = {t1, t2}
  Callbacks = {c1, c2}
  SelfDeleting = {c2}
  NoCb = NoCb  NoFd = NoFd  Reactor = Reactor  Free = Free
INVARIANT EpollAgrees
PROPERTIES ImplementsDispatch StopCompletes EventHandled
\* A callback that deletes its own descriptor stops the agent for good.
CHECK_DEADLOCK FALSE
