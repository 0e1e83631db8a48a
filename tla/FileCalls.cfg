SPECIFICATION Spec
CONSTANTS
  t1 = t1  t2 = t2  h1 = h1  h2 = h2  n1 = n1  n2 = n2
  Threads = {t1, t2}
  Handles = {h1, h2}
  Fds = {n1, n2}
  Seekable = {h1}
  Pollable = {h1, h2}
  Devices = {h2}
  Shared = {h2}
  MaxPos = 1
  Other = Other
  NoHandle = NoHandle  NoFd = NoFd  NoFile = NoFile  NoThread = NoThread
INVARIANTS DescriptorsOwned CursorAgrees
CHECK_DEADLOCK FALSE
SYMMETRY Symmetry
