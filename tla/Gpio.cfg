SPECIFICATION FairSpec
CONSTANTS
  p1 = p1  c1 = c1  c2 = c2  h1 = h1  h2 = h2  x1 = x1  x2 = x2  n1 = n1  n2 = n2
  Pins = {p1}
  Clients = {c1, c2}
  Handles = {h1, h2}
  Helpers = {x1, x2}
  Fds = {n1, n2}
  MaxEvents = 2
  NoClient = NoClient  NoHandle = NoHandle  NoHelper = NoHelper  NoFd = NoFd
  Strand = Strand
ACTION_CONSTRAINTS FirstFirst UsersLeave LowestFree
INVARIANTS SubscribersAreOpen HandlerOfLiveHelper
PROPERTIES SentAsSubscribed CallsReturn
\* Clients that have gone take no step.
CHECK_DEADLOCK FALSE
