SPECIFICATION DiscoverySpec
CONSTANTS
  p1 = p1  p2 = p2
  Points = {p1}
  Addr <- Asked
  Ifaces <- Nets
  Listeners <- Served
  NoOne = NoOne
INVARIANTS OneReceive AnswersAreAsked
PROPERTY PingEnds
CHECK_DEADLOCK FALSE
