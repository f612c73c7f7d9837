\* Three switches in a line, one of which loses its connection.
SPECIFICATION Spec
CONSTANTS
  s1 = s1  s2 = s2  s3 = s3  h1 = h1  h2 = h2
  HostPort = HostPort  WindowPort = WindowPort  NoRule = NoRule
  Dpid = {s1, s2, s3}
  Mac = {h1, h2}
  Match = {h1}
  DstOf <- ToFirst
  EthMatch = {h1}
  Flood = Flood
  Attached <- Plugs
  Cable <- Line
  LateCable = {}
  WindowDpid = {s2}
  Leaving = {s3}
  UnknownPort <- Early
  QueueSize = 1
INVARIANTS TypeOK NoForwardingLoop RulesLeadOn
CHECK_DEADLOCK FALSE
