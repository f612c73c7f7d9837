\* Two connections, queues and sockets of one message; one connection may break,
\* and the FLOW_MODs of one local controller may wait for a switch, or fail.
SPECIFICATION FairSpec
CONSTANTS
  Session = {a, b}
  NoSession = NoSession
  QueueSize = 1
  SocketSize = 1
  Breakable = {a}
  Failing = {a}
  MaxRequests = 4
  MaxEchoes = 2
INVARIANTS TypeOK
PROPERTIES HandlersEnd EchoAnswered 
CHECK_DEADLOCK FALSE
