\* Two switches and two hosts that come and go; no window links.
SPECIFICATION Spec
CONSTANTS
  Dpid = {d1, d2}
  Mac = {h1, h2}
  Port = {p1}
  Flood = Flood
  WindowDpid = {}
  Leaving = {d1, d2}
  NoEntry = NoEntry
SYMMETRY Alike
INVARIANTS TypeOK HostsPlaced
PROPERTY SendsInOrder
CHECK_DEADLOCK FALSE
