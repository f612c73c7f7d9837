\* A window link at one switch, while another comes and goes; no hosts.
SPECIFICATION FairSpec
CONSTANTS
  Dpid = {d1, d2}
  Mac = {}
  Port = {}
  Flood = Flood
  WindowDpid = {d2}
  Leaving = {d1}
  NoEntry = NoEntry
PROPERTY WindowsTold
CHECK_DEADLOCK FALSE
