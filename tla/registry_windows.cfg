\* Three domains in a line, the first linked to two switches of the second; its
\* controller was early, and its LOAD_REPORTs may be late.
SPECIFICATION Spec
CONSTANTS
  s1 = s1  s2 = s2  s3 = s3
  d1 = d1  d2 = d2  d3 = d3  d4 = d4
  h1 = h1  h2 = h2  h3 = h3
  A = A  B = B  C = C
  a1 = a1  a2 = a2  a3 = a3  k1 = k1  k2 = k2  k3 = k3
  NoEntry = NoEntry
  Session = {s1, s2, s3}
  Dpid = {d1, d2, d3, d4}
  Mac = {h1, h3}
  Address = {a1, a2, a3}
  AddressOf <- ForkAddress
  Domain = {A, B, C}
  DomainOf <- Fork
  SwitchDomains <- ForkSwitches
  HostDomains <- ForkHosts
  EarlySessions = {s2}
  LateReports = {s2}
  Link = {k1, k2, k3}
  WindowLists <- ForkWindows
  MaxLcId = 3
INVARIANTS EdgesPaired LinkEndsRegistered FlowModsOwned
PROPERTIES FlowModsMeet NoHandlerRaises
CHECK_DEADLOCK FALSE
