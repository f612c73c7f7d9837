\* Switches and hosts stay in their domain; domain A's controller restarts, and
\* one link joins it to domain B.
SPECIFICATION Spec
CONSTANTS
  s1 = s1  s2 = s2  s3 = s3
  d1 = d1  d2 = d2  d3 = d3  d4 = d4
  h1 = h1  h2 = h2  h3 = h3
  A = A  B = B  C = C
  a1 = a1  a2 = a2  a3 = a3  k1 = k1  k2 = k2  k3 = k3
  NoEntry = NoEntry
  Session = {s1, s2, s3}
  Dpid = {d1, d2, d3}
  Mac = {h1, h2, h3}
  Address = {a1, a2}
  AddressOf <- SharedAddress
  Domain = {A, B}
  DomainOf <- TwoRunsOfA
  SwitchDomains <- HomeSwitches
  HostDomains <- HomeHosts
  EarlySessions = {}
  LateReports = {}
  Link = {k1, k2, k3}
  WindowLists <- HomeWindows
  MaxLcId = 2
INVARIANTS TypeOK ActiveIdsResolve FlowModsOwned HostOnOneDatapath ListedHostsKnown
CHECK_DEADLOCK FALSE
