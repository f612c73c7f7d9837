\* A host moves between two domains and back.
SPECIFICATION Spec
CONSTANTS
  s1 = s1  s2 = s2  s3 = s3
  d1 = d1  d2 = d2  d3 = d3  d4 = d4
  h1 = h1  h2 = h2  h3 = h3
  A = A  B = B  C = C
  a1 = a1  a2 = a2  a3 = a3  k1 = k1  k2 = k2  k3 = k3
  NoEntry = NoEntry
  Session = {s1, s2}
  Dpid = {d1, d2}
  Mac = {h1, h2}
  Address = {a1, a2}
  AddressOf <- TwoAddresses
  Domain = {A, B}
  DomainOf <- OneRunEach
  SwitchDomains <- RoamingSwitches
  HostDomains <- RoamingHosts
  EarlySessions = {}
  LateReports = {}
  Link = {k1, k2, k3}
  WindowLists <- NoWindows
  MaxLcId = 2
INVARIANT HostOnOneDatapath
CHECK_DEADLOCK FALSE
