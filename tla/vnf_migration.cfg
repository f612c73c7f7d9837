\* A VNF and two switches; up to two commands fail.
SPECIFICATION Spec
CONSTANTS
  s1 = s1  s2 = s2  v1 = v1
  Switch = {s1, s2}
  Vnf = {v1}
  Home <- Homes
  MaxVersion = 3
  MaxFailures = 2
INVARIANTS TypeOK StateKept ResumesNewest LinkedTwice StaysInNetwork
CHECK_DEADLOCK FALSE
