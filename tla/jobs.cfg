SPECIFICATION Spec
CONSTANTS
  a = a  once = once  scanned = scanned  s1 = s1  s2 = s2  c1 = c1
  Configs = {once, scanned}
  Urls = {a}
  SeedsOf <- SeedA
  DoneScan = {scanned}
  Starters = {s1, s2}
  Completers = {c1}
  MaxJobs = 2
  None = None
INVARIANTS SeededIsServed CompleteMeansReleased
PROPERTIES  CompleteReturns
CHECK_DEADLOCK FALSE
