SPECIFICATION Spec
CONSTANTS
  a = a  once = once  scanned = scanned  s1 = s1  s2 = s2  c1 = c1
  Configs = {scanned}
  Urls = {a}
  SeedsOf <- SeedA
  DoneScan = {scanned}
  Starters = {s1}
  Completers = {}
  MaxJobs = 1
  None = None
PROPERTIES ShutdownClosesJobs
CHECK_DEADLOCK FALSE
