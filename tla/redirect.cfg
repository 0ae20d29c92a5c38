SPECIFICATION Spec
CONSTANTS
  a = a  b = b  c = c  d = d  r = r  w1 = w1  l1 = l1  l2 = l2  h1 = h1
  URLs = {a, b, c, d, r}
  Workers = {w1}
  Lanes = {l1}
  Handlers = {h1}
  Parallelism <- OneFetcher
  LaneFor <- SingleLane
  Seeds <- SeedRC
  Links <- LinksToLoop
  Domains <- OneDomain
  HostOf <- Hosts
  PathOf <- Paths
  Ignored = {}
  Candidates <- CandidateLinks
  RedirectOf <- Loop
  Norm <- RawA
  Canon <- Identity
  Outcomes = {"ok"}
  StopURL = None
  MaxAttempts = 1
  RecordRedirects = TRUE
  DoneScan = FALSE
  MaxVia = 3
  QueueCap = 1
  ChangesCap = 1
  Signals = FALSE
  MaxBoots = 0
  Seeder = Seeder  Scanner = Scanner  Signal = Signal  None = None
INVARIANTS  LinksStayInScope
PROPERTIES LanesReturn RedirectsRecorded
CHECK_DEADLOCK FALSE
