SPECIFICATION Safety
CONSTANTS
  a = a  b = b  c = c  d = d  r = r  w1 = w1  l1 = l1  l2 = l2  h1 = h1
  URLs = {a, b, c}
  Workers = {w1}
  Lanes = {l1, l2}
  Handlers = {h1}
  Parallelism <- OneFetcher
  LaneFor <- TwoHosts
  Seeds <- SeedAC
  Links <- Meet
  Candidates = {a, b, c}
  RedirectOf <- NoRedirects
  Norm <- Identity
  Canon <- Identity
  Outcomes = {"ok"}
  StopURL = None
  MaxAttempts = 1
  RecordRedirects = FALSE
  DoneScan = FALSE
  MaxVia = 2
  QueueCap = 1
  ChangesCap = 1
  Signals = FALSE
  MaxBoots = 0
  Seeder = Seeder  Scanner = Scanner  Signal = Signal  None = None
INVARIANTS QueuedOnce
CHECK_DEADLOCK FALSE
