SPECIFICATION Safety
CONSTANTS
  a = a  b = b  c = c  d = d  r = r  w1 = w1  l1 = l1  l2 = l2  h1 = h1
  URLs = {a, b}
  Workers = {w1}
  Lanes = {l1}
  Handlers = {h1}
  Parallelism <- OneFetcher
  LaneFor <- SingleLane
  Seeds <- SeedA
  Links <- Pair
  Candidates = {a, b}
  RedirectOf <- NoRedirects
  Norm <- Identity
  Canon <- Identity
  Outcomes = {"ok", "bad"}
  StopURL = None
  MaxAttempts = 1
  RecordRedirects = FALSE
  DoneScan = TRUE
  MaxVia = 2
  QueueCap = 1
  ChangesCap = 1
  Signals = FALSE
  MaxBoots = 0
  Seeder = Seeder  Scanner = Scanner  Signal = Signal  None = None
INVARIANTS DoneMeansDone
CHECK_DEADLOCK FALSE
