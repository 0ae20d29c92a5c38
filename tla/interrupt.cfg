SPECIFICATION Spec
CONSTANTS
  a = a  b = b  c = c  d = d  r = r  w1 = w1  l1 = l1  l2 = l2  h1 = h1
  URLs = {a, b}
  Workers = {w1}
  Lanes = {l1, l2}
  Handlers = {h1}
  Parallelism <- OneFetcher
  LaneFor <- TwoLanes
  Seeds <- SeedAB
  Links <- OneWay
  Candidates = {a, b}
  RedirectOf <- NoRedirects
  Norm <- Identity
  Canon <- Identity
  Outcomes = {"ok"}
  StopURL = None
  MaxAttempts = 1
  RecordRedirects = FALSE
  DoneScan = FALSE
  MaxVia = 2
  QueueCap = 1
  ChangesCap = 1
  Signals = TRUE
  MaxBoots = 1
  Seeder = Seeder  Scanner = Scanner  Signal = Signal  None = None
PROPERTIES   StoppingOnlyDrains 
CHECK_DEADLOCK FALSE
