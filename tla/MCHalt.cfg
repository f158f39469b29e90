SPECIFICATION FairSpec
CONSTANTS
  p1 = p1
  p2 = p2
  p3 = p3
  c1 = c1
  c2 = c2
  Projects = {p1}
  Channels = {c1}
  ChannelOf <- OneChannel
  MaxSlots <- OneSlot
  Workers = {w1}
  NoWorker = NoWorker
  NoProject = NoProject
  Priority <- SamePriority
  MaxPriority = 100
  TimeMultiplier = 1000
  Times = {1}
  Callers = {a1, a2}
  Schedulers = {}
  Loops = {}
  Ops = {"stop", "remove", "delete"}
  MaxAttempts = 2
  DiskOutcomes = {TRUE}
  InitStatus = {"queued", "running"}
  FaultKinds = {"sigterm", "crash", "abort", "lapse"}
  MaxFaults = 2
  MaxRequests = 2
PROPERTY HaltIsObeyed
