SPECIFICATION Spec
CONSTANTS
  p1 = p1
  p2 = p2
  p3 = p3
  c1 = c1
  c2 = c2
  Projects = {p1, p2, p3}
  Channels = {c1, c2}
  ChannelOf <- TwoChannels
  MaxSlots <- OneSlot
  Workers = {w1}
  NoWorker = NoWorker
  NoProject = NoProject
  Priority <- FirstBetter
  MaxPriority = 100
  TimeMultiplier = 1000
  Times = {1, 2}
  Callers = {}
  Schedulers = {}
  Loops = {}
  Ops = {}
  MaxAttempts = 3
  DiskOutcomes = {TRUE}
  InitStatus = {"queued", "running", "pending"}
  FaultKinds = {"sigterm", "crash", "lapse"}
  MaxFaults = 2
  MaxRequests = 0
INVARIANTS TypeOK SlotLimit
PROPERTIES ClaimsBest PassFindsEligible
