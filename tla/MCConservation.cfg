SPECIFICATION Spec
CONSTANTS
  p1 = p1
  p2 = p2
  p3 = p3
  c1 = c1
  c2 = c2
  Projects = {p1, p2}
  Channels = {c1}
  ChannelOf <- OneChannel
  MaxSlots <- OneSlot
  Workers = {w1, w2}
  NoWorker = NoWorker
  NoProject = NoProject
  Priority <- SamePriority
  MaxPriority = 100
  TimeMultiplier = 1000
  Times = {1}
  Callers = {a1}
  Schedulers = {}
  Loops = {}
  Ops = {"stop", "remove", "delete"}
  MaxAttempts = 2
  DiskOutcomes = {TRUE, FALSE}
  InitStatus = {"queued", "running"}
  FaultKinds = {"sigterm"}
  MaxFaults = 1
  MaxRequests = 2
INVARIANTS NoStranded QueuedHasPayload
SYMMETRY ProjectSymmetry
