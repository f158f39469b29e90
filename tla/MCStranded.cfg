SPECIFICATION Spec
CONSTANTS
  p1 = p1
  p2 = p2
  p3 = p3
  c1 = c1
  c2 = c2
  Projects = {p1}
  Channels = {c1}
  ChannelOf <- OneChannel
  MaxSlots <- OneSlot
  Workers = {w1}
  NoWorker = NoWorker
  NoProject = NoProject
  Priority <- SamePriority
  MaxPriority = 100
  TimeMultiplier = 1000
  Times = {1}
  Callers = {a1}
  Schedulers = {}
  Loops = {}
  Ops = {"run"}
  MaxAttempts = 2
  DiskOutcomes = {TRUE}
  InitStatus = {"pending"}
  FaultKinds = {}
  MaxFaults = 0
  MaxRequests = 1
INVARIANT NoStranded
