SPECIFICATION StudioSpec
CONSTANTS
  MaxResumes = 1
  MaxTotalResumes = 2
  MaxLimitPauses = 1
  RerunFrom = {"paused", "approved", "failed", "stopped"}
  MaxSteps = 2
  Agents = {"a", "b"}
  Background = {"b"}
  MaxPipe = 2
  MaxLines = 1
  Calls = {"a", "b"}
  OutDir <- SameDirectory
  Modes = {"container", "bwrap"}
  Workers = {"w1"}
  QueueWait = 1
  Timeout = 1
  ResultMargin = 2
  KillMargin = 1
  MaxKills = 1
  Images = {"i1", "i2"}
  Provider <- OneOfEach
  Tools = {"t1", "t2", "t3"}
  MaxImages = 2
  MaxAsks = 4
  Shots = {"x", "y"}
  Durations = {1, 2}
  Budget = 3
  Commands = {"c1", "c2"}
  MaxCommands = 3
  Lines = {"l1", "l2"}
  Scripts <- TwoScripts
  Requests = {""}
  Briefs <- TwoBriefs
  KeySets <- TwoKeySets
  MaxTries = 2
  MaxNarrations = 2
  Renders = {"r1", "r2"}
  Outputs = {"v1", "v2"}
  Media = {"m"}
  Versions = {"1", "2"}
  Timelines <- ThreeTimelines
  VoiceEnd = 2
  Tolerance = 1
  Slack = 0
  MaxRenders = 2
  MaxChanges = 1
  Items = {"i", "j", "k", "r"}
  Kind <- OneVideo
  Refused = {"r"}
  Broken = {"k"}
  Names = {"n", "m"}
  MaxFound = 1
  MaxSearches = 2
  MaxUses = 2
INVARIANTS TypeOK ResumesAreBounded AbandonLeavesNothingOpen PauseIsRecorded FinalLogKept SuccessIsReal DoneIsRecorded OwnResult PaidIsCounted ShotsFit VoiceIsAsReported RenderIsFaithful RightsFollowFiles
PROPERTIES SessionEnds JobsAreCleared
CHECK_DEADLOCK FALSE
