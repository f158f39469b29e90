SPECIFICATION ServicesSpec
CONSTANTS
  Videos = {"v1", "v2", "v3", "v4"}
  VideoType <- FourTypes
  TargetDate <- LongOnDayTwo
  DayLength = 2
  Weekdays = {0, 1, 2, 3, 4, 5, 6}
  Hours = {0, 1}
  LongQuota = 1
  ShortQuota = 1
  Lead = 1
  ChannelSettings <- ThreeSettings
  DefaultProvider = "zernio"
  Deduplicates = {"zernio"}
  Runs = {"r1", "r2"}
  CronRun = "r1"
  Callers = {"c1"}
  MaxTries = 2
  MaxPolls = 1
  MaxTime = 3
  MaxPubs = 2
  DistributionEvents = 1
  Pubs = {"b1"}
  Comments = {"c1", "c2"}
  PubOf <- OnePub
  Clients = {"once", "again"}
  MaxPosts = 2
  Noise = {}
  Cap = 1
  PerPass = 1
  MaxAttempts = 2
  Passes = {"p1", "p2"}
  Cron = "p1"
  NoPass = "none"
  MaxEvents = 2
  Subjects = {"s1", "s1b", "filler"}
  Similar <- TwoAlike
  Evergreen <- OneEvergreen
  Filler = "filler"
  Bank <- ThreeFormats
  NoFormat = "none"
  HistoryLimit = 3
  WindowK = 2
  PlanLong = 2
  PlanShort = 1
  LlmDays = {2}
  Planners = {"p1", "p2"}
  CronPlanner = "p1"
  MaxDay = 2
  MaxProjects = 6
  MaxByHand = 1
  Jobs = {"j", "k"}
  Crons = {"x", "y"}
  Default <- AllEnabled
  Requests = {"c1", "c2"}
  MaxAsked = 2
  Agents = {"p"}
  FreeModels = {"g1"}
  PaidModels = {"g2"}
  ClaudeModels = {"c1"}
  CliModels = {"c1", "c2"}
  DefaultModel <- FirstModels
  MaxContinuations = 1
  ModelEdits = 4
  MaxCalls = 1
  Slugs = {"a", "b"}
  Limit = 1
  MaxOps = 3
  Plans <- TwoPlans
  Application <- Delivered
  Asked = {0, 5, 70}
  MaxEdits = 2
INVARIANTS TypeOK OneLiveCopy VideoPostedOnce QuotaKept RepliedOnce CapKept FreshSubjects FormatsRotate SettingsApplied PreferenceIsHonoured BriefKeepsToPlan ConnectionsKept
PROPERTIES DueIsSettled PublicationsAtMostOnce RepliesAtMostOnce PendingEnds
CHECK_DEADLOCK FALSE
