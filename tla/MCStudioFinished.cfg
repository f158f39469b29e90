SPECIFICATION Spec
CONSTANTS
  MaxResumes = 2
  MaxTotalResumes = 3
  MaxLimitPauses = 2
  RerunFrom = {"paused", "approved", "failed", "stopped"}
  MaxSteps = 3
PROPERTY FinishedIsNotRedone
