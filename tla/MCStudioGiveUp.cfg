SPECIFICATION Spec
CONSTANTS
  MaxResumes = 2
  MaxTotalResumes = 3
  MaxLimitPauses = 2
  RerunFrom = {}
  MaxSteps = 3
INVARIANT GivesUpOnlyWithoutProgress
