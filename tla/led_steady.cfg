CONSTANTS
  LedCounts = {1}
  MaxResets = 1
SPECIFICATION Spec
INVARIANT SteadyMeansHealthy
