CONSTANTS
  LedCounts = {1, 4}
  MaxResets = 1
SPECIFICATION Spec
INVARIANTS TypeOK PatternRuns LongMeansFault RowIsTrace
PROPERTIES GroupsCount FaultKeepsBlinking StageBurstEnds
