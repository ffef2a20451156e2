\* A dependency cycle of P0 gaps that need one that does not fit.
CONSTANTS
  N = 3
  Test001 = 1
  Discoveries <- PriorityCycle
  LimitChoices <- TightLimits
SPECIFICATION Spec
CHECK_DEADLOCK FALSE
PROPERTIES
  PlanningEnds
