\* Every dependency shape, two run boundaries, a kill at any step.
CONSTANTS
  N = 3
  Test001 = 1
  Discoveries <- AllDiscoveries
  LimitChoices <- MCLimits
SPECIFICATION Spec
\* The phase ends with a plan, with an error, or killed.
CHECK_DEADLOCK FALSE
INVARIANTS
  TypeOK
  MandatoryAccounted
  BoundaryOrOverride
  RunnablePlanFits
  ClosedOrEscalated
  DependenciesFirst
PROPERTIES
  BacklogOrder
  AcyclicEnds
