\* All nine gates, two of those with commands in trouble, a kill at any step.
SPECIFICATION Spec
CONSTRAINT FewTroubles
\* The phase ends with a status, with an error, or killed.
CHECK_DEADLOCK FALSE
INVARIANTS
  TypeOK
  NoFailureHidden
  PassedIsEarned
  StrictIsComplete
  NothingRunsWhenRefused
