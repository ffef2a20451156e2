\* Three invocations, each may be stopped after any save.
CONSTANTS
  MaxInvocations = 3
  LegacyFiles = {"RUP_PLAN", "run-manifest"}
SPECIFICATION Spec
\* The invocations are bounded.
CHECK_DEADLOCK FALSE
INVARIANTS
  TypeOK
  ExitZeroIsThisRun
  ManifestDescribesDisk
  SidecarsAgree
  NoUnapprovedExecution
