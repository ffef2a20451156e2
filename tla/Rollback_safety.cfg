\* Two executions and two rollbacks in any order; the user has changed at most
\* one path before and edits one path meanwhile.
CONSTANTS
  Root = root
  Dirs = {".github"}
  DirOf <- MCDirOf
  Paths = {"Dockerfile", ".dockerignore", "pytest.ini", "a.py"}
  Committed = {".dockerignore", "a.py"}
  Staged = {}
  Trees <- FewTrees
  Plan <- RollbackPlan
  MaxFiles = 3
  CoverageFiles = {}
  ToolPaths = {"a.py"}
  MaxEdits = 1
  MaxRollbacks = 2
  MaxExecutions = 2
SPECIFICATION TxSpec
\* The run ends, is refused or is killed.
CHECK_DEADLOCK FALSE
INVARIANTS
  TxTypeOK
  BaselineKept
  RollbackRestores
