\* A test run changes a file of HEAD.
CONSTANTS
  Root = root
  Dirs = {".github"}
  DirOf <- MCDirOf
  Paths = {"pytest.ini", "a.py"}
  Committed = {"a.py"}
  Staged = {}
  Trees <- CleanTrees
  Plan <- TestsOnly
  MaxFiles = 3
  CoverageFiles = {}
  ToolPaths = {"a.py"}
  MaxEdits = 0
  MaxRollbacks = 1
  MaxExecutions = 1
SPECIFICATION TxSpec
\* The run ends, is refused or is killed.
CHECK_DEADLOCK FALSE
INVARIANTS
  RollbackNotAborted
