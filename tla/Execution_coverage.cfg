\* A user's own .coverage* file and a run of the test command.
CONSTANTS
  Root = root
  Dirs = {".github"}
  DirOf <- MCDirOf
  Paths = {"pytest.ini", ".coveragerc"}
  Committed = {}
  Staged = {}
  Trees <- CoverageTrees
  Plan <- TestsOnly
  MaxFiles = 3
  CoverageFiles = {".coveragerc"}
  ToolPaths = {}
  MaxEdits = 0
SPECIFICATION Spec
\* The run ends, is refused or is killed.
CHECK_DEADLOCK FALSE
INVARIANTS
  BaselineKept
