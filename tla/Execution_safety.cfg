\* Every dirty tree over eight paths, six items, one path edited by the user.
CONSTANTS
  Root = root
  Dirs = {".github"}
  DirOf <- MCDirOf
  Paths = {"README.md", "Dockerfile", ".dockerignore", "pytest.ini", "CODEOWNERS", ".github/CODEOWNERS", "LICENSE", "a.py"}
  Committed = {"README.md", "a.py"}
  Staged = {"a.py"}
  Trees <- AllTrees
  Plan <- FullPlan
  MaxFiles = 2
  CoverageFiles = {}
  ToolPaths = {"a.py"}
  MaxEdits = 1
SPECIFICATION Spec
\* The run ends, is refused or is killed.
CHECK_DEADLOCK FALSE
INVARIANTS
  TypeOK
  BaselineKept
  RecordedWithinLimit
  WritesRecorded
  CompleteHasChange
