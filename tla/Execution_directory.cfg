\* A directory that Git shows as one entry; its only committed file is deleted.
CONSTANTS
  Root = root
  Dirs = {"terraform"}
  DirOf <- IacDirOf
  Paths = {"terraform/main.tf", "terraform/variables.tf"}
  Committed = {"terraform/variables.tf"}
  Staged = {"terraform/variables.tf"}
  Trees <- AllTrees
  Plan <- IacOnly
  MaxFiles = 3
  CoverageFiles = {}
  ToolPaths = {}
  MaxEdits = 0
SPECIFICATION Spec
\* The run ends, is refused or is killed.
CHECK_DEADLOCK FALSE
INVARIANTS
  WritesRecorded
