\* Runs asked for the package at a path.
CONSTANTS
  Dirs = {1, 2, 3, 4}
  Names = {1, 2, 3, 4}
  Places = {"in1", "in2", "in3", "in4", "top"}
  Inside <- MCInside
  Families <- PathFamilies
SPECIFICATION Spec
\* The run ends.
CHECK_DEADLOCK FALSE
INVARIANTS
  RestrictedToPackage
