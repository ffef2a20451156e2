\* Every graph over three packages, nested packages, packages of one name.
CONSTANTS
  Dirs = {1, 2, 3, 4}
  Names = {1, 2, 3, 4}
  Places = {"in1", "in2", "in3", "in4", "top"}
  Inside <- MCInside
  Families <- MCFamilies
SPECIFICATION Spec
\* The run ends.
CHECK_DEADLOCK FALSE
INVARIANTS
  TypeOK
  NoItemLost
  LandsInPackage
  ChangedOnly
  DependencyFirst
PROPERTIES
  PackageOrder
  RunEnds
