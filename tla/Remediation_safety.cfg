\* Small repositories; one change by the user; two items.
CONSTANTS
  Repositories <- MCRepositories
  UserFiles = {"README.md", "LICENSE", ".github/CONTRIBUTING.md", ".dockerignore",
               ".flake8", ".mypy.ini"}
  MaxEdits = 1
  MaxSelected = 2
  MaxFiles = 2
SPECIFICATION Spec
\* The run ends with the report.
CHECK_DEADLOCK FALSE
INVARIANTS
  TypeOK
  CompleteClosesGap
  OpenGapsFollowedUp
  ReadyScoresNoWorse
  NoRival
  CompleteIsChecked
