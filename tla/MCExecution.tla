---------------------------- MODULE MCExecution ----------------------------
(* Working trees and plans for the instances of Execution and Rollback. *)
EXTENDS Execution

PlanOf(h, category) ==
  [targets |-> h.targets, outcome |-> h.outcome,
   blockers |-> h.blockers \cap Paths, blocked |-> h.blocked,
   method |-> CheckpointMethod([category |-> category, words |-> {}]), risky |-> FALSE]

\* DOCS-001, CONT-001 of a library, TEST-001, GOV-001, GOV-002 without the
\* bundled licence text, in a python repository; an item no run may apply; and the
\* first two files of IAC-001.
Readme     == PlanOf(HandleReadme, "docs")
Container  == PlanOf(HandleContainer("python", "library"), "performance")
Tests      == PlanOf(HandleTests("python"), "tests")
Codeowners == PlanOf(HandleCodeowners, "governance")
License    == PlanOf(HandleLicense(FALSE), "governance")
Risky      == [Readme EXCEPT !.risky = TRUE]
Iac        == PlanOf([HandleIac EXCEPT !.targets = SubSeq(@, 1, 2)], "performance")

MCDirOf == [p \in Paths |-> IF p = ".github/CODEOWNERS" THEN ".github" ELSE Root]
IacDirOf == [p \in Paths |-> "terraform"]

\* Every working tree in which a committed path is clean, edited or deleted and
\* another path absent or the user's; paths in `clean` have no user change.
TreesOver(clean) ==
  {t \in [Paths -> {"absent", "head", "user"}] :
     /\ \A p \in Paths : t[p] = "head" => p \in Committed
     /\ \A p \in Paths \cap clean : t[p] = IF p \in Committed THEN "head" ELSE "absent"}

AllTrees   == TreesOver({"a.py"})
CleanTrees == TreesOver(Paths)
\* A clean tree but for the user's own .coverage* file.
CoverageTrees == {[t EXCEPT ![".coveragerc"] = "user"] : t \in CleanTrees}

FullPlan      == <<Readme, Tests, Risky, Container, Codeowners, License>>
RollbackPlan  == <<Container, Tests>>
TestsOnly     == <<Tests>>
IacOnly       == <<Iac>>
=============================================================================
