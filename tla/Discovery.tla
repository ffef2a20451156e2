----------------------------- MODULE Discovery ------------------------------
(***************************************************************************)
(* The discovery phase (src/runtime/discovery.py) with the inventory and   *)
(* the tool detection it rests on (inventory.py, tool_detection.py): which *)
(* gaps a repository has, and the scores computed from them.               *)
(*                                                                         *)
(* A repository is the set of its telling files, the executable languages  *)
(* of more than ten per cent of its code in descending order, whether its  *)
(* files contain secrets, and which licence files cannot be read.  A file  *)
(* that is looked into stands for itself; "file:word" stands for the word  *)
(* in it.  Files that are detected by a pattern are represented by one of  *)
(* the names that match.                                                   *)
(***************************************************************************)
EXTENDS Naturals, FiniteSets, Sequences, FiniteSetsExt

Repository(files, langs, secrets, unreadable) ==
  [files |-> files, langs |-> langs, secrets |-> secrets, unreadable |-> unreadable]

HasAny(repo, names) == repo.files \cap names # {}

-----------------------------------------------------------------------------
(* Inventory. *)

PrimaryLanguage(repo) == IF repo.langs = <<>> THEN "unknown" ELSE repo.langs[1]

Lockfiles(lang) ==
  CASE lang = "python" -> {"poetry.lock", "uv.lock"}
    [] lang \in {"javascript", "typescript"} -> {"package-lock.json", "yarn.lock"}
    [] lang = "go" -> {"go.sum"}
    [] lang = "rust" -> {"Cargo.lock"}
    [] OTHER -> {}

HasLockfileModel(lang) == Lockfiles(lang) # {}

LicenseFiles == {"LICENSE", "LICENSE.md", "LICENSE.txt", "COPYING"}

\* A licence file that cannot be read is passed over.
LicenseKnown(repo) == HasAny(repo, LicenseFiles \ repo.unreadable)

RepoType(repo) ==
  IF HasAny(repo, {"pnpm-workspace.yaml", "lerna.json", "go.work", "packages/a"})
  THEN "monorepo"
  ELSE IF HasAny(repo, {"bin/", "cli.py"}) THEN "cli"
  ELSE IF \/ HasAny(repo, {"setup.py"})
          \/ "package.json:main" \in repo.files /\ "src/index.html" \notin repo.files
          \/ {"Cargo.toml", "src/lib.rs"} \subseteq repo.files
             /\ "src/main.rs" \notin repo.files
       THEN "library"
  ELSE "application"

-----------------------------------------------------------------------------
(* Tool detection. *)

DetectTestFramework(repo) ==
  HasAny(repo, {"pytest.ini", "pyproject.toml:pytest", "test_a.py", "package.json:test",
                "jest.config.js", "vitest.config.ts", "Cargo.toml", "a_test.go"})

DetectLinter(repo) ==
  HasAny(repo, {"ruff.toml", ".ruff.toml", "pyproject.toml:ruff", ".flake8",
                "eslint.config.js", ".eslintrc.json", "package.json:eslint",
                "Cargo.toml", ".golangci.yml"})

\* Faults a property must notice are kept beside the definition they alter, under
\* its name and what they get wrong.
DetectTypeCheckerHidden(repo) ==
  HasAny(repo, {"tsconfig.json", ".mypy.ini", "pyproject.toml:pyright",
                "pyproject.toml:mypy"})

DetectTypeChecker(repo) ==
  HasAny(repo, {"tsconfig.json", "mypy.ini", ".mypy.ini", "pyproject.toml:pyright",
                "pyproject.toml:mypy"})

DetectCiPlatform(repo) ==
  HasAny(repo, {".github/workflows/ci.yml", ".github/workflows/build.yaml",
                ".gitlab-ci.yml", ".circleci/config.yml", "azure-pipelines.yml"})

DetectContainerizationDocker(repo) ==
  HasAny(repo, {"Dockerfile", "docker-compose.yml", "k8s/", "Chart.yaml"})

DetectContainerization(repo) ==
  HasAny(repo, {"Dockerfile", "Containerfile", "docker-compose.yml", "compose.yaml",
                "k8s/", "Chart.yaml"})

DetectIac(repo) ==
  HasAny(repo, {"main.tf", "terraform/main.tf", "terraform/variables.tf",
                "terraform/outputs.tf", "Pulumi.yaml", "Pulumi.yml"})

-----------------------------------------------------------------------------
(* Gaps. *)

Gap(prefix, number, category, severity, words) ==
  [prefix |-> prefix, number |-> number, category |-> category, severity |-> severity,
   words |-> words]

TestGap        == Gap("TEST", 1, "tests", "high", {"test", "framework"})
LinterGap      == Gap("LINT", 1, "dx", "medium", {"linter"})
TypeGap        == Gap("TYPE", 1, "dx", "low", {"type"})
SecretGap      == Gap("SEC", 1, "security", "critical", {"secret"})
LockfileGap(k) == Gap("SEC", 99 + k, "security", "high", {"lockfile"})
PolicyGap      == Gap("SEC", 3, "security", "medium", {"security", "policy"})
LicenseGap     == Gap("GOV", 2, "governance", "high", {"license"})
ReadmeGap      == Gap("DOCS", 1, "docs", "high", {"readme"})
ContributingGap == Gap("DOCS", 2, "docs", "low", {"contributing"})
CiGap          == Gap("CI", 1, "ci", "high", {"ci"})
CodeownersGap  == Gap("GOV", 1, "governance", "low", {"codeowners"})
ContainerGap   == Gap("CONT", 1, "performance", "medium", {"container"})
IacGap         == Gap("IAC", 1, "performance", "low", {"infrastructure"})
ObservabilityGap == Gap("OBS", 1, "dx", "low", {"observability"})

When(condition, gap) == IF condition THEN {gap} ELSE {}

\* _evaluate_all_gaps
Gaps(repo) ==
  LET lang == PrimaryLanguage(repo) IN
  UNION {
    When(~DetectTestFramework(repo), TestGap),
    When(~DetectLinter(repo), LinterGap),
    When(~DetectTypeChecker(repo) /\ lang \in {"typescript", "python"}, TypeGap),
    When(repo.secrets, SecretGap),
    {LockfileGap(k) : k \in {j \in 1..Len(repo.langs) :
       HasLockfileModel(repo.langs[j]) /\ ~HasAny(repo, Lockfiles(repo.langs[j]))}},
    When(~HasAny(repo, {"SECURITY.md", ".github/SECURITY.md"}), PolicyGap),
    When(~LicenseKnown(repo), LicenseGap),
    When("README.md" \notin repo.files, ReadmeGap),
    When(~HasAny(repo, {"CONTRIBUTING.md", ".github/CONTRIBUTING.md"}), ContributingGap),
    When(~DetectCiPlatform(repo), CiGap),
    When(~HasAny(repo, {"CODEOWNERS", ".github/CODEOWNERS"}), CodeownersGap),
    When(~DetectContainerization(repo), ContainerGap),
    When(~DetectIac(repo), IacGap),
    When("docs/observability.md" \notin repo.files, ObservabilityGap)}

-----------------------------------------------------------------------------
(* Scores. *)

Weight(severity) ==
  CASE severity = "critical" -> 30 [] severity = "high" -> 15
    [] severity = "medium" -> 8 [] OTHER -> 3

Least(a, b) == IF a < b THEN a ELSE b
Greatest(a, b) == IF a > b THEN a ELSE b

TotalPenalty(gaps) == SumFunction([g \in gaps |-> Weight(g.severity)])

ScoresUncapped(gaps) ==
  LET debt == TotalPenalty(gaps)
  IN  [debt |-> debt, readiness |-> IF debt > 100 THEN 0 ELSE 100 - debt, risk |-> "high"]

\* _calculate_risk_and_scores
Scores(gaps) ==
  LET debt == Least(100, TotalPenalty(gaps))
      Severe(severity) == \E g \in gaps : g.severity = severity
  IN  [debt |-> debt,
       readiness |-> 100 - debt,
       risk |-> IF Severe("critical") \/ debt >= 50 THEN "high"
                ELSE IF Severe("high") \/ debt >= 25 THEN "medium" ELSE "low"]
=============================================================================
