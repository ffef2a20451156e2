------------------------------ MODULE Handlers ------------------------------
(***************************************************************************)
(* The workstream handlers of the execution phase (src/runtime/execution.  *)
(* py, _execute_workstream_item and the _handle_ methods): which files     *)
(* each creates when they are missing, which files make it create none,    *)
(* and the recommendation it ends with.  What is written into the files is *)
(* left out.  A handler runs in the repository root or in a package.       *)
(***************************************************************************)
EXTENDS Naturals, Sequences

Dispositions == {"COMPLETE", "PARTIAL", "NOT_PORTED", "AGENT_ONLY"}

\* A handler goes through its targets and creates those that do not exist, unless
\* a blocker exists.  Its recommendation is `outcome`, or `blocked` in that case;
\* COMPLETE stands for none.
Handler(targets, outcome, blockers, blocked) ==
  [targets |-> targets, outcome |-> outcome, blockers |-> blockers, blocked |-> blocked]

Creates(targets, outcome) == Handler(targets, outcome, {}, outcome)
CreatesUnless(blockers, targets) == Handler(targets, "COMPLETE", blockers, "COMPLETE")
Recommends(outcome) == Creates(<<>>, outcome)

HandleBugs == Recommends("AGENT_ONLY")

\* pytest.ini is all a missing test framework gets; tests are left to the agent.
HandleTests(lang) ==
  Creates(IF lang = "python" THEN <<"pytest.ini">> ELSE <<>>, "AGENT_ONLY")

HandleCi(lang) ==
  IF lang \in {"python", "javascript", "typescript", "rust", "go"}
  THEN Creates(<<".github/workflows/ci.yml">>, "COMPLETE")
  ELSE Handler(<<>>, "AGENT_ONLY", {".github/workflows/ci.yml"}, "COMPLETE")

HandleReadme       == Creates(<<"README.md">>, "COMPLETE")
HandleContributing == Creates(<<"CONTRIBUTING.md">>, "COMPLETE")
HandleCodeowners   == CreatesUnless({"CODEOWNERS"}, <<".github/CODEOWNERS">>)

\* Without the skill's bundled licence text the choice is the agent's.
HandleLicense(bundled) ==
  IF bundled THEN Creates(<<"LICENSE">>, "COMPLETE")
  ELSE Handler(<<>>, "AGENT_ONLY", {"LICENSE"}, "COMPLETE")

HandleSecurityPolicy == CreatesUnless({".github/SECURITY.md"}, <<"SECURITY.md">>)
HandleSecretExposure == Recommends("AGENT_ONLY")
HandleLockfile       == Recommends("PARTIAL")

HandleLinter(lang) ==
  IF lang \in {"javascript", "typescript"} THEN Creates(<<".eslintrc.json">>, "COMPLETE")
  ELSE IF lang = "python" THEN CreatesUnless({"pyproject.toml"}, <<"ruff.toml">>)
  ELSE Recommends("COMPLETE")

HandleTypeChecker(lang) ==
  Creates(IF lang = "typescript" THEN <<"tsconfig.json">>
          ELSE IF lang = "python" THEN <<"mypy.ini">> ELSE <<>>, "COMPLETE")

ContainerLanguages == {"python", "javascript", "typescript", "go", "rust"}

HandleContainer(lang, repoType) ==
  IF lang \notin ContainerLanguages THEN Recommends("AGENT_ONLY")
  ELSE Creates(<<"Dockerfile", ".dockerignore">>
               \o (IF repoType = "library" THEN <<>> ELSE <<"docker-compose.yml">>),
               "PARTIAL")

\* Any Terraform file or a Pulumi project counts as infrastructure of the user's.
TerraformFiles == {"main.tf", "terraform/main.tf", "terraform/variables.tf",
                   "terraform/outputs.tf"}
HandleIac ==
  Handler(<<"terraform/main.tf", "terraform/variables.tf", "terraform/outputs.tf">>,
          "PARTIAL", TerraformFiles \cup {"Pulumi.yaml", "Pulumi.yml"}, "PARTIAL")

HandleObservability == Creates(<<"docs/observability.md">>, "PARTIAL")

-----------------------------------------------------------------------------
(* Dispatch.  An item is a discovery gap: its id as prefix and number, its   *)
(* category, its severity and the telling words of its title.                *)

ItemSubtype(item) ==
  LET id == item.prefix
      Says(word) == word \in item.words
  IN
  IF id = "BUG" \/ item.category = "bugs" THEN "bug"
  ELSE IF id = "TEST" \/ item.category = "tests" THEN "test_framework"
  ELSE IF id = "LINT" \/ (item.category = "dx" /\ Says("linter")) THEN "linter"
  ELSE IF id = "TYPE" \/ (item.category = "dx" /\ Says("type")) THEN "type_checker"
  ELSE IF id = "SEC" THEN
    IF item.number = 1 \/ Says("secret") THEN "secret_exposure"
    ELSE IF item.number \in 100..199 \/ Says("lockfile") THEN "lockfile"
    ELSE IF Says("security") \/ Says("policy") THEN "security_policy"
    ELSE "security"
  ELSE IF id = "CI" \/ item.category = "ci" THEN "ci"
  ELSE IF id = "DOCS" \/ item.category = "docs" THEN
    IF Says("readme") THEN "readme"
    ELSE IF Says("contributing") THEN "contributing" ELSE "docs"
  ELSE IF id = "GOV" \/ item.category = "governance" THEN
    IF Says("codeowners") THEN "codeowners"
    ELSE IF Says("license") THEN "license" ELSE "governance"
  ELSE IF id = "CONT" THEN "container"
  ELSE IF id = "IAC" THEN "iac"
  ELSE IF id = "OBS" THEN "observability"
  ELSE item.category

\* _execute_workstream_item; lang and repoType are those discovery recorded.
HandlerOf(item, lang, repoType, bundled) ==
  LET subtype == ItemSubtype(item) IN
  CASE subtype = "bug"             -> HandleBugs
    [] subtype = "test_framework"  -> HandleTests(lang)
    [] subtype = "linter"          -> HandleLinter(lang)
    [] subtype = "type_checker"    -> HandleTypeChecker(lang)
    [] subtype = "secret_exposure" -> HandleSecretExposure
    [] subtype = "security_policy" -> HandleSecurityPolicy
    [] subtype = "lockfile"        -> HandleLockfile
    [] subtype = "ci"              -> HandleCi(lang)
    [] subtype = "readme"          -> HandleReadme
    [] subtype = "contributing"    -> HandleContributing
    [] subtype = "codeowners"      -> HandleCodeowners
    [] subtype = "license"         -> HandleLicense(bundled)
    [] subtype = "container"       -> HandleContainer(lang, repoType)
    [] subtype = "iac"             -> HandleIac
    [] subtype = "observability"   -> HandleObservability
    [] OTHER                       -> Recommends("NOT_PORTED")

Rank(d) == CASE d = "COMPLETE" -> 0 [] d = "PARTIAL" -> 1
             [] d = "NOT_PORTED" -> 2 [] OTHER -> 3

\* _resolve_completion: an item without a change is at best NOT_PORTED.
ResolveCompletion(changed, recommendation) ==
  LET base == IF changed THEN "COMPLETE" ELSE "NOT_PORTED" IN
  IF Rank(recommendation) > Rank(base) THEN recommendation ELSE base

\* _CHECKPOINT_METHODS: the checkpoint of each category.
CheckpointTable(category) ==
  CASE category \in {"tests", "bugs"}      -> "test"
    [] category = "dx"                     -> "lint_or_type_check"
    [] category = "ci"                     -> "file_validation"
    [] category = "security"               -> "scan"
    [] OTHER                               -> "existence"

CheckpointMethodOfTable(item) == CheckpointTable(item.category)

\* The checkpoint that planning gives an item (_checkpoint_for_item): for category
\* "dx" the word "type" in the title decides.
CheckpointMethod(item) ==
  IF item.category = "dx" THEN IF "type" \in item.words THEN "type_check" ELSE "lint"
  ELSE CheckpointTable(item.category)

\* Whether _run_checkpoint_gate runs a command.
RunsACommand(method) == method \in {"test", "lint", "type_check"}
=============================================================================
