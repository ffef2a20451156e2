--------------------------- MODULE MCRemediation ----------------------------
(* Repositories for TLC.  Each thing discovery asks for is there in one of its *)
(* variants, the first of which is none of the files the handlers write.       *)
EXTENDS Remediation

Variants ==
  <<{{"test_a.py"}, {"pytest.ini"}, {"package.json:test"}, {}},
    {{".flake8"}, {"pyproject.toml"}, {"pyproject.toml", "pyproject.toml:ruff"},
     {".eslintrc.json"}, {}},
    {{".mypy.ini"}, {"tsconfig.json"}, {"pyproject.toml", "pyproject.toml:pyright"}, {}},
    {{".gitlab-ci.yml"}, {".github/workflows/build.yaml"}, {}},
    {{"Containerfile"}, {"compose.yaml"}, {"k8s/"}, {".dockerignore"}, {}},
    {{"Pulumi.yaml"}, {"main.tf"}, {"terraform/outputs.tf"}, {}},
    {{"docs/observability.md"}, {}},
    {{"COPYING"}, {"LICENSE"}, {}},
    {{".github/SECURITY.md"}, {"SECURITY.md"}, {}},
    {{".github/CONTRIBUTING.md"}, {"CONTRIBUTING.md"}, {}},
    {{"CODEOWNERS"}, {".github/CODEOWNERS"}, {}},
    {{"README.md"}, {}},
    {{"uv.lock", "package-lock.json", "go.sum"}, {}},
    {{"bin/"}, {"setup.py"}, {}}>>

Usual == <<{"test_a.py"}, {".flake8"}, {".mypy.ini"}, {".gitlab-ci.yml"}, {"Containerfile"},
           {"Pulumi.yaml"}, {"docs/observability.md"}, {"COPYING"}, {".github/SECURITY.md"},
           {".github/CONTRIBUTING.md"}, {"CODEOWNERS"}, {"README.md"},
           {"uv.lock", "package-lock.json", "go.sum"}, {"bin/"}>>

FilesFor(choice) == UNION {choice[k] : k \in DOMAIN choice}

OneAway == UNION {{FilesFor([Usual EXCEPT ![k] = v]) : v \in Variants[k]} : k \in 1..14}
TwoAway ==
  UNION {{FilesFor([Usual EXCEPT ![p[1]] = v, ![p[2]] = w]) :
            v \in Variants[p[1]], w \in Variants[p[2]]} :
         p \in {q \in (1..14) \X (1..14) : q[1] < q[2]}}

MCRepositories ==
  {Repository(f, <<"python">>, FALSE, {}) : f \in TwoAway}
  \cup {Repository(f, l, FALSE, {}) :
          f \in OneAway, l \in {<<"typescript", "python">>, <<"go">>, <<"java">>, <<>>}}
  \cup {Repository(f, <<"python">>, TRUE, f \cap LicenseFiles) : f \in OneAway}
  \cup {Repository({}, l, FALSE, {}) : l \in {<<"python">>, <<"javascript">>, <<"rust">>}}
=============================================================================
