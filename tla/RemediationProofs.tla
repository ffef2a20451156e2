------------------------- MODULE RemediationProofs --------------------------
(***************************************************************************)
(* What Remediation promises for every repository, whatever its files and  *)
(* languages, the planner's choice, the outcome of the commands and the    *)
(* user's edits: its types, that an item reported COMPLETE has closed its  *)
(* gap and, where commands may run, has passed its own checkpoint, that no *)
(* open gap is missing from the report, that the scores of a ready run are *)
(* no worse than before, and that no handler puts a file beside one of the *)
(* user's own of the same kind.                                            *)
(***************************************************************************)
EXTENDS Remediation, Induction, TLAPS

\* When a repository has a gap.
LEMMA GapCases ==
  ASSUME NEW r, NEW g
  PROVE  g \in Gaps(r) <=>
    \/ g = TestGap /\ ~DetectTestFramework(r)
    \/ g = LinterGap /\ ~DetectLinter(r)
    \/ g = TypeGap /\ ~DetectTypeChecker(r) /\ PrimaryLanguage(r) \in {"typescript", "python"}
    \/ g = SecretGap /\ r.secrets
    \/ \E k \in 1..Len(r.langs) :
         g = LockfileGap(k) /\ HasLockfileModel(r.langs[k]) /\ ~HasAny(r, Lockfiles(r.langs[k]))
    \/ g = PolicyGap /\ ~HasAny(r, {"SECURITY.md", ".github/SECURITY.md"})
    \/ g = LicenseGap /\ ~LicenseKnown(r)
    \/ g = ReadmeGap /\ "README.md" \notin r.files
    \/ g = ContributingGap /\ ~HasAny(r, {"CONTRIBUTING.md", ".github/CONTRIBUTING.md"})
    \/ g = CiGap /\ ~DetectCiPlatform(r)
    \/ g = CodeownersGap /\ ~HasAny(r, {"CODEOWNERS", ".github/CODEOWNERS"})
    \/ g = ContainerGap /\ ~DetectContainerization(r)
    \/ g = IacGap /\ ~DetectIac(r)
    \/ g = ObservabilityGap /\ "docs/observability.md" \notin r.files
BY DEF Gaps, When

\* The handler of each gap.
LEMMA Dispatch ==
  ASSUME NEW lang, NEW type, NEW text
  PROVE  /\ HandlerOf(TestGap, lang, type, text) = HandleTests(lang)
         /\ HandlerOf(LinterGap, lang, type, text) = HandleLinter(lang)
         /\ HandlerOf(TypeGap, lang, type, text) = HandleTypeChecker(lang)
         /\ HandlerOf(SecretGap, lang, type, text) = HandleSecretExposure
         /\ HandlerOf(PolicyGap, lang, type, text) = HandleSecurityPolicy
         /\ HandlerOf(LicenseGap, lang, type, text) = HandleLicense(text)
         /\ HandlerOf(ReadmeGap, lang, type, text) = HandleReadme
         /\ HandlerOf(ContributingGap, lang, type, text) = HandleContributing
         /\ HandlerOf(CiGap, lang, type, text) = HandleCi(lang)
         /\ HandlerOf(CodeownersGap, lang, type, text) = HandleCodeowners
         /\ HandlerOf(ContainerGap, lang, type, text) = HandleContainer(lang, type)
         /\ HandlerOf(IacGap, lang, type, text) = HandleIac
         /\ HandlerOf(ObservabilityGap, lang, type, text) = HandleObservability
<1> USE DEF HandlerOf, ItemSubtype, Gap
<1>1. HandlerOf(TestGap, lang, type, text) = HandleTests(lang)
  BY DEF TestGap
<1>2. HandlerOf(LinterGap, lang, type, text) = HandleLinter(lang)
  BY DEF LinterGap
<1>3. HandlerOf(TypeGap, lang, type, text) = HandleTypeChecker(lang)
  BY DEF TypeGap
<1>4. HandlerOf(SecretGap, lang, type, text) = HandleSecretExposure
  BY DEF SecretGap
<1>5. HandlerOf(PolicyGap, lang, type, text) = HandleSecurityPolicy
  BY DEF PolicyGap
<1>6. HandlerOf(LicenseGap, lang, type, text) = HandleLicense(text)
  BY DEF LicenseGap
<1>7. HandlerOf(ReadmeGap, lang, type, text) = HandleReadme
  BY DEF ReadmeGap
<1>8. HandlerOf(ContributingGap, lang, type, text) = HandleContributing
  BY DEF ContributingGap
<1>9. HandlerOf(CiGap, lang, type, text) = HandleCi(lang)
  BY DEF CiGap
<1>10. HandlerOf(CodeownersGap, lang, type, text) = HandleCodeowners
  BY DEF CodeownersGap
<1>11. HandlerOf(ContainerGap, lang, type, text) = HandleContainer(lang, type)
  BY DEF ContainerGap
<1>12. HandlerOf(IacGap, lang, type, text) = HandleIac
  BY DEF IacGap
<1>13. HandlerOf(ObservabilityGap, lang, type, text) = HandleObservability
  BY DEF ObservabilityGap
<1>14. QED
  BY <1>1, <1>2, <1>3, <1>4, <1>5, <1>6, <1>7, <1>8, <1>9, <1>10, <1>11, <1>12, <1>13

\* The handler of a missing lockfile, whichever language lacks it.
LEMMA DispatchLockfile ==
  ASSUME NEW lang, NEW type, NEW text, NEW k \in Nat \ {0}
  PROVE  HandlerOf(LockfileGap(k), lang, type, text) = HandleLockfile
BY DEF HandlerOf, ItemSubtype, Gap, LockfileGap

\* The files a gap's handler may write.
Writes(g, f) ==
  \/ g = TestGap /\ f = "pytest.ini"
  \/ g = LinterGap /\ f \in {".eslintrc.json", "ruff.toml"}
  \/ g = TypeGap /\ f \in {"tsconfig.json", "mypy.ini"}
  \/ g = PolicyGap /\ f = "SECURITY.md"
  \/ g = LicenseGap /\ f = "LICENSE"
  \/ g = ReadmeGap /\ f = "README.md"
  \/ g = ContributingGap /\ f = "CONTRIBUTING.md"
  \/ g = CiGap /\ f = ".github/workflows/ci.yml"
  \/ g = CodeownersGap /\ f = ".github/CODEOWNERS"
  \/ g = ContainerGap /\ f \in {"Dockerfile", ".dockerignore", "docker-compose.yml"}
  \/ g = IacGap /\ f \in {"terraform/main.tf", "terraform/variables.tf",
                          "terraform/outputs.tf"}
  \/ g = ObservabilityGap /\ f = "docs/observability.md"

\* The gaps discovery knows.
KnownGap(g) ==
  \/ g \in {TestGap, LinterGap, TypeGap, SecretGap, PolicyGap, LicenseGap, ReadmeGap,
            ContributingGap, CiGap, CodeownersGap, ContainerGap, IacGap, ObservabilityGap}
  \/ \E k \in Nat \ {0} : g = LockfileGap(k)

\* The files of the container handler.
LEMMA ContainerTargets ==
  ASSUME NEW lang, NEW type, NEW k \in 1..Len(HandleContainer(lang, type).targets)
  PROVE  HandleContainer(lang, type).targets[k]
           \in {"Dockerfile", ".dockerignore", "docker-compose.yml"}
<1> DEFINE S == {"Dockerfile", ".dockerignore", "docker-compose.yml"}
           t == HandleContainer(lang, type).targets
           both == <<"Dockerfile", ".dockerignore">>
           one == <<"docker-compose.yml">>
           none == <<>>
<1>1. t \in {none, both \o none, both \o one}
  BY DEF HandleContainer, Recommends, Creates, Handler
<1>2. both \in Seq(S) /\ one \in Seq(S) /\ none \in Seq(S)
  OBVIOUS
<1> HIDE DEF t, both, one, none, S
<1>3. both \o none \in Seq(S) /\ both \o one \in Seq(S)
  BY <1>2
<1>4. t \in Seq(S)
  BY <1>1, <1>2, <1>3
<1>5. t[k] \in S
  BY <1>4 DEF t
<1>6. QED
  BY <1>5 DEF t, S

\* No handler writes another gap's file.
LEMMA HandlerWrites ==
  ASSUME NEW g, KnownGap(g), NEW lang, NEW type, NEW text,
         NEW k \in 1..Len(HandlerOf(g, lang, type, text).targets)
  PROVE  Writes(g, HandlerOf(g, lang, type, text).targets[k])
<1> USE DEF Handler, Creates, CreatesUnless, Recommends
<1>1. CASE g = TestGap
  BY <1>1, Dispatch DEF HandleTests, Writes
<1>2. CASE g = LinterGap
  BY <1>2, Dispatch DEF HandleLinter, Writes
<1>3. CASE g = TypeGap
  BY <1>3, Dispatch DEF HandleTypeChecker, Writes
<1>4. CASE g = SecretGap
  BY <1>4, Dispatch DEF HandleSecretExposure
<1>5. CASE g = PolicyGap
  BY <1>5, Dispatch DEF HandleSecurityPolicy, Writes
<1>6. CASE g = LicenseGap
  BY <1>6, Dispatch DEF HandleLicense, Writes
<1>7. CASE g = ReadmeGap
  BY <1>7, Dispatch DEF HandleReadme, Writes
<1>8. CASE g = ContributingGap
  BY <1>8, Dispatch DEF HandleContributing, Writes
<1>9. CASE g = CiGap
  BY <1>9, Dispatch DEF HandleCi, Writes
<1>10. CASE g = CodeownersGap
  BY <1>10, Dispatch DEF HandleCodeowners, Writes
<1>11. CASE g = ContainerGap
  BY <1>11, Dispatch, ContainerTargets DEF Writes
<1>12. CASE g = IacGap
  BY <1>12, Dispatch DEF HandleIac, Writes
<1>13. CASE g = ObservabilityGap
  BY <1>13, Dispatch DEF HandleObservability, Writes
<1>14. ASSUME NEW l \in Nat \ {0}, g = LockfileGap(l) PROVE FALSE
  <2> DEFINE t == HandlerOf(g, lang, type, text).targets
  <2>1. HandlerOf(g, lang, type, text) = HandleLockfile
    BY <1>14, DispatchLockfile
  <2>2. HandleLockfile.targets = <<>>
    BY DEF HandleLockfile
  <2>3. t = <<>> /\ k \in 1..Len(t)
    BY <2>1, <2>2
  <2> HIDE DEF t
  <2>4. QED
    BY <2>3
<1>15. QED
  BY <1>1, <1>2, <1>3, <1>4, <1>5, <1>6, <1>7, <1>8, <1>9, <1>10, <1>11, <1>12, <1>13, <1>14
     DEF KnownGap

\* A handler ends with one of the dispositions.
LEMMA HandlerEnds ==
  ASSUME NEW g, KnownGap(g), NEW lang, NEW type, NEW text
  PROVE  /\ HandlerOf(g, lang, type, text).outcome \in Dispositions
         /\ HandlerOf(g, lang, type, text).blocked \in Dispositions
<1> USE DEF Handler, Creates, CreatesUnless, Recommends, Dispositions
<1>1. CASE g = TestGap
  BY <1>1, Dispatch DEF HandleTests
<1>2. CASE g = LinterGap
  BY <1>2, Dispatch DEF HandleLinter
<1>3. CASE g = TypeGap
  BY <1>3, Dispatch DEF HandleTypeChecker
<1>4. CASE g = SecretGap
  BY <1>4, Dispatch DEF HandleSecretExposure
<1>5. CASE g = PolicyGap
  BY <1>5, Dispatch DEF HandleSecurityPolicy
<1>6. CASE g = LicenseGap
  BY <1>6, Dispatch DEF HandleLicense
<1>7. CASE g = ReadmeGap
  BY <1>7, Dispatch DEF HandleReadme
<1>8. CASE g = ContributingGap
  BY <1>8, Dispatch DEF HandleContributing
<1>9. CASE g = CiGap
  BY <1>9, Dispatch DEF HandleCi
<1>10. CASE g = CodeownersGap
  BY <1>10, Dispatch DEF HandleCodeowners
<1>11. CASE g = ContainerGap
  BY <1>11, Dispatch DEF HandleContainer
<1>12. CASE g = IacGap
  BY <1>12, Dispatch DEF HandleIac
<1>13. CASE g = ObservabilityGap
  BY <1>13, Dispatch DEF HandleObservability
<1>14. ASSUME NEW l \in Nat \ {0}, g = LockfileGap(l)
       PROVE  /\ HandlerOf(g, lang, type, text).outcome \in Dispositions
              /\ HandlerOf(g, lang, type, text).blocked \in Dispositions
  BY <1>14, DispatchLockfile DEF HandleLockfile
<1>15. QED
  BY <1>1, <1>2, <1>3, <1>4, <1>5, <1>6, <1>7, <1>8, <1>9, <1>10, <1>11, <1>12, <1>13, <1>14
     DEF KnownGap

\* A repository with more files has no more gaps.
LEMMA MoreFilesFewerGaps ==
  ASSUME NEW r, NEW q, r.files \subseteq q.files, r.langs = q.langs, r.secrets = q.secrets,
         r.unreadable = q.unreadable
  PROVE  Gaps(q) \subseteq Gaps(r)
<1> USE DEF HasAny
<1>1. PrimaryLanguage(r) = PrimaryLanguage(q)
  BY DEF PrimaryLanguage
<1>2. /\ DetectTestFramework(r) => DetectTestFramework(q)
      /\ DetectLinter(r) => DetectLinter(q)
      /\ DetectTypeChecker(r) => DetectTypeChecker(q)
      /\ DetectCiPlatform(r) => DetectCiPlatform(q)
      /\ DetectContainerization(r) => DetectContainerization(q)
      /\ DetectIac(r) => DetectIac(q)
      /\ LicenseKnown(r) => LicenseKnown(q)
  BY DEF DetectTestFramework, DetectLinter, DetectTypeChecker, DetectCiPlatform,
         DetectContainerization, DetectIac, LicenseKnown
<1>3. ASSUME NEW g \in Gaps(q) PROVE g \in Gaps(r)
  BY <1>1, <1>2, GapCases
<1>4. QED
  BY <1>3

\* Writing the files of another gap's handler leaves a gap open.
LEMMA OthersLeaveOpen ==
  ASSUME NEW r, NEW q, NEW W, q.files = r.files \cup W, r.langs = q.langs,
         r.secrets = q.secrets, r.unreadable = q.unreadable,
         NEW h, \A f \in W : Writes(h, f), NEW g \in Gaps(r), g # h
  PROVE  g \in Gaps(q)
<1> USE DEF HasAny
<1>0. PrimaryLanguage(r) = PrimaryLanguage(q)
  BY DEF PrimaryLanguage
<1>1. CASE g = TestGap /\ ~DetectTestFramework(r)
  BY <1>1, GapCases DEF DetectTestFramework, Writes
<1>2. CASE g = LinterGap /\ ~DetectLinter(r)
  BY <1>2, GapCases DEF DetectLinter, Writes
<1>3. CASE g = TypeGap /\ ~DetectTypeChecker(r) /\ PrimaryLanguage(r) \in {"typescript", "python"}
  BY <1>0, <1>3, GapCases DEF DetectTypeChecker, Writes
<1>4. CASE g = SecretGap /\ r.secrets
  BY <1>4, GapCases
<1>5. ASSUME NEW k \in 1..Len(r.langs), g = LockfileGap(k), HasLockfileModel(r.langs[k]),
             ~HasAny(r, Lockfiles(r.langs[k]))
      PROVE  g \in Gaps(q)
  <2>1. ~HasAny(q, Lockfiles(r.langs[k]))
    BY <1>5 DEF Lockfiles, Writes
  <2>2. QED
    BY <1>5, <2>1, GapCases
<1>6. CASE g = PolicyGap /\ ~HasAny(r, {"SECURITY.md", ".github/SECURITY.md"})
  BY <1>6, GapCases DEF Writes
<1>7. CASE g = LicenseGap /\ ~LicenseKnown(r)
  BY <1>7, GapCases DEF LicenseKnown, LicenseFiles, Writes
<1>8. CASE g = ReadmeGap /\ "README.md" \notin r.files
  BY <1>8, GapCases DEF Writes
<1>9. CASE g = ContributingGap /\ ~HasAny(r, {"CONTRIBUTING.md", ".github/CONTRIBUTING.md"})
  BY <1>9, GapCases DEF Writes
<1>10. CASE g = CiGap /\ ~DetectCiPlatform(r)
  BY <1>10, GapCases DEF DetectCiPlatform, Writes
<1>11. CASE g = CodeownersGap /\ ~HasAny(r, {"CODEOWNERS", ".github/CODEOWNERS"})
  BY <1>11, GapCases DEF Writes
<1>12. CASE g = ContainerGap /\ ~DetectContainerization(r)
  BY <1>12, GapCases DEF DetectContainerization, Writes
<1>13. CASE g = IacGap /\ ~DetectIac(r)
  BY <1>13, GapCases DEF DetectIac, Writes
<1>14. CASE g = ObservabilityGap /\ "docs/observability.md" \notin r.files
  BY <1>14, GapCases DEF Writes
<1>15. QED
  BY <1>1, <1>2, <1>3, <1>4, <1>5, <1>6, <1>7, <1>8, <1>9, <1>10, <1>11, <1>12, <1>13, <1>14,
     GapCases

\* An item whose handler recommends nothing else has had its gap closed by what the
\* handler wrote, if that can be read.
LEMMA WrittenCloses ==
  ASSUME NEW r, NEW g, KnownGap(g), NEW lang, NEW type, NEW text, NEW h,
         h = HandlerOf(g, lang, type, text), h.outcome = "COMPLETE",
         NEW k \in 1..Len(h.targets), h.targets[k] \in r.files \ r.unreadable
  PROVE  g \notin Gaps(r)
<1> USE DEF Handler, Creates, CreatesUnless, Recommends, HasAny
<1>1. Writes(g, h.targets[k])
  BY HandlerWrites
<1>2. ASSUME NEW l \in Nat \ {0}, g = LockfileGap(l) PROVE FALSE
  BY <1>1, <1>2 DEF Writes, LockfileGap, Gap, TestGap, LinterGap, TypeGap, PolicyGap, LicenseGap,
     ReadmeGap, ContributingGap, CiGap, CodeownersGap, ContainerGap, IacGap, ObservabilityGap
<1>3. CASE g \in {TestGap, ContainerGap, IacGap, ObservabilityGap, SecretGap}
  BY <1>3, Dispatch DEF HandleTests, HandleContainer, HandleIac, HandleObservability,
     HandleSecretExposure
<1> DEFINE f == h.targets[k]
<1>4. f \in r.files /\ f \notin r.unreadable /\ Writes(g, f)
  BY <1>1
<1> HIDE DEF f
<1>5. /\ g = LinterGap => f \in {".eslintrc.json", "ruff.toml"}
      /\ g = TypeGap => f \in {"tsconfig.json", "mypy.ini"}
      /\ g = PolicyGap => f = "SECURITY.md"
      /\ g = LicenseGap => f = "LICENSE"
      /\ g = ReadmeGap => f = "README.md"
      /\ g = ContributingGap => f = "CONTRIBUTING.md"
      /\ g = CiGap => f = ".github/workflows/ci.yml"
      /\ g = CodeownersGap => f = ".github/CODEOWNERS"
  BY <1>4 DEF Writes, Gap, TestGap, LinterGap, TypeGap, PolicyGap, LicenseGap,
     ReadmeGap, ContributingGap, CiGap, CodeownersGap, ContainerGap, IacGap, ObservabilityGap
<1>6. /\ g = LinterGap => DetectLinter(r)
      /\ g = TypeGap => DetectTypeChecker(r)
      /\ g = LicenseGap => LicenseKnown(r)
      /\ g = CiGap => DetectCiPlatform(r)
  BY <1>4, <1>5 DEF DetectLinter, DetectTypeChecker, LicenseKnown, LicenseFiles, DetectCiPlatform
<1>7. /\ g = PolicyGap => HasAny(r, {"SECURITY.md", ".github/SECURITY.md"})
      /\ g = ReadmeGap => "README.md" \in r.files
      /\ g = ContributingGap => HasAny(r, {"CONTRIBUTING.md", ".github/CONTRIBUTING.md"})
      /\ g = CodeownersGap => HasAny(r, {"CODEOWNERS", ".github/CODEOWNERS"})
  BY <1>4, <1>5
<1> HIDE DEF HasAny
<1>8. g \in Gaps(r) => \/ g \in {TestGap, ContainerGap, IacGap, ObservabilityGap, SecretGap}
                       \/ \E l \in 1..Len(r.langs) : g = LockfileGap(l)
  BY <1>6, <1>7, GapCases
<1>9. 1..Len(r.langs) \subseteq Nat \ {0}
  OBVIOUS
<1>10. QED
  BY <1>2, <1>3, <1>8, <1>9

\* A gap is one of those its repository has only if nothing is detected for it.
LEMMA NothingDetected ==
  ASSUME NEW r
  PROVE  /\ TestGap \in Gaps(r) => ~DetectTestFramework(r)
         /\ LinterGap \in Gaps(r) => ~DetectLinter(r)
         /\ TypeGap \in Gaps(r) => ~DetectTypeChecker(r)
         /\ PolicyGap \in Gaps(r) => ~HasAny(r, {"SECURITY.md", ".github/SECURITY.md"})
         /\ LicenseGap \in Gaps(r) => ~LicenseKnown(r)
         /\ ReadmeGap \in Gaps(r) => "README.md" \notin r.files
         /\ ContributingGap \in Gaps(r) =>
              ~HasAny(r, {"CONTRIBUTING.md", ".github/CONTRIBUTING.md"})
         /\ CiGap \in Gaps(r) => ~DetectCiPlatform(r)
         /\ CodeownersGap \in Gaps(r) => ~HasAny(r, {"CODEOWNERS", ".github/CODEOWNERS"})
         /\ ContainerGap \in Gaps(r) => ~DetectContainerization(r)
         /\ IacGap \in Gaps(r) => ~DetectIac(r)
BY GapCases DEF Gap, TestGap, LinterGap, TypeGap, SecretGap, LockfileGap, PolicyGap,
   LicenseGap, ReadmeGap, ContributingGap, CiGap, CodeownersGap, ContainerGap, IacGap,
   ObservabilityGap

\* A handler that answers a gap writes a file of a kind only where there is none.
LEMMA NoneOfItsKind ==
  ASSUME NEW r, r.unreadable = {}, NEW g \in Gaps(r), NEW f, Writes(g, f), NEW K \in Kinds,
         f \in K
  PROVE  r.files \cap K = {}
<1> USE DEF HasAny
<1>1. CASE g = LicenseGap /\ f = "LICENSE"
  BY <1>1, NothingDetected DEF LicenseKnown, Kinds, LicenseFiles
<1>2. CASE g = LinterGap /\ f \in {".eslintrc.json", "ruff.toml"}
  BY <1>2, NothingDetected DEF DetectLinter, Kinds, LicenseFiles
<1>3. CASE g = TypeGap /\ f \in {"tsconfig.json", "mypy.ini"}
  BY <1>3, NothingDetected DEF DetectTypeChecker, Kinds, LicenseFiles
<1>4. CASE g = PolicyGap /\ f = "SECURITY.md"
  BY <1>4, NothingDetected DEF Kinds, LicenseFiles
<1>5. CASE g = ContributingGap /\ f = "CONTRIBUTING.md"
  BY <1>5, NothingDetected DEF Kinds, LicenseFiles
<1>6. CASE g = CodeownersGap /\ f = ".github/CODEOWNERS"
  BY <1>6, NothingDetected DEF Kinds, LicenseFiles
<1>7. CASE g = ContainerGap /\ f \in {"Dockerfile", ".dockerignore", "docker-compose.yml"}
  BY <1>7, NothingDetected DEF DetectContainerization, Kinds, LicenseFiles
<1>8. CASE g = IacGap /\ f \in {"terraform/main.tf", "terraform/variables.tf",
                                "terraform/outputs.tf"}
  BY <1>8, NothingDetected DEF DetectIac, Kinds, LicenseFiles
<1>9. CASE f \in {"pytest.ini", "README.md", ".github/workflows/ci.yml",
                  "docs/observability.md"}
  BY <1>9 DEF Kinds, LicenseFiles
<1>10. QED
  BY <1>1, <1>2, <1>3, <1>4, <1>5, <1>6, <1>7, <1>8, <1>9 DEF Writes

-----------------------------------------------------------------------------
(* Scores. *)

\* A repository has no other gaps.
LEMMA GapsKnown ==
  ASSUME NEW r, NEW g \in Gaps(r)
  PROVE  KnownGap(g)
<1>1. \A k \in 1..Len(r.langs) : k \in Nat \ {0}
  OBVIOUS
<1>2. QED
  BY <1>1, GapCases DEF KnownGap

\* The gaps that no language brings along.
FixedGaps == {TestGap, LinterGap, TypeGap, SecretGap, PolicyGap, LicenseGap, ReadmeGap,
              ContributingGap, CiGap, CodeownersGap, ContainerGap, IacGap, ObservabilityGap}

\* The gaps of n languages are finitely many.
LEMMA FiniteGaps ==
  ASSUME NEW n \in Nat
  PROVE  IsFiniteSet(FixedGaps \cup {LockfileGap(k) : k \in 1..n})
<1> DEFINE L == {LockfileGap(k) : k \in 1..n}
           f == [k \in 1..n |-> LockfileGap(k)]
<1>1. f \in Surjection(1..n, L)
  BY DEF Surjection
<1>2. IsFiniteSet(L)
  <2>1. IsFiniteSet(1..n)
    BY FS_Interval
  <2> HIDE DEF L, f
  <2>2. QED
    BY <1>1, <2>1, FS_Surjection
<1>3. IsFiniteSet(FixedGaps)
  <2>1. \A a, b, c, d, e : IsFiniteSet({a, b, c, d, e})
    <3> SUFFICES ASSUME NEW a, NEW b, NEW c, NEW d, NEW e
                 PROVE  IsFiniteSet({a, b, c, d, e})
      OBVIOUS
    <3>1. IsFiniteSet({} \cup {a})
      BY FS_EmptySet, FS_AddElement
    <3>2. IsFiniteSet(({} \cup {a}) \cup {b})
      BY <3>1, FS_AddElement
    <3>3. IsFiniteSet((({} \cup {a}) \cup {b}) \cup {c})
      BY <3>2, FS_AddElement
    <3>4. IsFiniteSet(((({} \cup {a}) \cup {b}) \cup {c}) \cup {d})
      BY <3>3, FS_AddElement
    <3>5. IsFiniteSet((((({} \cup {a}) \cup {b}) \cup {c}) \cup {d}) \cup {e})
      BY <3>4, FS_AddElement
    <3>6. {a, b, c, d, e} = (((({} \cup {a}) \cup {b}) \cup {c}) \cup {d}) \cup {e}
      OBVIOUS
    <3>7. QED
      BY <3>5, <3>6
  <2> DEFINE A == {TestGap, LinterGap, TypeGap, SecretGap, PolicyGap}
             B == {LicenseGap, ReadmeGap, ContributingGap, CiGap, CodeownersGap}
             C == {ContainerGap, IacGap, ObservabilityGap, ObservabilityGap, ObservabilityGap}
  <2>2. IsFiniteSet(A) /\ IsFiniteSet(B) /\ IsFiniteSet(C)
    BY <2>1
  <2>3. FixedGaps = A \cup B \cup C
    BY DEF FixedGaps
  <2> HIDE DEF A, B, C
  <2>4. QED
    BY <2>2, <2>3, FS_Union
<1>4. QED
  BY <1>2, <1>3, FS_Union

\* A repository has finitely many gaps.
LEMMA GapsFinite ==
  ASSUME NEW r, r.langs \in Seq(STRING)
  PROVE  IsFiniteSet(Gaps(r))
<1> DEFINE A == FixedGaps \cup {LockfileGap(k) : k \in 1..Len(r.langs)}
<1>1. Gaps(r) \in SUBSET A
  BY GapCases DEF FixedGaps
<1>2. IsFiniteSet(A)
  BY FiniteGaps
<1> HIDE DEF A
<1>3. QED
  BY <1>1, <1>2, FS_Subset

\* The penalty of finitely many gaps is a number.
LEMMA PenaltyType == ASSUME NEW G, IsFiniteSet(G) PROVE TotalPenalty(G) \in Nat
<1> DEFINE f == [g \in G |-> Weight(g.severity)]
<1>1. \A g \in G : f[g] \in Nat
  BY DEF Weight
<1>2. DOMAIN f = G
  OBVIOUS
<1> HIDE DEF f
<1>3. SumFunctionOnSet(f, G) \in Nat
  BY <1>1, SumType
<1>4. QED
  BY <1>2, <1>3 DEF TotalPenalty, SumFunction, f

\* Fewer gaps cost no more.
LEMMA PenaltyGrows ==
  ASSUME NEW G, IsFiniteSet(G), NEW F \in SUBSET G
  PROVE  TotalPenalty(F) <= TotalPenalty(G)
<1> DEFINE f == [g \in F |-> Weight(g.severity)]
           h == [g \in G |-> Weight(g.severity)]
<1>1. /\ \A g \in G : h[g] \in Nat
      /\ \A g \in F : f[g] = h[g]
  BY DEF Weight
<1>2. DOMAIN f = F /\ DOMAIN h = G
  OBVIOUS
<1>3. IsFiniteSet(F)
  BY FS_Subset
<1> HIDE DEF f, h
<1>4. SumFunctionOnSet(f, F) = SumFunctionOnSet(h, F)
  BY <1>1, <1>3, SumOfEqual
<1>5. SumFunctionOnSet(h, F) <= SumFunctionOnSet(h, G)
  BY <1>1, SumSubset
<1>6. TotalPenalty(F) = SumFunctionOnSet(f, F) /\ TotalPenalty(G) = SumFunctionOnSet(h, G)
  BY <1>2 DEF TotalPenalty, SumFunction, f, h
<1>7. QED
  BY <1>4, <1>5, <1>6

ScoreType == [debt : 0..100, readiness : 0..100, risk : {"low", "medium", "high"}]

\* Scores are percentages.
LEMMA ScoresType == ASSUME NEW G, IsFiniteSet(G) PROVE Scores(G) \in ScoreType
<1>1. TotalPenalty(G) \in Nat
  BY PenaltyType
<1>2. Least(100, TotalPenalty(G)) \in 0..100
  BY <1>1 DEF Least
<1>3. QED
  BY <1>2 DEF Scores, ScoreType

\* Fewer gaps score no worse.
LEMMA ScoresNoWorse ==
  ASSUME NEW G, IsFiniteSet(G), NEW F \in SUBSET G
  PROVE  /\ Scores(F).debt <= Scores(G).debt
         /\ Scores(F).readiness >= Scores(G).readiness
<1>1. IsFiniteSet(F)
  BY FS_Subset
<1>2. TotalPenalty(F) \in Nat /\ TotalPenalty(G) \in Nat /\ TotalPenalty(F) <= TotalPenalty(G)
  BY <1>1, PenaltyType, PenaltyGrows
<1>3. QED
  BY <1>2 DEF Scores, Least

\* So a handler's files close no other gap.
LEMMA OthersStay ==
  ASSUME NEW r, NEW q, NEW W, q.files = r.files \cup W, r.langs = q.langs,
         r.secrets = q.secrets, r.unreadable = q.unreadable,
         NEW g, \A f \in W : Writes(g, f)
  PROVE  \A h \in Gaps(r) : h # g => h \in Gaps(q)
BY OthersLeaveOpen, Zenon

-----------------------------------------------------------------------------
(* The invariant. *)

\* A licence file that could not be read and is gone has been deleted by the user.
Unread == repo.unreadable \subseteq repo.files \cup dirty

\* What the later phases have not touched yet.
Untouched ==
  /\ stage \in {"start", "discovery"} => selected = {} /\ escalated = {}
  /\ stage = "start" => discovery.gaps = {}
  /\ stage \in {"start", "discovery", "plan"} =>
       created = {} /\ \A g \in selected : completion[g] = "none"

\* The scores discovery saved are those of the gaps it saved.
Scored == discovery.scores = Scores(discovery.gaps)

\* While the user keeps away no gap appears, and one is closed only by its handler.
NoneAppears == stage # "start" /\ ~edited => Gaps(repo) \subseteq discovery.gaps
StillOpen ==
  ~edited => \A g \in discovery.gaps :
               (g \in selected => completion[g] = "none") => g \in Gaps(repo)

\* What CompleteClosesGap says, at every stage.
Closed == \A g \in selected : completion[g] = "COMPLETE" => g \notin Gaps(repo)

\* The run of its tool that an item's criterion asks for (planning.py:26).
Checked(g) ==
  /\ g = LinterGap => <<g, "lint">> \in passed
  /\ g = TypeGap   => <<g, "type_check">> \in passed

\* The report's follow-ups are those at the time it is written.
Reported == IF stage = "report" THEN report.followups = Followups ELSE report = NoReport

RemediationInv ==
  /\ TypeOK /\ Unread /\ Untouched /\ Scored /\ NoneAppears /\ StillOpen /\ Closed
  /\ Reported /\ NoRival /\ ReadyScoresNoWorse /\ CompleteIsChecked

\* A repository that nobody has looked at yet.
LEMMA InitRemediation == Init => RemediationInv
<1> SUFFICES ASSUME Init PROVE RemediationInv
  OBVIOUS
<1> USE DEF Init
<1>1. /\ repo = Repository(repo.files, repo.langs, repo.secrets, repo.unreadable)
      /\ repo.langs \in Seq(STRING) /\ repo.secrets \in BOOLEAN
      /\ repo.unreadable \subseteq repo.files \cap LicenseFiles
  BY RemediationAssumption
<1>2. discovery.scores \in ScoreType /\ discovery.scores = Scores(discovery.gaps)
  BY ScoresType, FS_EmptySet
<1>3. completion \in [selected -> Dispositions \cup {"none"}]
  OBVIOUS
<1>4. /\ report.readiness \in 0..100 /\ report.debt \in 0..100 /\ report.ready \in BOOLEAN
      /\ report.followups \subseteq discovery.gaps /\ created \subseteq repo.files
  BY DEF NoReport
<1>5. TypeOK
  BY <1>1, <1>2, <1>3, <1>4 DEF TypeOK, ScoreType
<1>6. /\ Unread /\ Untouched /\ Scored /\ NoneAppears /\ StillOpen /\ Closed /\ Reported
      /\ NoRival /\ ReadyScoresNoWorse /\ CompleteIsChecked
  BY <1>1, <1>2 DEF CompleteIsChecked, Unread, Untouched, Scored, NoneAppears, StillOpen, Closed, Reported,
     NoRival, ReadyScoresNoWorse, NoReport
<1>7. QED
  BY <1>5, <1>6 DEF RemediationInv

\* Discovery's gaps are known ones.
LEMMA SelectedKnown == ASSUME TypeOK, NEW g \in discovery.gaps PROVE KnownGap(g)
<1>1. \A k \in 1..Len(repo.langs) : k \in Nat \ {0}
  OBVIOUS
<1>2. QED
  BY <1>1 DEF TypeOK, AllGaps, KnownGap

\* A handler that writes some of its files and concludes its item.
LEMMA Concluding ==
  ASSUME RemediationInv, stage = "items", NEW g \in Undecided, NEW W,
         \A f \in W : Writes(g, f), repo' = [repo EXCEPT !.files = @ \cup W],
         NEW d \in Dispositions, completion' = [completion EXCEPT ![g] = d],
         d = "COMPLETE" => g \notin Gaps(repo'),
         created' \in {created, created \cup W},
         recs' \subseteq selected \X Dispositions,
         passed \subseteq passed', passed' \subseteq selected \X {"test", "lint", "type_check"},
         gatesAllowed /\ d = "COMPLETE" => Checked(g)',
         UNCHANGED <<dirty, edited, stage, discovery, plan, run, status, report>>
  PROVE  RemediationInv'
<1> USE DEF plan, run
<1>1. /\ repo'.files = repo.files \cup W /\ repo'.langs = repo.langs
      /\ repo'.secrets = repo.secrets /\ repo'.unreadable = repo.unreadable
      /\ repo' = Repository(repo'.files, repo'.langs, repo'.secrets, repo'.unreadable)
  BY DEF RemediationInv, TypeOK, Repository
<1>2. Gaps(repo') \subseteq Gaps(repo)
  BY <1>1, MoreFilesFewerGaps
<1>3. \A h \in Gaps(repo) : h # g => h \in Gaps(repo')
  <2> DEFINE q == repo'
  <2>1. q.files = repo.files \cup W
    BY <1>1
  <2>2. repo.langs = q.langs /\ repo.secrets = q.secrets /\ repo.unreadable = q.unreadable
    BY <1>1
  <2>3. \A f \in W : Writes(g, f)
    OBVIOUS
  <2> HIDE DEF q
  <2>4. \A h \in Gaps(repo) : h # g => h \in Gaps(q)
    BY <2>1, <2>2, <2>3, OthersStay, Zenon
  <2>5. QED
    BY <2>4 DEF q
<1>4. g \in selected /\ completion[g] = "none" /\ g \in discovery.gaps
  BY DEF Undecided, RemediationInv, TypeOK
<1>5. /\ completion' \in [selected -> Dispositions \cup {"none"}]
      /\ completion'[g] = d /\ d # "none"
      /\ \A h \in selected : h # g => completion'[h] = completion[h]
  BY <1>4 DEF RemediationInv, TypeOK, Dispositions
<1>6. TypeOK'
  <2>1. created' \subseteq repo'.files
    BY <1>1 DEF RemediationInv, TypeOK
  <2>2. discovery.gaps \subseteq AllGaps' /\ AllGaps' = AllGaps
    BY <1>1 DEF AllGaps, RemediationInv, TypeOK
  <2>3. QED
    BY <1>1, <1>5, <2>1, <2>2 DEF RemediationInv, TypeOK
<1>7. Unread' /\ Untouched' /\ Scored' /\ NoneAppears' /\ Reported' /\ ReadyScoresNoWorse'
  BY <1>1, <1>2 DEF RemediationInv, Unread, Untouched, Scored, NoneAppears, Reported,
     ReadyScoresNoWorse, Followups, IncompleteSelected
<1>8. StillOpen'
  BY <1>3, <1>4, <1>5 DEF RemediationInv, StillOpen
<1>9. Closed'
  BY <1>2, <1>5 DEF RemediationInv, Closed
<1>10. NoRival'
  <2> SUFFICES ASSUME ~edited, repo.unreadable = {}, NEW K \in Kinds, created' \cap K # {}
               PROVE  repo'.files \cap K \subseteq created'
    BY <1>1 DEF NoRival, Kinds, LicenseFiles
  <2>1. created \subseteq repo.files
    BY DEF RemediationInv, TypeOK
  <2>2. CASE W \cap K = {}
    <3>1. created \cap K # {}
      BY <2>2
    <3>2. repo.files \cap K \subseteq created
      BY <3>1 DEF RemediationInv, NoRival
    <3>3. QED
      BY <1>1, <2>2, <3>2
  <2>3. CASE W \cap K # {}
    <3>1. g \in Gaps(repo)
      BY <1>4 DEF RemediationInv, StillOpen
    <3>2. PICK f \in W : f \in K
      BY <2>3
    <3>3. repo.files \cap K = {}
      BY <3>1, <3>2, NoneOfItsKind
    <3>4. created' = created \cup W
      BY <2>1, <3>3
    <3>5. QED
      BY <1>1, <3>3, <3>4
  <2>4. QED
    BY <2>2, <2>3
<1>11. CompleteIsChecked'
  BY <1>5 DEF RemediationInv, CompleteIsChecked, Checked
<1>12. QED
  BY <1>6, <1>7, <1>8, <1>9, <1>10, <1>11 DEF RemediationInv

\* What a handler finds missing are files of its gap's.
LEMMA MissingWrites ==
  ASSUME TypeOK, NEW g \in selected, NEW f \in FilesOf(HandlerFor(g), Missing(HandlerFor(g)))
  PROVE  Writes(g, f)
<1>1. KnownGap(g)
  BY SelectedKnown DEF TypeOK
<1>2. PICK k \in 1..Len(HandlerFor(g).targets) : f = HandlerFor(g).targets[k]
  BY DEF FilesOf, Missing
<1>3. QED
  BY <1>1, <1>2, HandlerWrites DEF HandlerFor

\* What a handler recommends is a disposition.
LEMMA RecommendationType ==
  ASSUME TypeOK, NEW g \in selected
  PROVE  Recommendation(HandlerFor(g)) \in Dispositions
<1>1. KnownGap(g)
  BY SelectedKnown DEF TypeOK
<1>2. HandlerFor(g).outcome \in Dispositions /\ HandlerFor(g).blocked \in Dispositions
  BY <1>1, HandlerEnds DEF HandlerFor
<1>3. QED
  BY <1>2 DEF Recommendation

\* Concluding an item records recommendations for items.
LEMMA ConcludeType ==
  ASSUME TypeOK, NEW g \in Undecided, NEW d \in Dispositions, NEW R \in SUBSET Dispositions,
         Conclude(g, d, R)
  PROVE  recs' \subseteq selected \X Dispositions
BY DEF Conclude, TypeOK, Undecided

\* A handler that is refused has written its own files, and its item is no COMPLETE one.
LEMMA StepRefuse ==
  ASSUME RemediationInv, NEW g \in selected, RefuseDirty(g)
  PROVE  RemediationInv'
<1> DEFINE h == HandlerFor(g)
<1>1. PICK k \in Missing(h) :
        LET before == {j \in Missing(h) : j < k} IN
        /\ h.targets[k] \in dirty /\ FilesOf(h, before) \cap dirty = {}
        /\ repo' = [repo EXCEPT !.files = @ \cup FilesOf(h, before)]
  BY DEF RefuseDirty
<1> DEFINE W == FilesOf(h, {j \in Missing(h) : j < k})
<1>2. \A f \in W : f \in FilesOf(h, Missing(h))
  BY DEF FilesOf
<1> HIDE DEF h
<1>3. \A f \in W : Writes(g, f)
  BY <1>2, MissingWrites DEF h, RemediationInv
<1>4. repo' = [repo EXCEPT !.files = @ \cup W]
  BY <1>1
<1> HIDE DEF W
<1>5. /\ "AGENT_ONLY" \in Dispositions /\ "AGENT_ONLY" # "COMPLETE"
      /\ {"AGENT_ONLY"} \in SUBSET Dispositions
  BY DEF Dispositions
<1>6. /\ stage = "items" /\ g \in Undecided /\ Conclude(g, "AGENT_ONLY", {"AGENT_ONLY"})
      /\ UNCHANGED <<dirty, edited, stage, discovery, plan, run, passed, created, status,
                     report>>
  BY DEF RefuseDirty
<1>7. recs' \subseteq selected \X Dispositions
  BY <1>5, <1>6, ConcludeType DEF RemediationInv
<1>8. completion' = [completion EXCEPT ![g] = "AGENT_ONLY"]
  BY <1>6 DEF Conclude
<1>9. /\ passed' = passed /\ passed' \subseteq selected \X {"test", "lint", "type_check"}
      /\ created' \in {created, created \cup W}
  BY <1>6 DEF RemediationInv, TypeOK
<1>10. QED
  BY <1>3, <1>4, <1>5, <1>6, <1>7, <1>8, <1>9, Concluding

\* An item that its handler closes without a recommendation has been written for.
LEMMA CompleteWritten ==
  ASSUME RemediationInv, NEW g \in Undecided, NEW W,
         W = FilesOf(HandlerFor(g), Missing(HandlerFor(g))), W \cap dirty = {},
         repo' = [repo EXCEPT !.files = @ \cup W],
         ResolveCompletion(W # {}, Recommendation(HandlerFor(g))) = "COMPLETE"
  PROVE  g \notin Gaps(repo')
<1> DEFINE h == HandlerFor(g)
<1>1. W # {} /\ Recommendation(h) = "COMPLETE"
  <2> DEFINE R == Recommendation(h)
  <2>1. R \in Dispositions
    BY RecommendationType DEF RemediationInv, Undecided
  <2> HIDE DEF R
  <2>2. ResolveCompletion(W # {}, R) = "COMPLETE"
    BY DEF R
  <2>3. QED
    BY <2>1, <2>2 DEF ResolveCompletion, Rank, Dispositions, R
<1> HIDE DEF h
<1>2. PICK k \in 1..Len(h.targets) :
        h.blockers \cap repo.files = {} /\ h.targets[k] \in W /\ h.targets[k] \notin repo.files
  BY <1>1 DEF FilesOf, Missing, h
<1>3. h.outcome = "COMPLETE"
  BY <1>1, <1>2 DEF Recommendation
<1>4. repo'.files = repo.files \cup W /\ repo'.unreadable = repo.unreadable
  BY DEF RemediationInv, TypeOK, Repository
<1>5. h.targets[k] \in repo'.files \ repo'.unreadable
  BY <1>2, <1>4 DEF RemediationInv, Unread
<1>6. KnownGap(g) /\ h = HandlerOf(g, discovery.lang, discovery.type, bundled)
  BY SelectedKnown DEF RemediationInv, TypeOK, Undecided, h, HandlerFor
<1>7. QED
  BY <1>3, <1>5, <1>6, WrittenCloses

\* The linter's gap is checked by the linter, that of the type checker by the latter.
LEMMA CheckpointOf == CheckpointMethod(LinterGap) = "lint" /\ CheckpointMethod(TypeGap) = "type_check"
BY DEF CheckpointMethod, LinterGap, TypeGap, Gap

\* A handler that ends has closed its gap if its item is COMPLETE, and its checkpoint has
\* passed where commands may run.
LEMMA StepHandle ==
  ASSUME RemediationInv, NEW g \in selected, HandleItem(g)
  PROVE  RemediationInv'
<1> DEFINE R == Recommendation(HandlerFor(g))
           W == FilesOf(HandlerFor(g), Missing(HandlerFor(g)))
<1>1. PICK c \in Checkpoint(g) :
          /\ passed' = passed \cup When(c = "passed", <<g, CheckpointMethod(g)>>)
          /\ IF c = "failed"
             THEN Conclude(g, "PARTIAL", {R, "PARTIAL"})
             ELSE Conclude(g, ResolveCompletion(W # {}, R), {R})
  BY DEF HandleItem
<1>2. /\ stage = "items" /\ g \in Undecided /\ W \cap dirty = {}
      /\ repo' = [repo EXCEPT !.files = @ \cup W] /\ created' = created \cup W
      /\ UNCHANGED <<dirty, edited, stage, discovery, plan, run, status, report>>
  BY DEF HandleItem
<1>3. \A f \in W : Writes(g, f)
  BY MissingWrites DEF RemediationInv
<1>4. R \in Dispositions
  BY RecommendationType DEF RemediationInv
<1>5. ResolveCompletion(W # {}, R) = "COMPLETE" => g \notin Gaps(repo')
  BY <1>2, CompleteWritten
<1>6. passed \subseteq passed' /\ passed' \subseteq selected \X {"test", "lint", "type_check"}
  <2>1. c = "passed" => CheckpointMethod(g) \in tools
    BY DEF Checkpoint
  <2>2. tools \subseteq {"test", "lint", "type_check"}
        /\ passed \subseteq selected \X {"test", "lint", "type_check"}
    BY DEF RemediationInv, TypeOK
  <2>3. CASE c = "passed"
    <3>1. <<g, CheckpointMethod(g)>> \in selected \X {"test", "lint", "type_check"}
      BY <2>1, <2>2, <2>3
    <3>2. passed' = passed \cup {<<g, CheckpointMethod(g)>>}
      BY <1>1, <2>3 DEF When
    <3>3. QED
      BY <2>2, <3>1, <3>2
  <2>4. CASE c # "passed"
    BY <1>1, <2>2, <2>4 DEF When
  <2>5. QED
    BY <2>3, <2>4
<1>7. gatesAllowed /\ c # "failed" => Checked(g)'
  <2>1. ASSUME gatesAllowed, c # "failed", g \in {LinterGap, TypeGap}
        PROVE  <<g, CheckpointMethod(g)>> \in passed'
    <3>1. RunsACommand(CheckpointMethod(g))
      BY <2>1, CheckpointOf DEF RunsACommand
    <3>2. c = "passed"
      BY <2>1, <3>1 DEF Checkpoint
    <3>3. QED
      BY <1>1, <3>2 DEF When
  <2>2. QED
    BY <2>1, CheckpointOf DEF Checked
<1> HIDE DEF R, W
<1>8. PICK d \in Dispositions, Q \in SUBSET Dispositions :
        /\ Conclude(g, d, Q)
        /\ d = "COMPLETE" => g \notin Gaps(repo') /\ c # "failed"
  <2>1. CASE c = "failed"
    <3>1. "PARTIAL" \in Dispositions /\ {R, "PARTIAL"} \in SUBSET Dispositions
      BY <1>4 DEF Dispositions
    <3>2. QED
      BY <1>1, <2>1, <3>1
  <2>2. CASE c # "failed"
    <3>1. ResolveCompletion(W # {}, R) \in Dispositions
      BY <1>4 DEF ResolveCompletion, Dispositions
    <3>2. QED
      BY <1>1, <1>4, <1>5, <2>2, <3>1
  <2>3. QED
    BY <2>1, <2>2
<1>9. recs' \subseteq selected \X Dispositions
  BY <1>2, <1>8, ConcludeType DEF RemediationInv
<1>10. completion' = [completion EXCEPT ![g] = d]
  BY <1>8 DEF Conclude
<1>11. QED
  BY <1>2, <1>3, <1>6, <1>7, <1>8, <1>9, <1>10, Concluding

\* An item skipped at the file limit is left to the agent.
LEMMA StepSkip ==
  ASSUME RemediationInv, NEW g \in selected, SkipAtLimit(g)
  PROVE  RemediationInv'
<1> DEFINE W == {}
<1>1. /\ stage = "items" /\ g \in Undecided /\ Conclude(g, "AGENT_ONLY", {"AGENT_ONLY"})
      /\ UNCHANGED <<repo, dirty, edited, stage, discovery, plan, run, passed, created, status,
                     report>>
  BY DEF SkipAtLimit
<1>2. /\ "AGENT_ONLY" \in Dispositions /\ "AGENT_ONLY" # "COMPLETE"
      /\ {"AGENT_ONLY"} \in SUBSET Dispositions
  BY DEF Dispositions
<1>3. recs' \subseteq selected \X Dispositions
  BY <1>1, <1>2, ConcludeType DEF RemediationInv
<1>4. repo' = [repo EXCEPT !.files = @ \cup W] /\ created' = created \cup W
  BY <1>1 DEF RemediationInv, TypeOK, Repository
<1>5. passed' = passed /\ passed' \subseteq selected \X {"test", "lint", "type_check"}
  BY <1>1 DEF RemediationInv, TypeOK
<1>6. completion' = [completion EXCEPT ![g] = "AGENT_ONLY"] /\ \A f \in W : Writes(g, f)
  BY <1>1 DEF Conclude
<1> HIDE DEF W
<1>7. QED
  BY <1>1, <1>2, <1>3, <1>4, <1>5, <1>6, Concluding

\* The user edits before the first item is worked on.
LEMMA StepUser ==
  ASSUME RemediationInv, NEW f \in UserFiles, UserEdit(f)
  PROVE  RemediationInv'
<1> USE DEF plan, run, results
<1>1. /\ repo'.langs = repo.langs /\ repo'.secrets = repo.secrets
      /\ repo'.unreadable = repo.unreadable /\ repo.files \subseteq repo'.files \cup dirty'
      /\ repo' = Repository(repo'.files, repo'.langs, repo'.secrets, repo'.unreadable)
      /\ dirty \subseteq dirty'
  BY DEF UserEdit, RemediationInv, TypeOK, Repository
<1>2. /\ stage \in {"start", "discovery", "plan"} /\ edited' = (edited \/ stage # "start")
      /\ created = {} /\ \A g \in selected : completion[g] = "none"
      /\ UNCHANGED <<stage, discovery, selected, escalated, gatesAllowed, bundled, tools,
                     completion, recs, passed, created, status, report>>
  BY DEF UserEdit, RemediationInv, Untouched
<1>3. TypeOK'
  <2>1. AllGaps' = AllGaps /\ edited' \in BOOLEAN
    BY <1>1, <1>2 DEF AllGaps, RemediationInv, TypeOK
  <2>2. QED
    BY <1>1, <1>2, <2>1 DEF RemediationInv, TypeOK
<1>4. Unread' /\ Untouched' /\ Scored' /\ Closed' /\ Reported' /\ NoRival'
  BY <1>1, <1>2 DEF RemediationInv, Unread, Untouched, Scored, Closed, Reported, NoRival,
     Followups, IncompleteSelected
<1>5. NoneAppears' /\ StillOpen'
  BY <1>2 DEF RemediationInv, NoneAppears, StillOpen, Untouched
<1>6. ReadyScoresNoWorse' /\ CompleteIsChecked'
  BY <1>2 DEF RemediationInv, ReadyScoresNoWorse, CompleteIsChecked, Reported, NoReport
<1>7. QED
  BY <1>3, <1>4, <1>5, <1>6 DEF RemediationInv

\* Discovery records the gaps of the moment and their scores.
LEMMA StepDiscover == ASSUME RemediationInv, Discover PROVE RemediationInv'
<1> USE DEF plan, run, results
<1>1. /\ stage = "start" /\ stage' = "discovery" /\ selected = {} /\ escalated = {} /\ created = {}
      /\ discovery'.gaps = Gaps(repo) /\ discovery'.scores = Scores(Gaps(repo))
      /\ UNCHANGED <<repo, dirty, edited, selected, escalated, gatesAllowed, bundled, tools,
                     completion, recs, passed, created, status, report>>
  BY DEF Discover, RemediationInv, Untouched
<1>2. Gaps(repo) \subseteq AllGaps
  BY GapCases DEF AllGaps
<1>3. Scores(Gaps(repo)) \in ScoreType
  BY ScoresType, GapsFinite DEF RemediationInv, TypeOK
<1>4. report = NoReport
  BY <1>1 DEF RemediationInv, Reported
<1>5. TypeOK'
  BY <1>1, <1>2, <1>3, <1>4 DEF RemediationInv, TypeOK, AllGaps, ScoreType, NoReport
<1>6. Unread' /\ Untouched' /\ Scored' /\ Closed' /\ Reported' /\ NoRival'
      /\ NoneAppears' /\ StillOpen'
  BY <1>1, <1>4 DEF RemediationInv, Unread, Untouched, Scored, Closed, Reported, NoRival,
     NoneAppears, StillOpen
<1>7. ReadyScoresNoWorse' /\ CompleteIsChecked'
  BY <1>1, <1>4 DEF ReadyScoresNoWorse, CompleteIsChecked, NoReport
<1>8. QED
  BY <1>5, <1>6, <1>7 DEF RemediationInv

\* Planning selects among those gaps.
LEMMA StepPlan == ASSUME RemediationInv, PlanWork PROVE RemediationInv'
<1> USE DEF plan, run, results
<1>1. PICK S \in SUBSET discovery.gaps :
        /\ selected' = S
        /\ escalated' \in {{}, {g \in discovery.gaps \ S : g.severity = "critical"}}
        /\ completion' = [g \in S |-> "none"]
  BY DEF PlanWork, kSubset
<1>2. /\ stage = "discovery" /\ stage' = "plan" /\ selected = {} /\ escalated = {} /\ created = {}
      /\ UNCHANGED <<repo, dirty, edited, discovery, gatesAllowed, bundled, tools,
                     recs, passed, created, status, report>>
  BY DEF PlanWork, RemediationInv, Untouched
<1>3. report = NoReport
  BY <1>2 DEF RemediationInv, Reported
<1>4. TypeOK'
  <2>1. escalated' \subseteq discovery.gaps \ S
    BY <1>1
  <2>2. completion' \in [selected' -> Dispositions \cup {"none"}]
    BY <1>1
  <2>3. recs = {} /\ passed = {}
    BY <1>2 DEF RemediationInv, TypeOK
  <2>4. AllGaps' = AllGaps
    BY <1>2 DEF AllGaps
  <2>5. QED
    BY <1>1, <1>2, <2>1, <2>2, <2>3, <2>4 DEF RemediationInv, TypeOK
<1>5. Unread' /\ Untouched' /\ Scored' /\ Closed' /\ Reported' /\ NoRival'
      /\ NoneAppears' /\ StillOpen'
  BY <1>1, <1>2, <1>3 DEF RemediationInv, Unread, Untouched, Scored, Closed, Reported, NoRival,
     NoneAppears, StillOpen
<1>6. ReadyScoresNoWorse' /\ CompleteIsChecked'
  BY <1>1, <1>2, <1>3 DEF ReadyScoresNoWorse, CompleteIsChecked, NoReport
<1>7. QED
  BY <1>4, <1>5, <1>6 DEF RemediationInv

\* The steps that only go on to the next phase.
LEMMA StepOn ==
  ASSUME RemediationInv, StartExecution \/ EndExecution \/ Verify \/ UNCHANGED vars
  PROVE  RemediationInv'
<1> USE DEF plan, run, results
<1>1. /\ gatesAllowed' \in BOOLEAN /\ bundled' \in BOOLEAN
      /\ tools' \subseteq {"test", "lint", "type_check"}
      /\ UNCHANGED <<repo, dirty, edited, discovery, selected, escalated, completion, recs,
                     passed, created, report>>
  BY DEF StartExecution, EndExecution, Verify, vars, RemediationInv, TypeOK, CheckpointTools, When
<1>2. \/ /\ stage' \in {"items", "execution", "verification"}
         /\ stage # "start" /\ stage # "report"
      \/ stage' = stage
  BY DEF StartExecution, EndExecution, Verify, vars
<1>3. TypeOK'
  BY <1>1, <1>2 DEF RemediationInv, TypeOK, AllGaps
<1>4. Unread' /\ Untouched' /\ Scored' /\ Closed' /\ Reported' /\ NoRival'
      /\ NoneAppears' /\ StillOpen'
  BY <1>1, <1>2 DEF RemediationInv, Unread, Untouched, Scored, Closed, Reported, NoRival,
     NoneAppears, StillOpen, Followups, IncompleteSelected
<1>5. ReadyScoresNoWorse' /\ CompleteIsChecked'
  <2>1. CASE StartExecution
    <3>1. stage = "plan"
      BY <2>1 DEF StartExecution
    <3>2. \A g \in selected : completion[g] = "none"
      BY <3>1 DEF RemediationInv, Untouched
    <3>3. QED
      BY <1>1, <3>2 DEF RemediationInv, ReadyScoresNoWorse, CompleteIsChecked
  <2>2. CASE EndExecution \/ Verify \/ UNCHANGED vars
    <3>1. gatesAllowed' = gatesAllowed
      BY <2>2 DEF EndExecution, Verify, vars
    <3>2. QED
      BY <1>1, <3>1 DEF RemediationInv, ReadyScoresNoWorse, CompleteIsChecked
  <2>3. QED
    BY <2>1, <2>2
<1>6. QED
  BY <1>3, <1>4, <1>5 DEF RemediationInv

\* The report rescores a repository that has no gap discovery did not see.
LEMMA StepReport == ASSUME RemediationInv, Report PROVE RemediationInv'
<1> USE DEF plan, run, results
<1>1. /\ stage = "verification" /\ stage' = "report"
      /\ UNCHANGED <<repo, dirty, edited, discovery, selected, escalated, gatesAllowed, bundled,
                     tools, completion, recs, passed, created, status>>
      /\ report'.readiness = Rescored.readiness /\ report'.debt = Rescored.debt
      /\ report'.followups = Followups
      /\ report'.ready = (status = "passed" /\ IncompleteSelected = {} /\ escalated = {})
  BY DEF Report
<1> DEFINE after == Scores(Gaps(repo))
<1>2. after \in ScoreType
  BY ScoresType, GapsFinite DEF RemediationInv, TypeOK
<1>3. /\ Rescored.readiness = Greatest(0, after.readiness - StatusPenalty)
      /\ Rescored.debt = Least(100, after.debt + StatusPenalty)
  BY DEF Rescored
<1> HIDE DEF after
<1>4. StatusPenalty \in 0..20
  BY DEF StatusPenalty
<1>5. Rescored.readiness \in 0..100 /\ Rescored.debt \in 0..100
  BY <1>2, <1>3, <1>4 DEF ScoreType, Greatest, Least
<1>6. TypeOK'
  <2>1. Followups \subseteq discovery.gaps
    BY DEF Followups, IncompleteSelected, RemediationInv, TypeOK
  <2>2. AllGaps' = AllGaps /\ report'.ready \in BOOLEAN
    BY <1>1 DEF AllGaps
  <2>3. QED
    BY <1>1, <1>5, <2>1, <2>2 DEF RemediationInv, TypeOK
<1>7. Unread' /\ Untouched' /\ Scored' /\ Closed' /\ Reported' /\ NoRival'
      /\ NoneAppears' /\ StillOpen'
  BY <1>1 DEF RemediationInv, Unread, Untouched, Scored, Closed, Reported, NoRival,
     NoneAppears, StillOpen, Followups, IncompleteSelected
<1>8. ReadyScoresNoWorse'
  <2> SUFFICES ASSUME status = "passed", ~edited
               PROVE  /\ report'.readiness >= discovery.scores.readiness
                      /\ report'.debt <= discovery.scores.debt
    BY <1>1 DEF ReadyScoresNoWorse
  <2>1. StatusPenalty = 0
    BY DEF StatusPenalty
  <2>2. IsFiniteSet(discovery.gaps)
    <3>1. AllGaps = FixedGaps \cup {LockfileGap(k) : k \in 1..Len(repo.langs)}
      BY DEF AllGaps, FixedGaps
    <3>2. Len(repo.langs) \in Nat
      BY DEF RemediationInv, TypeOK
    <3>3. IsFiniteSet(AllGaps)
      BY <3>1, <3>2, FiniteGaps
    <3>4. QED
      BY <3>3, FS_Subset DEF RemediationInv, TypeOK
  <2>3. Gaps(repo) \in SUBSET discovery.gaps
    BY <1>1 DEF RemediationInv, NoneAppears
  <2>4. /\ after.debt <= discovery.scores.debt
        /\ after.readiness >= discovery.scores.readiness
    BY <2>2, <2>3, ScoresNoWorse DEF RemediationInv, Scored, after
  <2>5. discovery.scores \in ScoreType
    BY DEF RemediationInv, TypeOK, ScoreType
  <2>6. QED
    BY <1>1, <1>2, <1>3, <2>1, <2>4, <2>5 DEF ScoreType, Greatest, Least
<1>9. CompleteIsChecked'
  BY <1>1 DEF RemediationInv, CompleteIsChecked
<1>10. QED
  BY <1>6, <1>7, <1>8, <1>9 DEF RemediationInv

\* Every step keeps the invariant.
LEMMA StepRemediation == ASSUME RemediationInv, [Next]_vars PROVE RemediationInv'
BY StepUser, StepDiscover, StepPlan, StepOn, StepRefuse, StepHandle, StepSkip, StepReport DEF Next

\* So every state of a run has it.
LEMMA RemediationInvariant == Spec => []RemediationInv
BY InitRemediation, StepRemediation, PTL DEF Spec

\* Types of a gap's way through the phases, for every repository, language list and
\* choice of the planner.
THEOREM RemediationTypeCorrect == Spec => []TypeOK
<1>1. RemediationInv => TypeOK
  BY DEF RemediationInv
<1>2. QED
  BY <1>1, RemediationInvariant, PTL

\* What a handler of execution.py writes is what discovery.py looks for: the gap of an
\* item reported COMPLETE is closed, for every repository and set of licence files that
\* cannot be read.
THEOREM CompletedGapsClosed == Spec => []CompleteClosesGap
<1>1. RemediationInv => CompleteClosesGap
  BY DEF RemediationInv, Closed, CompleteClosesGap
<1>2. QED
  BY <1>1, RemediationInvariant, PTL

\* Where commands may run, an item for a linter or a type checker is only COMPLETE once a
\* run of that tool has passed after its handler, whatever tools the repository had and
\* whatever the handlers have written (planning.py:26, _checkpoint_for_item).
THEOREM CompletedItemsChecked == Spec => []CompleteIsChecked
<1>1. RemediationInv => CompleteIsChecked
  BY DEF RemediationInv
<1>2. QED
  BY <1>1, RemediationInvariant, PTL

\* Every gap that discovery reported and that is still open when the report is written
\* is a follow-up of the report: escalated, incomplete or never selected.
THEOREM NoGapLost == Spec => []OpenGapsFollowedUp
<1>1. RemediationInv => OpenGapsFollowedUp
  BY DEF RemediationInv, Closed, Reported, Followups, IncompleteSelected, OpenGapsFollowedUp
<1>2. QED
  BY <1>1, RemediationInvariant, PTL

\* The handlers' own tests for files, which are fewer than discovery's, never let them
\* create a file beside one of the user's that serves the same purpose -- if nothing was
\* edited since discovery and every licence file can be read.
THEOREM NoRivalFiles == Spec => []NoRival
<1>1. RemediationInv => NoRival
  BY DEF RemediationInv
<1>2. QED
  BY <1>1, RemediationInvariant, PTL

\* A run that the report calls ready leaves the repository with a readiness no lower
\* and a debt no higher than discovery found, by the rescoring of reporting.py, if the
\* user kept away in between.
THEOREM ReadyScores == Spec => []ReadyScoresNoWorse
<1>1. RemediationInv => ReadyScoresNoWorse
  BY DEF RemediationInv
<1>2. QED
  BY <1>1, RemediationInvariant, PTL
=============================================================================
