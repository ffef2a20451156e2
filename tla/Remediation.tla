---------------------------- MODULE Remediation -----------------------------
(***************************************************************************)
(* A gap's way through the phases: discovery reports it, planning selects  *)
(* it or not, a handler of the execution phase deals with it and its       *)
(* checkpoint judges the result, verification ends, and reporting          *)
(* (src/runtime/reporting.py) scores the repository again and lists what   *)
(* is left to do.  Detection and handlers are the operators of Discovery   *)
(* and Handlers; the phases' own control is that of the other modules.     *)
(*                                                                         *)
(* The phases may be separate commands: between them the repository's user *)
(* creates and deletes files.  A deleted file that HEAD has is dirty, and  *)
(* no handler writes it.                                                   *)
(***************************************************************************)
EXTENDS Discovery, Handlers

CONSTANTS Repositories,   \* what the repository may be at first
          UserFiles,      \* files the user may create or delete
          MaxEdits,       \* bound on the user's changes
          MaxSelected,    \* bound on the items planning selects
          MaxFiles        \* constraints.max_files

ASSUME RemediationAssumption ==
  /\ MaxEdits \in Nat /\ MaxSelected \in Nat /\ MaxFiles \in Nat
  /\ \A r \in Repositories : /\ r = Repository(r.files, r.langs, r.secrets, r.unreadable)
                             /\ r.langs \in Seq(STRING) /\ r.secrets \in BOOLEAN
                             /\ r.unreadable \subseteq r.files \cap LicenseFiles

VARIABLES
  repo,          \* the repository
  dirty,         \* files with uncommitted changes when execution starts
  edited,        \* history: has the user changed a file since discovery
  stage,         \* the last phase that has ended
  discovery,     \* RUP_DISCOVERY.json: gaps, scores, language, type
  selected,      \* selected_items
  escalated,     \* selected_for_escalation
  gatesAllowed,  \* may target-controlled commands run
  bundled,       \* does the skill come with its licence text
  tools,         \* checkpoints whose tool is there when the item loop starts
  completion,    \* per_item_completion, "none" while undecided
  recs,          \* recommendations: <<item, disposition>>
  passed,        \* history: <<item, checkpoint>> whose command exited with 0
  created,       \* files in change records
  status,        \* overall_status of the verification
  report         \* RUP_FINAL_REPORT.json: scores, followups, readiness

plan == <<selected, escalated>>
run  == <<gatesAllowed, bundled, tools>>
results == <<completion, recs, passed, created>>
vars == <<repo, dirty, edited, stage, discovery, plan, run, results, status, report>>

NoReport == [readiness |-> 0, debt |-> 0, followups |-> {}, ready |-> FALSE]

-----------------------------------------------------------------------------
(* The user. *)

UserEdit(f) ==
  /\ stage \in {"start", "discovery", "plan"}
  /\ f \notin dirty /\ Cardinality(dirty) < MaxEdits
  /\ repo' = [repo EXCEPT !.files = IF f \in @ THEN @ \ {f} ELSE @ \cup {f}]
  /\ dirty' = dirty \cup {f}
  /\ edited' = (edited \/ stage # "start")
  /\ UNCHANGED <<stage, discovery, plan, run, results, status, report>>

-----------------------------------------------------------------------------
(* Discovery and planning. *)

Discover ==
  /\ stage = "start"
  /\ discovery' = [gaps |-> Gaps(repo), scores |-> Scores(Gaps(repo)),
                   lang |-> PrimaryLanguage(repo), type |-> RepoType(repo)]
  /\ stage' = "discovery"
  /\ UNCHANGED <<repo, dirty, edited, plan, run, results, status, report>>

\* Which gaps fit the run boundary is the planning module's concern; a P0 gap
\* that does not is escalated, and execution then needs the override.
PlanWork ==
  /\ stage = "discovery"
  /\ \E S \in UNION {kSubset(k, discovery.gaps) :
                       k \in 0..Least(MaxSelected, Cardinality(discovery.gaps))} :
       /\ selected' = S
       /\ escalated' \in {{}, {g \in discovery.gaps \ S : g.severity = "critical"}}
       /\ completion' = [g \in S |-> "none"]
  /\ stage' = "plan"
  /\ UNCHANGED <<repo, dirty, edited, discovery, run, recs, passed, created, status,
                 report>>

-----------------------------------------------------------------------------
(* Execution. *)

\* Checkpoints for which a tool is detected that has a command; pyright, which goes
\* before mypy in pyproject.toml, has none.
CheckpointTools(r) ==
  When(DetectTestFramework(r), "test") \cup When(DetectLinter(r), "lint")
  \cup When(\/ HasAny(r, {"tsconfig.json", "mypy.ini", ".mypy.ini"})
            \/ /\ "pyproject.toml:mypy" \in r.files
               /\ "pyproject.toml:pyright" \notin r.files, "type_check")

\* tools = self.tool_detector.detect_all(), once, before any item.
StartExecution ==
  /\ stage = "plan"
  /\ gatesAllowed' \in BOOLEAN /\ bundled' \in BOOLEAN
  /\ tools' = CheckpointTools(repo)
  /\ stage' = "items"
  /\ UNCHANGED <<repo, dirty, edited, discovery, plan, results, status, report>>

Undecided == {g \in selected : completion[g] = "none"}

Conclude(g, disposition, recommended) ==
  /\ completion' = [completion EXCEPT ![g] = disposition]
  /\ recs' = recs \cup {<<g, d>> : d \in recommended \ {"COMPLETE"}}

HandlerFor(g) == HandlerOf(g, discovery.lang, discovery.type, bundled)

\* Which of its targets a handler finds missing, by their place in its order.
Missing(h) ==
  {k \in 1..Len(h.targets) : h.blockers \cap repo.files = {} /\ h.targets[k] \notin repo.files}

Recommendation(h) ==
  IF h.blockers \cap repo.files # {} THEN h.blocked ELSE h.outcome

FilesOf(h, places) == {h.targets[k] : k \in places}

\* The handler refuses the first dirty file; what it has written before stays,
\* without a change record.
RefuseDirty(g) ==
  /\ stage = "items" /\ g \in Undecided /\ Cardinality(created) < MaxFiles
  /\ LET h == HandlerFor(g) IN
     \E k \in Missing(h) :
       LET before == {j \in Missing(h) : j < k} IN
       /\ h.targets[k] \in dirty /\ FilesOf(h, before) \cap dirty = {}
       /\ repo' = [repo EXCEPT !.files = @ \cup FilesOf(h, before)]
  /\ Conclude(g, "AGENT_ONLY", {"AGENT_ONLY"})
  /\ UNCHANGED <<dirty, edited, stage, discovery, plan, run, passed, created, status,
                 report>>

\* The checkpoint of an item after its handler: not a command, passed, or failed
\* -- always so when its tool was not there before the first item, whatever the
\* handlers have written since.
Checkpoint(g) ==
  IF ~(gatesAllowed /\ RunsACommand(CheckpointMethod(g))) THEN {"no command"}
  ELSE IF CheckpointMethod(g) \in tools THEN {"passed", "failed"} ELSE {"failed"}

HandleItem(g) ==
  /\ stage = "items" /\ g \in Undecided /\ Cardinality(created) < MaxFiles
  /\ LET h       == HandlerFor(g)
         written == FilesOf(h, Missing(h))
     IN
     /\ written \cap dirty = {}
     /\ repo' = [repo EXCEPT !.files = @ \cup written]
     /\ created' = created \cup written
     /\ \E c \in Checkpoint(g) :
          /\ passed' = passed \cup When(c = "passed", <<g, CheckpointMethod(g)>>)
          /\ IF c = "failed"
             THEN Conclude(g, "PARTIAL", {Recommendation(h), "PARTIAL"})
             ELSE Conclude(g, ResolveCompletion(written # {}, Recommendation(h)),
                           {Recommendation(h)})
  /\ UNCHANGED <<dirty, edited, stage, discovery, plan, run, status, report>>

SkipAtLimit(g) ==
  /\ stage = "items" /\ g \in Undecided /\ Cardinality(created) >= MaxFiles
  /\ Conclude(g, "AGENT_ONLY", {"AGENT_ONLY"})
  /\ UNCHANGED <<repo, dirty, edited, stage, discovery, plan, run, passed, created,
                 status, report>>

EndExecution ==
  /\ stage = "items" /\ Undecided = {}
  /\ stage' = "execution"
  /\ UNCHANGED <<repo, dirty, edited, discovery, plan, run, results, status, report>>

-----------------------------------------------------------------------------
(* Verification and reporting. *)

Verify ==
  /\ stage = "execution"
  /\ status' \in {"passed", "passed_with_warnings", "failed"}
  /\ stage' = "verification"
  /\ UNCHANGED <<repo, dirty, edited, discovery, plan, run, results, report>>

StatusPenaltyAlways == IF status = "failed" THEN 20 ELSE 10

StatusPenalty == CASE status = "failed" -> 20
                   [] status = "passed_with_warnings" -> 10 [] OTHER -> 0

\* _rescore_after_execution: the gaps the repository has by now.
Rescored ==
  LET after == Scores(Gaps(repo)) IN
  [readiness |-> Greatest(0, after.readiness - StatusPenalty),
   debt      |-> Least(100, after.debt + StatusPenalty)]

IncompleteSelected == {g \in selected : completion[g] # "COMPLETE"}

FollowupsUnselected == escalated \cup (discovery.gaps \ selected)

\* Escalated, incomplete and unselected items of the backlog.
Followups == escalated \cup IncompleteSelected \cup (discovery.gaps \ selected)

Report ==
  /\ stage = "verification"
  /\ report' = [readiness |-> Rescored.readiness, debt |-> Rescored.debt,
                followups |-> Followups,
                ready |-> status = "passed" /\ IncompleteSelected = {} /\ escalated = {}]
  /\ stage' = "report"
  /\ UNCHANGED <<repo, dirty, edited, discovery, plan, run, results, status>>

Init ==
  /\ repo \in Repositories
  /\ dirty = {} /\ edited = FALSE /\ stage = "start"
  /\ discovery = [gaps |-> {}, scores |-> Scores({}), lang |-> "unknown",
                  type |-> "application"]
  /\ selected = {} /\ escalated = {}
  /\ gatesAllowed = FALSE /\ bundled = FALSE /\ tools = {}
  /\ completion = <<>> /\ recs = {} /\ passed = {} /\ created = {}
  /\ status = "none" /\ report = NoReport

Next ==
  \/ \E f \in UserFiles : UserEdit(f)
  \/ Discover \/ PlanWork \/ StartExecution
  \/ \E g \in selected : RefuseDirty(g) \/ HandleItem(g) \/ SkipAtLimit(g)
  \/ EndExecution \/ Verify \/ Report

Spec == Init /\ [][Next]_vars

-----------------------------------------------------------------------------
(* Properties. *)

AllGaps == {TestGap, LinterGap, TypeGap, SecretGap, PolicyGap, LicenseGap, ReadmeGap,
            ContributingGap, CiGap, CodeownersGap, ContainerGap, IacGap, ObservabilityGap}
           \cup {LockfileGap(k) : k \in 1..Len(repo.langs)}

\* Type invariant of a gap's way through the phases.
TypeOK ==
  /\ repo = Repository(repo.files, repo.langs, repo.secrets, repo.unreadable)
  /\ repo.langs \in Seq(STRING) /\ repo.secrets \in BOOLEAN
  /\ repo.unreadable \subseteq LicenseFiles /\ edited \in BOOLEAN
  /\ stage \in {"start", "discovery", "plan", "items", "execution", "verification",
                "report"}
  /\ discovery.gaps \subseteq AllGaps /\ discovery.scores \in
       [debt : 0..100, readiness : 0..100, risk : {"low", "medium", "high"}]
  /\ selected \subseteq discovery.gaps /\ escalated \subseteq discovery.gaps \ selected
  /\ gatesAllowed \in BOOLEAN /\ bundled \in BOOLEAN
  /\ tools \subseteq {"test", "lint", "type_check"}
  /\ completion \in [selected -> Dispositions \cup {"none"}]
  /\ recs \subseteq selected \X Dispositions
  /\ passed \subseteq selected \X {"test", "lint", "type_check"}
  /\ created \subseteq repo.files
  /\ report.readiness \in 0..100 /\ report.debt \in 0..100 /\ report.ready \in BOOLEAN
  /\ report.followups \subseteq discovery.gaps

\* An item reported COMPLETE has had its gap closed: what its handler writes is
\* what discovery looks for, in another module and perhaps much later, although
\* the repository may have changed since the gap was found.
CompleteClosesGap ==
  stage \in {"execution", "verification", "report"} =>
    \A g \in selected : completion[g] = "COMPLETE" => g \notin Gaps(repo)

\* No known gap is lost: each that discovery reported and that the repository
\* still has when the run is over is among the report's follow-ups.
OpenGapsFollowedUp ==
  stage = "report" => Gaps(repo) \cap discovery.gaps \subseteq report.followups

\* A run the report calls ready leaves the repository scored at least as well
\* as discovery scored it, if the user kept away in between.
ReadyScoresNoWorse ==
  report.ready /\ ~edited =>
    /\ report.readiness >= discovery.scores.readiness
    /\ report.debt <= discovery.scores.debt

\* Files of which a repository has one.
Kinds == {LicenseFiles, {"CONTRIBUTING.md", ".github/CONTRIBUTING.md"},
          {"SECURITY.md", ".github/SECURITY.md"}, {"CODEOWNERS", ".github/CODEOWNERS"},
          {"ruff.toml", ".ruff.toml", ".flake8", "pyproject.toml:ruff"},
          {"eslint.config.js", ".eslintrc.json", "package.json:eslint"},
          {"mypy.ini", ".mypy.ini", "pyproject.toml:mypy", "pyproject.toml:pyright"},
          {"Dockerfile", "Containerfile"}, {"docker-compose.yml", "compose.yaml"},
          {"main.tf", "terraform/main.tf"}, {"Pulumi.yaml", "terraform/main.tf"}}

\* The handlers test for fewer names than discovery does.  Together they still
\* never put a file beside one of the user's own that serves the same purpose,
\* if nothing was changed since discovery and every licence file can be read.
NoRival ==
  ~edited /\ repo.unreadable = {} =>
    \A K \in Kinds : created \cap K # {} => repo.files \cap K \subseteq created

\* planning.py:26 "Linter or type checker exits 0 with zero violations.": where
\* commands may run, an item with that criterion is only COMPLETE once its own tool
\* has exited with 0 after its handler -- a tool that was there before the handler
\* configured one (_checkpoint_for_item, _run_checkpoint_gate, the item loop).
CompleteIsChecked ==
  gatesAllowed => \A g \in selected : completion[g] = "COMPLETE" =>
    /\ g = LinterGap => <<g, "lint">> \in passed
    /\ g = TypeGap   => <<g, "type_check">> \in passed
=============================================================================
