# A TLA+ model of the RUP runtime

RUP (`src/runtime/`) improves a repository in four phases driven by one
command-line program: *discovery* reports gaps, *planning* selects and orders
work inside a run boundary, *execution* writes files into the user's working
tree and records how to undo it, *verification* runs the repository's own gates
and *reporting* says whether the result may be submitted. A separate command
*rollback* undoes the last execution. The phases talk to each other only
through JSON files in a state directory.

## Inventory

| Part | State | Operations | Interacts through | What is hard |
|------|-------|------------|-------------------|--------------|
| Planning (`planning.py`) | backlog, selection, closure queue, visit stack; `RUP_PLAN.json`, `plan-state.json` | generate backlog, select, close over dependencies, sequence, save | reads `RUP_DISCOVERY.json`, is read by execution and reporting | a worklist that admits and withdraws; cycles; counters never given back; two saves |
| Execution (`execution.py`) | Git baseline, change records, completion per item, backups; `RUP_EXECUTION.json`, `execution-state.json` | capture baseline, run handlers, write a file, refuse a dirty file, checkpoint, scan Git, save | the working tree and index it shares with the user and with the repository's commands | concurrent edits, refusals half-way, the file limit, stale baseline, a kill |
| Rollback (`rollback.py`, `cli.py`) | position in the operation list | restore content, remove a file, restore a deleted file, move back | working tree, index, backups | a tree that changed since, missing backups, repeated rollback |
| Verification (`verification.py`) | gate results, flakiness evidence; `RUP_VERIFICATION.json` | run gates, rerun flaky tests, decide the status | rewrites `execution-state.json` | precedence of outcomes, gates that could not run |
| State store (`state.py`) | artifacts, ledger, session, manifest and checksum | save, load, rebuild ledger, write manifest, migrate | every phase | a kill between two files, stale artifacts |
| Lifecycle (`cli.py`) and reporting (`reporting.py`) | current phase, exit code, readiness | run one phase or all, report | every artifact | early returns, stale verification, resumed sessions |
| Workspace graph (`workspace.py`) | package graph, rounds of the ordering; in execution the scope and the work directory | detect packages, changed packages, dependency order, order and place the items | Git, the plan, execution | cycles, fallbacks, nested packages, names against directories |
| Discovery (`discovery.py`, `inventory.py`, `tool_detection.py`) | `RUP_DISCOVERY.json` | detect tools and files, evaluate gaps, score | planning, execution, reporting | scores at their limits; handlers that look for other files than detection does |
| Trust gate, path jail, redaction, command runner (`security.py`, `command_runner.py`, `redaction.py`) | none | decide whether commands may run; run one | execution, verification | timeouts |
| Artifact builder, provenance, capability map, scripts, schemas, documents | none between calls | rendering, batch checks | files of this repository | -- |

What makes each part correct:

- *Planning*: a plan that runs without an override fits the boundary; no P0 item
  disappears; a selected item does not lose a dependency unnoticed; the order
  respects dependencies; the phase ends.
- *Execution*: nothing the user had changed is touched; what the handlers wrote
  can be undone; the records stay within the file limit; an item reported
  complete has done something.
- *Rollback*: every file named by an operation goes back to what it was, unless
  the user has changed it since; nothing else of the user's is touched.
- *Verification*: the overall status never hides a failed or blocked gate;
  "passed" rests on commands that ran; a refused repository runs nothing.
- *Workspace*: packages come in the order of their dependencies and ordering them
  ends; no item is lost; a handler works in the package its item belongs to.
- *Discovery, with execution and reporting*: an item reported complete has closed
  its gap; a gap still open is in the report; nothing is put beside a file of the
  user's that serves the same purpose; a run called ready scores no worse.
- *State store and lifecycle*: artifacts read together belong together; the exit
  code and `ready_for_submission` of a full run follow from this run's
  verification; the manifest describes what is on disk; an escalated plan is not
  executed without the override.

`PROJECT.json` lists every component with its status and every hazard with its
line and the properties that cover it.

## Modules

| Module | Models | Instances |
|--------|--------|-----------|
| `DependencyOrder` | what an order of dependencies promises, abstractly | -- |
| `Planning` | `planning.py`; its sequencing implements `DependencyOrder` | `MCPlanning` |
| `Induction` | lemmas: induction over finite sets and numbers, sums | -- |
| `PlanningProofs` | theorems about `Planning`: the run boundary, dependencies and order | -- |
| `Handlers` | the workstream handlers of `execution.py` and the dispatch to them | -- |
| `Execution` (extends `Handlers`) | `execution.py`, working tree and Git included | `MCExecution` |
| `ExecutionProofs` | theorems about `Execution` | -- |
| `Rollback` (extends `Execution`) | `rollback.py` and `run_rollback`, composed with repeated executions | `MCRollback` |
| `RollbackProofs` (extends `ExecutionProofs`) | theorems about the composition | -- |
| `Workspace` | `workspace.py` and the scoping of `execution.py`; implements `DependencyOrder` | `MCWorkspace` |
| `WorkspaceProofs` | theorems about `Workspace` | -- |
| `Discovery` | `discovery.py`, `inventory.py`, `tool_detection.py` as operators | -- |
| `Remediation` (extends `Discovery`, `Handlers`) | a gap's way through all phases, with the scores of `reporting.py` | `MCRemediation` |
| `RemediationProofs` | theorems about `Remediation` | -- |
| `Verification` | `verification.py`, the trust gate's decision included | `MCVerification` |
| `VerificationProofs` | theorems about `Verification` | -- |
| `Lifecycle` | `cli.py` over one state directory: `state.py`, `reporting.py` and the saves of all phases | `MCLifecycle` |
| `LifecycleProofs` | theorems about `Lifecycle` | -- |

In every module `pc` is the place where `execute()` stands; an action is what the
code does up to the next place where another actor can interfere, or up to the
next decision. Operators named after a fault (`FitsAnyRisk` beside `Fits`, and so
on) are not part of the specification: they are the altered definitions with
which each property is shown to be able to fail.

### Planning

The state is that of `_select_work` and `_sequence_execution`: `selected` the
list, `chosen` its set, `escalated`, the counters, the closure's `queue` with the
item being looked at (`current`) and its remaining dependencies (`deps`), and the
call stack of `visit()`. `Select` handles one backlog item in sorted order;
`PopQueue`, `CloseDependency` and `FinishDependent` are the closure loop;
`VisitNext`, `VisitDependency` and `FinishVisit` the depth-first search;
`SavePlan` and `SaveState` the two atomic saves. `Crash` may come before either.

A gap keeps only what planning decides on: severity, effort, category, how many
files it names, its dependencies. `minutes` and `files` are cut off one above
their limit, because the code only compares them with it and never decreases
them. Dependency 0 is an id that names no gap. The fallback selection
(`planning.py:206-214`) is left out: nothing that failed the test in the loop can
pass it there.

The backlog's dependencies are arbitrary lists: the planner accepts any
discovery artifact and the repository's tests feed it such lists
(`tests/test_planning.py`, closure and cycle tests), although discovery itself
reports none and only the link from `ci` to `TEST-001` arises in a full run. The
instance `Reported` holds what discovery itself produces.

`Ordering` maps planning to `DependencyOrder`: the nodes are the selected items once
the closure is over (before, there are none), `order` is the list `visit` builds.
`VisitNext` and `VisitDependency` are stutters there, `FinishVisit` is `AppendNext`.

### Execution and rollback

`tree` gives each path one of five contents (absent, the committed content, the
user's, a command's, RUP's); `index` is what Git tracks. `StatusEntries` is
`git status --porcelain` with untracked directories shown as one entry. Handlers
differ in which files they create and in what they recommend: `Handlers` has one
definition for each, a list of targets, a set of blockers that make the handler
create nothing, and its recommendation in either case. `ItemSubtype` and
`HandlerOf` are the dispatch, `ResolveCompletion` and `CheckpointMethod` what the
loop makes of the outcome. An item of `Plan` is such a handler with the method of
its checkpoint, and `MCExecution` builds its plans from `Handlers`.
`StartHandler` looks at the blockers; `CheckExists` and `WriteTarget` are
separate steps, since the user may create the file in between; `RefuseDirty` is
`BaselineDirtyRefusal`. `FinishItem` is the checkpoint, the completion and the
collection of records, in the code's order; `Recorded` stops record by record where
the files changed so far have reached the limit. `ScanGit` attributes what Git
reports. `UserEdit` may happen at any time, `Crash` while the phase runs, and a
command of the repository (coverage run, checkpoints, local verification) may
write `ToolPaths`. Four history variables (`before`, `written`, `edited`, `ran`)
say who did what; no action reads them, but for the bound on `edited`.

`Rollback` reads the recorded operations and applies them one by one while the
user may go on editing. A backup may be missing from the store. `Reexecute` is a
new process of the execution phase over the tree that earlier executions and
rollbacks left: locals start afresh, `execution-state.json` stays until
`SaveState` replaces it. `CrashRollback` kills a rollback between two operations.
`origin` is the tree before the execution that recorded the operations now on
disk, so after a kill it is not that of the last execution.

Not modelled: renames (and `move_back`), a user's staged additions, paths that Git
quotes, the dry run of rollback, failures of the path jail.

### Workspace

A repository is a set of workspace manifests, the directories each pattern
matches, and per directory a name and the names it uses. `WorkspacePatterns` is
the sequence of manifest checks with their defaults, `InternalUses` the graph,
`ChangedNames` and `RequestedNames` the two options. `VisitName`, `NextRound` and
`BreakCycle` are the loop of `dependency_order`, one name at a time: `round` is
`sorted(remaining)`, a copy, while `remaining` shrinks. `OrderItems` divides the
plan into what the run does and what it leaves out; `Before` is the order
`ordered_items` has afterwards (packages in their order, then the items of none, each
in the order of the plan), and `items` what is left of it. `RunItem` and
`LeaveToAgent` are the item loop reduced to where the handler works (`_work_dir`,
`current_pkg`). Names and directories are numbers in alphabetical order, so that
`Smallest` is the first of the sorted ones; of several packages with one name the last
in path order counts, in the graph as in `package_dirs`, as in the code's dictionaries.

`Ordering` maps it to `DependencyOrder`: the nodes are the scoped names once the
scope is known. The abstract specification lets a thing be listed before a
dependency from which a cycle can be reached (`Endless`), for which `BreakCycle`
makes no promise; everything else must wait for what it depends on.

### Discovery and remediation

`Discovery` is made of operators: a repository is a set of files that tell
something, the languages of more than a tenth of its code, and whether secrets are
found; `Gaps` is `_evaluate_all_gaps` with the detectors it calls, `Scores` is
`_calculate_risk_and_scores`. A file name stands for the pattern it matches.

`Remediation` follows the gaps of one repository through the phases. The order of
the items is left open, as planning's is not in question here; `PlanWork` selects
any set of at most `MaxSelected` gaps and escalates the critical rest or not.
`HandleItem`, `RefuseDirty` and `SkipAtLimit` are the three ways an item may go,
each with the whole handler and its checkpoint in one step: the races inside a handler are in
`Execution`, where contents matter and here they do not. `CheckpointMethod` gives the
item of a linter the checkpoint `lint` and that of a type checker `type_check`, as
`_checkpoint_for_item` does in the place of what the table says. Where commands may
run, such a checkpoint can only pass if its tool was there before the first item
(`tools`): a handler that writes the configuration comes too late, and its item is
PARTIAL. pyright is detected but has no command. `passed` is history, the checkpoints
whose command ended with 0. `Report` scores the
repository again and lists the follow-ups. The user creates or deletes files
between the commands (`UserEdit`), which makes them dirty for execution and makes
what discovery has said stale.

### Verification

`pc` walks through `execute()` gate by gate (`After`). A gate leaves a record in
`results` with what the status is decided from: `executed`, the reason when not,
`command_succeeded`, the condition `_gate_passed` asks for besides (`ok`), and for
two gates `complete` and `flaky`. Three variables are history: `exits` holds how each
gate's checks ended, and with them the two helpers on which nothing is decided (the
coverage run and `terraform init`); `found` what the tools reported, by the kind of
tool; `unsearched` whether files were skipped by the secret scan (over 1 MB,
unreadable) or left out by `_project_files` before it (over 5 MB). The code never
reads them, so a property that relates `verdict` to them relates it to what happened
and not to what was noted down. Whether a report counts depends on the tool
(`Counted`): ruff, bandit, the built-in secret scan and the four severities of an audit
count at any exit status, while the output of other linters, of ESLint as a scanner, of
gitleaks and trufflehog and of audits in another form is read only if they fail
(`ReadAfterFailure`). `ScanContent` chooses what the scan finds, the
options and whether a sandbox is there, and asks `Allowed`
(`execution_gate_status`); on a refusal it blocks the seven command gates and goes
on to the secret scan, as the code does. `RunTests` is one of three test runs,
`FinishTests` decides flakiness and adds the numbers to `execution-state.json`.
Exit status 127 stands for an executable that is missing. A kill may come between
any two steps.

Output parsing is reduced to what the code counts: a pass or failure count of 0 or
1, and the kinds of reports. Which scanner is chosen, the details of
the audit entry and the Git metrics are left out.

### Lifecycle

`disk` holds, for each JSON artifact, the invocation and phase that saved it, the
invocations whose results went into it (`line`, one per phase) and the one fact
later phases ask of it (`good`): for a plan that nothing is escalated, for the
execution sidecar that every item is complete, for a verification that it passed,
for a report that it is ready. `From` is the lineage of a result computed from an
artifact. Each save is one step (`save_json` replaces atomically), and after each
of them `Interrupt` may end the invocation, for a kill or for an exception. An
invocation is one command of `main`; `ledger` is the memory of its process and is
empty at the start. `Guard` is the escalation check of the execution phase,
`CheckThreats` and `CheckEscalations` the early returns of `run_full_lifecycle`,
`AddTestNumbers` the rewriting of `execution-state.json` by verification.
`SaveManifest` rebuilds the ledger from disk, keeping what the process recorded.
`MigrateOne` imports one legacy file. The history variable `interrupted` says that
some invocation was stopped or some file imported.

The report looks completions up by item id. When the completions are of another
plan than the one on disk, `Complete` leaves the answer open, so no property
relies on it.

Not modelled: run ids (labels that nothing decides on), markdown artifacts,
`migration-provenance.json`, and two programs at once: the code takes no lock and
promises nothing about it. The rollback command saves nothing in the state
directory and is in `Rollback`.

## Runs

Passing runs:

| Run | Bounds | Shows |
|-----|--------|-------|
| `planning_safety` | 3 gaps, every dependency list without repetition, two severities and efforts, what discovery reports itself; two run boundaries | six invariants of planning, its refinement of `DependencyOrder`, and that it ends without cycles |
| `execution_safety` | 6 items (readme, tests, a risky one, container, codeowners, licence), 8 files of which 2 committed and one of them with its deletion staged, every combination of user changes, limit 2, one path edited during the run | baseline kept, records within the limit, writes recorded, completions justified |
| `rollback_safety` | 2 items, 4 files, at most one of them changed by the user before and one edited meanwhile, two executions and two rollbacks in any order | rollback restores what it names to the right state and spares the rest |
| `workspace_order` | every graph over 3 packages; 3 of 4 directories, one nested, with names in order, in reverse or shared; every set of manifests; all plans of 3 items over 6 scopes with at most one too risky; every request | refinement of `DependencyOrder`, the run ends, no item lost, every handler in its place, only changed packages, items after what they depend on |
| `remediation_safety` | python repositories that differ from the usual one in two of 14 respects, other languages in one; one change by the user of one of four files; two items, limit 2 (1,093,546 states) | complete items close their gaps and have been checked where a command checks them, open gaps are followed up, ready runs score no worse, no rival files |
| `verification_safety` | all nine gates, at most two with commands in trouble, only the last of three test runs may differ, kill at any step (569,514 states) | no failed check and no report that counts is hidden, passed earned, strict mode without warnings or skipped files, nothing runs when refused |
| `lifecycle_safety` | any three commands, stop after any save, two legacy files | exit code 0, manifest, sidecars and escalation guard never mix invocations |

Three gaps are enough for every shape the closure distinguishes: a dependency
present, absent and fitting, absent and not fitting, met again after withdrawal,
a chain and a cycle through all three. The tight boundary (20 minutes, 2
files) admits one or two small items, so that closure exceeds it; the wide one
admits all but the riskiest. Six items reach the file limit by records and by
writes and have handlers with one target, with two, with a blocker, with none, and
one in an untracked directory; one
edited path suffices for each race, because every race in the code is between
one check and one use of one path. `MaxEdits` counts edited paths, not edits: a
path may be edited any number of times. `MaxRollbacks` is 2, as the third would
find what the second found; two executions are one that records and one that is
killed or overwrites it. `FewTrees` (one path changed before) keeps that run small; a
handler asks of each target only whether it is there and dirty, and the theorems of
`RollbackProofs` hold for every tree. Three packages have every cycle and chain that
`dependency_order` can take apart, a fourth directory is there for nesting and for
names that two share. The handlers and detectors each look at one or two of the 14
respects, so repositories that differ in two at a time show every disagreement
between a handler and a detector; two items are enough for one to write what the
other's gap is about. `FewTroubles` (at most two of the gates with commands
not clean) cuts the product of nine gates: the status is decided from the worst
class of gate present, so a violation needs the gate that is overlooked and one
that outvotes it. The theorems of `VerificationProofs` hold without this bound.
Three invocations are an earlier one, one that is stopped half-way and one that
meets what both left; of the legacy files one is an artifact and one the manifest,
the two cases `migrate` distinguishes.

Runs that end in a counterexample, each a disagreement between the code and what
the repository says of it, in `PROJECT.json` under `findings`:

| Run | Property | What happens |
|-----|----------|--------------|
| `planning_cycle` | `PlanningEnds` | P0 items of a cycle are admitted and withdrawn for ever |
| `execution_coverage` | `BaselineKept` | the coverage cleanup deletes the user's `.coverage*` |
| `rollback_abort` | `RollbackNotAborted` | an operation without backup ends the rollback |
| `workspace_path` | `RestrictedToPackage` | `--workspace PATH` restricts nothing |
| `execution_directory` | `WritesRecorded` | a file written before a refusal, in a directory that Git shows as one entry, is lost to the records |

More disagreements were met while modelling and have no run of their own. A
kill between the two saves of planning leaves the new plan beside the old
`plan-state.json` (`planning.py:383`), which the comment above calls atomic. The
final scan of Git takes a file the user created meanwhile for one of this run and
records its removal (`execution.py:2134`; `rollback.py:15` says "a file RUP
created"). A file that appears between a handler's check and its write is backed
up, but rollback removes it (`execution.py:1784` against `execution.py:181`). A
failed checkpoint turns an agent-only item into a partial one
(`execution.py:2078` against `execution.py:304`). After
`run; execute; report` the report is ready on the verification of the earlier
execution (`reporting.py:83`). The
early returns of the full lifecycle leave no manifest (`cli.py:262`, `cli.py:279`;
`SKILL.md:66` asks for one always). An imported plan has no sidecar and so passes
the escalation guard (`state.py:170`, `execution.py:1846`). In the models all of
these happen; the invariants hold beside them, with the user's own edits, imports
and stopped invocations exempted where the code gives no more. A missing linter or
build tool is recorded as executed with status 127 and fails the gate
(`verification.py:532`), where `references/verification-gates.md:9` wants it
unavailable.

Of what the gates' tools report not everything counts. A linter other than ruff that
lists violations and exits with 0 has none (`verification.py:504`), an ESLint used as a
scanner likewise, and gitleaks or trufflehog pass with findings at exit status 0
(`verification.py:663`; trufflehog needs an option to exit with another). npm's
severity "moderate" is not among those counted (`verification.py:805`). The coverage
run is a fourth run of the tests, and if it fails there is no number and nothing else
(`verification.py:326`, `verification.py:355`). Files over 5 MB leave the list of
project files before the secret scan counts what it skips (`verification.py:115`), so
they pass in strict mode, where `tests/test_verification.py:566` says "Strict mode must
fail the gate when any file was not scanned." `NoFailureHidden` and `StrictIsComplete`
name these exemptions, and the model has every one of them.

Some more came with planning's and execution's limits. In a chain A, B, C, the
closure withdraws B for C and keeps A (`planning.py:253`; README.md:70 calls it
recursive). The handlers of one item write past `--max-files`, only the records
stop there (`execution.py:2092`; `cli.py:311` speaks of a limit on changed files). A
`terraform init` that fails counts as a gate that ran and, if the other operations
are in order, passed (`verification.py:1031`, `verification.py:1078`).

And with packages and handlers. `dependency_order` says that the packages of a
cycle keep their input order and sorts them by name (`workspace.py:204`). A rename
counts as a change of its new path's package only (`workspace.py:251`). Of packages
that share a name, one stands for all, and a handler may work in a directory its item
is not about (`execution.py:1942`; README.md:78 says inside the package), which
`LandsInPackage` and `ChangedOnly` exempt. `--changed-packages` without a change runs
everything (`execution.py:1943`). The plans that discovery's own gaps lead to name no
files of a package, so a scoped run has root items only. The checkpoints of TEST-001
and of the items for a linter and a type checker fail after their handlers wrote the
configuration, because the tools were detected before (`execution.py:1991`): where
commands may run, these items are COMPLETE only if the user has added the tool between
discovery and execution, and otherwise partial, with the agent's recommendation beside
it (`execution.py:2077`). If the user adds `.github/CONTRIBUTING.md` or
`LICENSE.md` after discovery, the handler adds a second one (`execution.py:714`), which
is why `NoRival` exempts edits. A second execution takes the files of the first for the
user's and replaces its operations, which are then gone for good
(`execution.py:2212`).

`execution_safety` and `rollback_safety` have no `.coverage*` path: with one,
`BaselineKept` is violated, which is what `execution_coverage` shows.

Deadlock is not checked in any run: each phase ends, is refused or is killed, and
then nothing more happens.

Fairness: `Planning` has weak fairness on `Run`, the steps of the phase itself,
beside a kill that needs none; `Workspace` on its whole next-state relation. Both are
one thread that waits for no one and takes its next step as long as there is one.
`AcyclicEnds` has the acyclic backlogs as its premise, since `planning_cycle` shows
the others; `RunEnds` has none, cyclic package graphs included.

## Proofs

`PlanningProofs` proves, for any number of gaps, any backlog, any boundary and any
dependency graph, from `PlanningAssumption` (the constants are of their types):

- `PlanningTypeCorrect`: `Spec => []TypeOK`. `TypeOK` is inductive by itself.
- `NoMandatoryItemDropped`: `Spec => []MandatoryAccounted`.
- `BoundaryExceededOnlyWithOverride`: `Spec => []BoundaryOrOverride`.
- `RunnablePlanKeepsBoundary`: `Spec => []RunnablePlanFits`.

The second and the third need each other and one more fact, together `BoundaryInv`:
`SelectionPassed` says that once the selection loop is over it has passed every
item. The closure is allowed to admit a P0 dependency past the boundary; when it
does, the item is not selected, so by `MandatoryAccounted` and `SelectionPassed`
it had been escalated, and an escalation is what `BoundaryOrOverride` asks for.
`RunnablePlanFits` is about sums over the plan, where the code keeps running totals
that it never takes anything off and the model cuts off above the limit. `FitsInv`
relates the two: as long as a total is within its limit, it is at least the sum over
what is selected, also after a withdrawal; without an escalation every selected item
has a risk the run tolerates (`Tolerated`), and what is saved is what was selected
(`Saved`).

It goes on, for any backlog with any dependency lists, cycles included:

- `DependenciesKeptOrEscalated`: `Spec => []ClosedOrEscalated`.
- `SavedOrderIsSound`: `Spec => []DependenciesFirst`.
- `ItemsInOrder`: `Spec => BacklogOrder`, that is, planning implements `DependencyOrder`.

The first needs to know where the closure still owes something: `ClosureProgress`
says that a selected item which lacks a dependency is on the queue, or is the item
being looked at with what it lacks among the dependencies still to be looked at.
`SelectedOnce` (the list and the set agree and nothing is listed twice) is there
because `selected.remove` takes out one occurrence. The other two rest on
`SequenceInv`. Its heart is `Waiting`: whatever an active `visit()` needs is
ordered, is still to be looked at by that call, or is what the call above it
visits. When a call has nothing left to look at and is the one on top, all its
item needs is therefore ordered, which is what `AppendNext` of `DependencyOrder`
asks for.

`VerificationProofs` proves, for every combination of outcomes (there are no
constants, but TLC sees only those with two gates in trouble):

- `FailuresAreReported`: `Spec => []NoFailureHidden`, for the reports that count.
- `PassIsEarned`: `Spec => []PassedIsEarned`.
- `StrictLeavesNothingOpen`: `Spec => []StrictIsComplete`, for the files handed to the
  secret scan.
- `RefusalIsFinal`: `Spec => []NothingRunsWhenRefused`.
- `VerificationTypeCorrect`: `Spec => []TypeOK`.

None of the first four is inductive: the verdict is decided once, from results noted
many steps before. `EvidenceInv` says what those notes are worth while the phase
runs: a result that counts as clean has no failed check behind it and no report that
counts (`Truthful`), a gate that was not run left no exit status and no report
(`Silent`), nor has one whose turn is to come reported anything (`Upcoming`,
`Reported`), a complete secret scan has skipped nothing (`Searched`), the exit status of the tests
gate is that of the runs so far (`RunsRecorded`), the tests' result is computed
from three of them (`TestsResult`), a refusal leaves the command gates blocked
(`Refused`), and the status is decided last, with the secret scan done (`Progress`).
`NoteKeeps` and `ConcludeKeeps` show once that concluding any gate with a truthful
result keeps all of it; `GatesKeep` shows of each gate that its result is truthful.

`WorkspaceProofs` proves, for any package graph,

- `PackagesInOrder`: `Spec => PackageOrder`: the rounds of `dependency_order`, with
  their way out of a cycle, implement `DependencyOrder`.

and, for any plan, request and answer of Git besides,

- `EveryItemAccounted`: `Spec => []NoItemLost`.
- `RemediationInPackage`: `Spec => []LandsInPackage`.
- `OnlyChangedPackages`: `Spec => []ChangedOnly`.
- `DependenciesRunFirst`: `Spec => []DependencyFirst`.
- `WorkspaceTypeCorrect`: `Spec => []TypeOK`.

The invariant `OrderInv` says that `ordered` and `remaining` partition the names,
that a name of the round that was passed over waits for one still remaining, and
that the names put out of order by `BreakCycle` had an endless chain of
dependencies. `RunInv` adds the run over the items. `Split` says that every item is
run, left or skipped, and only one of these, `SkippedWhy` why it was skipped. `InPlace`
says that the work directory is that of the package it was last switched to, although
items that are passed over come between two switches, and that every item ran in the
directory of its own package. `InTurn` says that what ran is in the order `Before`,
and before all that is left. That a dependency ran first then follows from the two
orders agreeing: the plan's inside a package, and that of `OrderInv` between packages,
which puts a package after those it uses unless a cycle can be reached from them.

`RemediationProofs` proves, for repositories with any languages and files, any choice
of the plan, any outcome of commands and any number of user edits between the phases
(`RemediationAssumption`):

- `CompletedGapsClosed`: `Spec => []CompleteClosesGap`.
- `NoGapLost`: `Spec => []OpenGapsFollowedUp`.
- `ReadyScores`: `Spec => []ReadyScoresNoWorse`.
- `NoRivalFiles`: `Spec => []NoRival`.
- `CompletedItemsChecked`: `Spec => []CompleteIsChecked`.
- `RemediationTypeCorrect`: `Spec => []TypeOK`.

The first part is lemmas about the operators: a handler that writes all its targets
closes its gap, whatever else the repository holds (`WrittenCloses`), new files open no
gap (`MoreFilesFewerGaps`) and close none but the handler's own (`OthersLeaveOpen`), a
handler whose gap is open finds no file of its kind (`NoneOfItsKind`), and fewer gaps
score no worse after the caps (`ScoresNoWorse`, with the sums of `Induction`). These
are where detection and handlers, which test for different names, are set against each
other. `RemediationInv` follows a gap: a completed one is closed (`Closed`), no gap
appears (`NoneAppears`) and one that is not concluded is still open (`StillOpen`) as
long as the user keeps away; the scores are those of the saved gaps (`Scored`).
`Unread` is needed for licences: a licence file that could not be read leaves the gap
open beside it, and only the user can have removed it. `CompleteIsChecked` is part of
`RemediationInv`; it rests on the checkpoints of the two gaps (`CheckpointOf`) and on
an item being concluded once.

`ExecutionProofs` proves, for any plan of handlers, any working tree and index, any
limit and any number of user edits (`ExecutionAssumption`; paths and directories are
finite, since change records are counted):

- `ExecutionTypeCorrect`: `Spec => []TypeOK`, with `HandlerOnItem` (a handler runs for
  an item and its target is one of that handler's).
- `UserChangesKept`: `Spec => []BaselineKept` where `CoverageFiles = {}`. Without that
  hypothesis it is false, as `execution_coverage` shows: the hypothesis is the exact
  boundary of the defect.
- `RecordsStayWithinLimit`: `Spec => []RecordedWithinLimit`.
- `CompleteIsRecorded`: `Spec => []CompleteHasChange`.
- `WritesAreRecorded`: `Spec => []WritesRecorded` where `SeveralShown`: Git shows each
  target of a handler with more than one as a file, since it lies in the root or beside
  a file of the index. Without that hypothesis it is false, as the attempt to prove it
  showed; see below.

`BaselineKept` is proved with three more facts, together `KeptInv`: Git's index still
has every file of the commit but those staged for deletion (`IndexKept`); once the
baseline is taken, every changed file of the commit is in it (`DirtyNoted`), so that
`RefuseDirty` takes it; an untracked file of the user's need not be in it by name (Git
may show its directory only), but it is there when the handler looks, so the handler
goes on to the next target (`WritesAbsent`). `LimitInv` keeps three more facts about
the records: each step that records looks at the records of the earlier items and at
its own together (`RoomLeft`), an item marked complete has a record that survived the
cut at the limit (`CompleteRecorded`), and what is saved is what was recorded
(`RecordsSaved`).

`WritesInv` keeps account of what the handlers wrote and the user has left alone
(`WrittenAccounted`): it is there, unlike the commit's and not in the baseline
(`Standing`), and it is recorded, or its record is in the handler's hands, or the scan
will find it, or the limit is reached. A refusal loses the record in hand. The file is
then one of several targets, so that by `SeveralShown` Git shows it and the scan, which
leaves out what was in the baseline, takes it up. That both captures of the baseline
agree on what nobody touches is `BaselineCaptured`.

The hypothesis excludes one case of the code, which `execution_directory` shows. A
handler of infrastructure code writes `terraform/main.tf` and is refused at
`terraform/variables.tf`, which the user had staged for deletion as the only file of
that directory. The record of `main.tf` is lost with the refusal (`execution.py:2038`).
Git shows only `?? terraform/`, and the scan skips directories as "containers for the
file changes already tracked" (`execution.py:2124`). So `main.tf` stays behind without a
record and without an operation that removes it, where
`references/execution-workstreams.md:129` promises a list of all changes made. Handlers
with one target are never refused after a write, so the hypothesis asks nothing of
them.

`RollbackProofs` proves the composition of executions and rollbacks, for any number
of either (`RollbackAssumption`: at least one execution), again where
`CoverageFiles = {}`:

- `RolledBackIsRestored`: `TxSpec => []RollbackRestores`.
- `UserChangesKeptThroughRollback`: `TxSpec => []BaselineKept`.
- `RollbackTypeCorrect`: `TxSpec => []TxTypeOK`.

`TxInv` follows a file the user leaves alone from the baseline to its removal. Git's
status shows before the run what Git does not track and what it misses
(`ShownBefore`), and a run removes nothing (`NothingRemoved`); so what a handler
writes, and what the scan calls created, was not there when the run began and its
absence was no staged deletion of the user's (`Made`). `RecordsTrue` carries that
through the records, `OperationsTrue` to the disk, where it outlives later executions
because it is stated of `origin`: a `remove_file` is of a file that run has made, a
`restore_content` has no backup and so ends the rollback, and every other operation
is on a file the user has edited. `Position` says that the operations a rollback has
passed are undone, `UserOld` that a file with the user's content had it all the time,
so that no operation of an earlier run removes it.

`LifecycleProofs` proves, for any number of invocations, any legacy files, any early
return and any interruption between two saves:

- `LifecycleTypeCorrect`: `Spec => []TypeOK`.
- `SuccessIsThisRuns`: `Spec => []ExitZeroIsThisRun`.
- `ManifestIsTrue`: `Spec => []ManifestDescribesDisk`.
- `SidecarsStayTogether`: `Spec => []SidecarsAgree`.
- `EscalationsAreApproved`: `Spec => []NoUnapprovedExecution`.

`LifecycleInv` has one part for each. `SidecarInv` says that a pair is apart only
between the two saves of its phase. `ManifestInv` says that what a process remembers
of its saves is what is on disk, so that the rebuilt ledger is the disk itself.
`RunInv` goes through a full lifecycle phase by phase (`Discovered`, `Planned`,
`Approvable`, `Executed`, `Completed`, `Verified`, `Reported`) and says which artifacts
are by then this run's; the report is ready only if they were good, because the
completions it looks up are those of this run's plan.

`Induction` holds what these proofs share. The rules of induction take a predicate as a
parameter, which the provers cannot instantiate, but the order of finite sets by
inclusion is well-founded, a fact without a parameter: of the sets for which a claim
fails one is the smallest (`MinimalSubset`), and a contradiction there proves the claim
for all. In this way the recursion inside the community modules' `SumFunctionOnSet` is
shown to exist and to be unique (`IterExists`, `IterUnique`), and a sum to be a number
(`SumType`), to take its elements one by one (`SumWithout`) and to grow with its set
(`SumSubset`). Likewise a set of numbers has a least one (`LeastNumber`).

Every invariant that a passing run checks is thus also a theorem, and so are the two
refinements of `DependencyOrder`. Three invariants are proved under a hypothesis that
excludes the case in which the code breaks them: `BaselineKept` and `RollbackRestores`
where `CoverageFiles = {}`, `WritesRecorded` where `SeveralShown`. Only model-checked:
that planning and the ordering of packages end (`AcyclicEnds`, `RunEnds`), since
liveness is out of the prover's reach, and the properties that the code violates.

## Plan

1. An abstract transaction (execute, then keep or undo) that `Rollback` implements, with
   the refinement proved.
2. Renames and a user's staged additions in `Execution`, with `move_back` in `Rollback`.
3. How a tool is resolved to a command (`tool_resolution.py`), in `Verification`.
