----------------------------- MODULE Execution -----------------------------
(***************************************************************************)
(* Phase 3 of the runtime (src/runtime/execution.py), ExecutionPhase.      *)
(* execute: the escalation guard, the baseline of the Git working tree,    *)
(* the loop over the planned items whose handlers write files one by one,  *)
(* the per-item checkpoints, the Git scan for further changes and the two  *)
(* saves.  The repository's user edits the working tree at any moment; the *)
(* repository's own commands (tests, linters, builds), which the phase     *)
(* runs, may leave files behind; the process may be killed.                *)
(*                                                                         *)
(* A file is a path with one of five contents.  Items are 1..Len(Plan) in  *)
(* the order execution runs them, and their handlers those of the module   *)
(* Handlers; the run is not scoped to a package.                           *)
(***************************************************************************)
EXTENDS Handlers, Integers, SequencesExt

CONSTANTS Paths,         \* file paths of the working tree
          Dirs,          \* the directories that Git may show as one entry
          DirOf,         \* the directory of a path, in Dirs, or Root
          Root,
          Trees,         \* possible working trees before the run
          Committed,     \* paths of HEAD
          Staged,        \* paths of HEAD whose deletion the user has staged
          Plan,          \* the selected items, see PlanItem
          MaxFiles,      \* constraints.max_files
          CoverageFiles, \* paths that match .coverage*
          ToolPaths,     \* paths the repository's commands may write
          MaxEdits       \* bound on the paths the user edits during the run

Content == {"absent", "head", "user", "tool", "rup"}
\* What the handler of an item does (Handlers), how its checkpoint is verified,
\* and whether its risk exceeds the tolerance.
PlanItem == [targets : Seq(Paths), outcome : Dispositions, blockers : SUBSET Paths,
             blocked : Dispositions, method : STRING, risky : BOOLEAN]

ASSUME ExecutionAssumption ==
  /\ IsFiniteSet(Paths) /\ IsFiniteSet(Dirs)
  /\ Trees \subseteq [Paths -> Content]
  /\ DirOf \in [Paths -> Dirs \cup {Root}] /\ Root \notin Dirs
  /\ Dirs \cap Paths = {}
  /\ Staged \subseteq Committed /\ Committed \subseteq Paths
  /\ CoverageFiles \subseteq Paths /\ ToolPaths \subseteq Paths
  /\ Plan \in Seq(PlanItem)
  /\ MaxFiles \in Nat /\ MaxEdits \in Nat

Items == 1..Len(Plan)

VARIABLES
  tree,          \* the working tree
  index,         \* paths in Git's index
  pc,            \* where execute() stands
  override,      \* --override-escalation or no escalated item in plan-state.json
  gatesAllowed,  \* may target-controlled commands run (execution_gate_status)
  baselinePaths, \* entries of git status before the run
  dirty,         \* self._baseline_dirty_paths
  at,            \* the item being worked on
  target,        \* how many of its targets the handler has dealt with
  itemChanges,   \* the handler's change records, as their paths
  backups,       \* self._backups: the content saved before an overwrite
  changes,       \* change records: [path, type, item]
  recs,          \* recommendations: <<item, disposition>>
  completion,    \* per_item_completion, "none" while undecided
  execution,     \* RUP_EXECUTION.json, its changes
  operations,    \* execution-state.json, its rollback_operations
  before,        \* history: the working tree when the run began
  written,       \* history: paths the handlers wrote
  edited,        \* history: paths the user has edited since
  ran            \* history: paths the repository's commands wrote

baseline == <<baselinePaths, dirty>>
handler  == <<at, target, itemChanges>>
records  == <<changes, recs, completion>>
saved    == <<execution, operations>>
history  == <<before, written, edited, ran>>
vars == <<tree, index, pc, override, gatesAllowed, baseline, handler, backups, records,
          saved, history>>

-----------------------------------------------------------------------------
(* git status --porcelain. *)

Present(p) == tree[p] # "absent"

\* The two-letter code of a path of HEAD, reduced to the change it stands for.
TrackedEntries ==
  {[path |-> p, type |-> "delete"] : p \in {q \in Committed : q \notin index \/ ~Present(q)}}
  \cup {[path |-> p, type |-> "modify"] :
          p \in {q \in Committed \cap index : Present(q) /\ tree[q] # "head"}}

\* An untracked file shows as its directory when Git tracks nothing there.
EntryOf(p) ==
  IF DirOf[p] # Root /\ \A q \in index : DirOf[q] # DirOf[p] THEN DirOf[p] ELSE p

UntrackedEntries ==
  {[path |-> EntryOf(p), type |-> "create"] : p \in {q \in Paths \ index : Present(q)}}

StatusEntries == TrackedEntries \cup UntrackedEntries
StatusPaths == {e.path : e \in StatusEntries}

-----------------------------------------------------------------------------
(* execute(), up to the first item. *)

CheckEscalation ==
  /\ pc = "load"
  /\ pc' = IF override THEN "baseline" ELSE "refused"
  /\ UNCHANGED <<tree, index, override, gatesAllowed, baseline, handler, backups, records,
                 saved, history>>

CaptureBaselinePaths ==
  /\ pc = "baseline"
  /\ baselinePaths' = StatusPaths
  /\ pc' = "capture"
  /\ UNCHANGED <<tree, index, override, gatesAllowed, dirty, handler, backups, records,
                 saved, history>>

\* Faults a property must notice are kept beside the definition they alter, under
\* its name and what they get wrong.

DirtyUntracked == {e.path : e \in UntrackedEntries}

\* The paths no handler may write: every entry of git status and its old path.
DirtyPaths == StatusPaths

CaptureContentBaseline ==
  /\ pc = "capture"
  /\ dirty' = DirtyPaths
  /\ pc' = IF gatesAllowed THEN "coverage" ELSE "item"
  /\ UNCHANGED <<tree, index, override, gatesAllowed, baselinePaths, handler, backups,
                 records, saved, history>>

\* A command of the repository leaves some files behind.
RunsCommand(S) ==
  /\ tree' = [p \in Paths |-> IF p \in S THEN "tool" ELSE tree[p]]
  /\ ran' = ran \cup S
  /\ UNCHANGED <<before, written, edited>>

\* _collect_baseline_coverage with a test command: the test run, then the
\* removal of every .coverage* file of the repository root.
CollectCoverage ==
  /\ pc = "coverage"
  /\ \/ UNCHANGED <<tree, history>>           \* no test command
     \/ \E S \in SUBSET ToolPaths :
          /\ tree' = [p \in Paths |-> IF p \in CoverageFiles THEN "absent"
                                      ELSE IF p \in S THEN "tool" ELSE tree[p]]
          /\ ran' = ran \cup (S \ CoverageFiles)
          /\ UNCHANGED <<before, written, edited>>
  /\ pc' = "item"
  /\ UNCHANGED <<index, override, gatesAllowed, baseline, handler, backups, records, saved>>

-----------------------------------------------------------------------------
(* One item. *)

ChangedFiles == {changes[k].path : k \in 1..Len(changes)}
LimitReached == Cardinality(ChangedFiles) >= MaxFiles

AgentOnly ==
  /\ recs' = recs \cup {<<at, "AGENT_ONLY">>}
  /\ completion' = [completion EXCEPT ![at] = "AGENT_ONLY"]

NextItemKeepingTarget == /\ at' = at + 1 /\ itemChanges' = <<>>
                         /\ pc' = "item"
                         /\ UNCHANGED target

NextItem == /\ at' = at + 1 /\ target' = 0 /\ itemChanges' = <<>>
            /\ pc' = "item"

SkipItem ==
  /\ pc = "item" /\ at \in Items
  /\ Plan[at].risky \/ LimitReached
  /\ AgentOnly
  /\ NextItem
  /\ UNCHANGED <<tree, index, override, gatesAllowed, baseline, backups, changes, saved,
                 history>>

\* The handler starts; a blocker makes it go straight to its recommendation.
StartHandler ==
  /\ pc = "item" /\ at \in Items
  /\ ~Plan[at].risky /\ ~LimitReached
  /\ pc' = IF \E p \in Plan[at].blockers : Present(p) THEN "blocked" ELSE "exists"
  /\ UNCHANGED <<tree, index, override, gatesAllowed, baseline, handler, backups, records,
                 saved, history>>

\* if not path.exists(): the file is created, else it is left alone.
CheckExists ==
  /\ pc = "exists"
  /\ IF target = Len(Plan[at].targets)
     THEN pc' = "checkpoint" /\ UNCHANGED target
     ELSE IF Present(Plan[at].targets[target + 1])
          THEN target' = target + 1 /\ UNCHANGED pc
          ELSE pc' = "write" /\ UNCHANGED target
  /\ UNCHANGED <<tree, index, override, gatesAllowed, baseline, at, itemChanges, backups,
                 records, saved, history>>

\* _refuse_dirty: the item is left to the agent and the change records of the
\* files its handler has already written are lost with the exception.
RefuseDirty ==
  /\ pc = "write"
  /\ Plan[at].targets[target + 1] \in dirty
  /\ AgentOnly
  /\ NextItem
  /\ UNCHANGED <<tree, index, override, gatesAllowed, baseline, backups, changes, saved,
                 history>>

\* _write_target: back up what is there by now, then write.
WriteTarget ==
  /\ pc = "write"
  /\ LET p == Plan[at].targets[target + 1] IN
     /\ p \notin dirty
     /\ backups' = IF Present(p) THEN backups \cup {<<p, tree[p]>>} ELSE backups
     /\ tree' = [tree EXCEPT ![p] = "rup"]
     /\ itemChanges' = Append(itemChanges, p)
     /\ written' = written \cup {p}
  /\ target' = target + 1
  /\ pc' = "exists"
  /\ UNCHANGED <<index, override, gatesAllowed, baseline, at, records, saved, before,
                 edited, ran>>

\* The handler's recommendation, COMPLETE for none.
Recommended == IF pc = "blocked" THEN Plan[at].blocked ELSE Plan[at].outcome

ResolvedUnchanged == Recommended

Resolved == ResolveCompletion(itemChanges # <<>>, Recommended)

\* `for change in item_changes`: a record past the limit is dropped, its file
\* stays written.
RecordedPastLimit ==
  changes \o [k \in 1..Len(itemChanges) |->
                [path |-> itemChanges[k], type |-> "create", item |-> at]]

Recorded ==
  LET ahead(k) == ChangedFiles \cup {itemChanges[j] : j \in 1..(k - 1)}
      kept == {k \in 1..Len(itemChanges) : Cardinality(ahead(k)) < MaxFiles}
  IN  changes \o [k \in kept |-> [path |-> itemChanges[k], type |-> "create", item |-> at]]

HandlerRecs ==
  IF Recommended = "COMPLETE" THEN recs ELSE recs \cup {<<at, Recommended>>}

RunsCheckpoint == gatesAllowed /\ RunsACommand(Plan[at].method)

\* The checkpoint, the item's completion and its change records.
FinishItem ==
  /\ pc \in {"checkpoint", "blocked"}
  /\ changes' = Recorded
  /\ \/ \* no command to run, or the trust gate refuses it
        /\ ~RunsCheckpoint
        /\ completion' = [completion EXCEPT ![at] = Resolved]
        /\ recs' = HandlerRecs
        /\ UNCHANGED <<tree, history>>
     \/ \* the command passes
        /\ RunsCheckpoint
        /\ \E S \in SUBSET ToolPaths : RunsCommand(S)
        /\ completion' = [completion EXCEPT ![at] = Resolved]
        /\ recs' = HandlerRecs
     \/ \* it fails, or its tool is missing
        /\ RunsCheckpoint
        /\ \E S \in SUBSET ToolPaths : RunsCommand(S)
        /\ completion' = [completion EXCEPT ![at] = "PARTIAL"]
        /\ recs' = HandlerRecs \cup {<<at, "PARTIAL">>}
  /\ NextItem
  /\ UNCHANGED <<index, override, gatesAllowed, baseline, backups, saved>>

-----------------------------------------------------------------------------
(* After the items. *)

LocalVerification ==
  /\ pc = "item" /\ at = Len(Plan) + 1
  /\ IF gatesAllowed THEN \E S \in SUBSET ToolPaths : RunsCommand(S)
                     ELSE UNCHANGED <<tree, history>>
  /\ pc' = "scan"
  /\ UNCHANGED <<index, override, gatesAllowed, baseline, handler, backups, records, saved>>

NetNewTracked ==
  {e \in TrackedEntries : e.path \notin ChangedFiles /\ e.path \notin baselinePaths}

NetNewAndDirty == {e \in StatusEntries : e.path \notin ChangedFiles /\ e.path \notin Dirs}

\* What the scan takes for a change of this run: not recorded yet, not dirty at
\* baseline, not a directory.
NetNew ==
  {e \in StatusEntries : e.path \notin ChangedFiles /\ e.path \notin baselinePaths
                         /\ e.path \notin Dirs}

\* The scan stops at the limit; which entries come first is Git's path order.
ScanGit ==
  /\ pc = "scan"
  /\ \E S \in SUBSET NetNew :
       /\ \/ S = NetNew /\ Cardinality(ChangedFiles) + Cardinality(NetNew) <= MaxFiles
          \/ /\ Cardinality(ChangedFiles) + Cardinality(NetNew) > MaxFiles
             /\ Cardinality(ChangedFiles) + Cardinality(S) = MaxFiles
       /\ LET found == SetToSeq(S) IN
          changes' = changes \o [k \in 1..Len(found) |->
                       [path |-> found[k].path, type |-> found[k].type, item |-> 0]]
  /\ pc' = "save_execution"
  /\ UNCHANGED <<tree, index, override, gatesAllowed, baseline, handler, backups, recs,
                 completion, saved, history>>

\* self._backups.get(path): the last backup wins in the code; a path is backed
\* up once, as a later handler finds the file present.
BackupOf(p) ==
  IF \E c \in Content : <<p, c>> \in backups
  THEN CHOOSE c \in Content : <<p, c>> \in backups ELSE "absent"

\* _build_rollback: the operation that reverts a change.
OperationFor(c) ==
  [op |-> CASE c.type = "create" -> "remove_file"
            [] c.type = "modify" -> "restore_content"
            [] OTHER             -> "restore_deleted",
   path |-> c.path,
   backup |-> BackupOf(c.path)]

SaveExecution ==
  /\ pc = "save_execution"
  /\ execution' = changes
  /\ pc' = "save_state"
  /\ UNCHANGED <<tree, index, override, gatesAllowed, baseline, handler, backups, records,
                 operations, history>>

SaveState ==
  /\ pc = "save_state"
  /\ operations' = [k \in 1..Len(changes) |-> OperationFor(changes[k])]
  /\ pc' = "done"
  /\ UNCHANGED <<tree, index, override, gatesAllowed, baseline, handler, backups, records,
                 execution, history>>

-----------------------------------------------------------------------------
(* The environment. *)

Running == pc \notin {"done", "refused", "killed"}

Crash ==
  /\ Running
  /\ pc' = "killed"
  /\ UNCHANGED <<tree, index, override, gatesAllowed, baseline, handler, backups, records,
                 saved, history>>

\* The user creates, changes or deletes a file.
UserEdit(p) ==
  /\ p \in edited \/ Cardinality(edited) < MaxEdits
  /\ \E c \in {"user", "absent"} : c # tree[p] /\ tree' = [tree EXCEPT ![p] = c]
  /\ edited' = edited \cup {p}
  /\ UNCHANGED <<index, pc, override, gatesAllowed, baseline, handler, backups, records,
                 saved, before, written, ran>>

Init ==
  /\ tree \in Trees
  /\ index = Committed \ Staged
  /\ pc = "load"
  /\ override \in BOOLEAN /\ gatesAllowed \in BOOLEAN
  /\ baselinePaths = {} /\ dirty = {}
  /\ at = 1 /\ target = 0 /\ itemChanges = <<>>
  /\ backups = {}
  /\ changes = <<>> /\ recs = {} /\ completion = [i \in Items |-> "none"]
  /\ execution = <<>> /\ operations = <<>>
  /\ before = tree /\ written = {} /\ edited = {} /\ ran = {}

Run ==
  \/ CheckEscalation \/ CaptureBaselinePaths \/ CaptureContentBaseline \/ CollectCoverage
  \/ SkipItem \/ StartHandler \/ CheckExists \/ RefuseDirty \/ WriteTarget \/ FinishItem
  \/ LocalVerification \/ ScanGit \/ SaveExecution \/ SaveState

Next == Run \/ Crash \/ \E p \in Paths : UserEdit(p)

Spec == Init /\ [][Next]_vars

-----------------------------------------------------------------------------
(* Properties. *)

Change == [path : Paths, type : {"create", "modify", "delete"}, item : 0..Len(Plan)]
Operation == [op : {"remove_file", "restore_content", "restore_deleted"}, path : Paths,
              backup : Content]

\* Type invariant of the execution phase.
TypeOK ==
  /\ tree \in [Paths -> Content] /\ index \subseteq Committed
  /\ pc \in {"load", "refused", "baseline", "capture", "coverage", "item", "exists",
             "write", "checkpoint", "blocked", "scan", "save_execution", "save_state", "done",
             "killed"}
  /\ override \in BOOLEAN /\ gatesAllowed \in BOOLEAN
  /\ baselinePaths \subseteq Paths \cup Dirs /\ dirty \subseteq Paths \cup Dirs
  /\ at \in 1..(Len(Plan) + 1) /\ itemChanges \in Seq(Paths)
  /\ target \in 0..(IF at \in Items THEN Len(Plan[at].targets) ELSE 0)
  /\ backups \subseteq Paths \X Content
  /\ changes \in Seq(Change)
  /\ recs \subseteq Items \X Dispositions
  /\ completion \in [Items -> Dispositions \cup {"none"}]
  /\ execution \in Seq(Change) /\ operations \in Seq(Operation)
  /\ before \in [Paths -> Content]
  /\ written \subseteq Paths /\ edited \subseteq Paths /\ ran \subseteq Paths

\* A user change that was in the working tree before the run: a modified or
\* deleted file of HEAD, or a file Git does not track.
DirtyBefore(p) ==
  \/ p \in Staged \/ before[p] = "user"
  \/ p \in Committed /\ before[p] = "absent"

\* README.md:60 execution "never mutates paths that were dirty at baseline": what
\* the user had changed stays as it was until the user or a command of the
\* repository changes it -- through the handlers, the cleanup of coverage files,
\* a kill at any point and any number of rollbacks.
BaselineKept ==
  \A p \in Paths \ (edited \cup ran) : DirtyBefore(p) => tree[p] = before[p]

\* Changes are recorded at two places, the handlers' and the Git scan's, both
\* under --max-files: together they never record more files than the limit.
RecordedWithinLimit == Cardinality(ChangedFiles) <= MaxFiles

OperatedOn == {operations[k].path : k \in 1..Len(operations)}

\* A file the handlers wrote and that is still there when the run has ended has
\* its rollback operation, even if the item was refused half-way and the handler's
\* own record of it lost -- unless the file limit cut the records off.  It holds where
\* Git shows the targets of a handler with several one by one; when it shows their
\* directory instead, the scan passes over it (execution.py:2127, execution_directory).
WritesRecorded ==
  pc = "done" => \A p \in written : p \in OperatedOn \/ LimitReached \/ p \in edited

\* An item reported COMPLETE has a change of its own in the execution record,
\* although records are dropped at the file limit after completion is decided.
CompleteHasChange ==
  pc = "done" =>
    \A i \in Items : completion[i] = "COMPLETE" =>
      \E k \in 1..Len(execution) : execution[k].item = i
=============================================================================
