--------------------------- MODULE RollbackProofs ---------------------------
(***************************************************************************)
(* What executions and rollbacks over one working tree promise together,   *)
(* in any order and number, killed anywhere, with a user who goes on       *)
(* editing: a rollback without an error restores what its operations name, *)
(* and neither it nor an execution disturbs what the user had changed.     *)
(* Both hold where no file has the name of a coverage file.                *)
(***************************************************************************)
EXTENDS Rollback, ExecutionProofs

-----------------------------------------------------------------------------
(* An execution, as to the files the user has not edited meanwhile.          *)

Unedited == Paths \ edited

\* Until the baseline is taken the tree is the one the run found.
NotStarted == pc \in {"load", "baseline"} => \A p \in Unedited : tree[p] = before[p]

\* A run removes nothing.
NothingRemoved == Running => \A p \in Unedited : ~Present(p) => before[p] = "absent"

\* What Git does not track, or misses, is among the baseline's paths.
ShownBefore ==
  Running /\ pc \notin {"load", "baseline"} =>
    \A p \in Unedited :
      /\ p \notin index /\ before[p] # "absent" => EntryOf(p) \in baselinePaths
      /\ p \in Committed /\ (p \notin index \/ before[p] = "absent") => p \in baselinePaths

\* What a handler is about to write is not there, but for the user's edit.
WritesFree ==
  pc = "write" => LET p == Plan[at].targets[target + 1] IN Present(p) => p \in edited

\* The run has made p: it was not there, and its deletion was not the user's.
Made(p) == before[p] = "absent" /\ (p \in Staged => p \in ran)

RecordTrue(c) == \/ c.path \in edited
                 \/ c.type = "create" /\ Made(c.path)
                 \/ c.type = "modify"

FilesMade   == \A k \in 1..Len(itemChanges) : itemChanges[k] \in edited \/ Made(itemChanges[k])
ChangesTrue == \A k \in 1..Len(changes) : RecordTrue(changes[k])
BackedUp    == \A b \in backups : b[1] \in edited

RecordsTrue == Running => FilesMade /\ ChangesTrue /\ BackedUp

RunTrail == NotStarted /\ NothingRemoved /\ ShownBefore /\ WritesFree /\ RecordsTrue

-----------------------------------------------------------------------------
(* The operations on disk, and how far a rollback has come with them.        *)

\* A file with the user's content was there all the time.
UserOld ==
  \A p \in Unedited : /\ tree[p] = "user" => before[p] = "user"
                      /\ before[p] = "user" => origin[p] = "user"

OperationTrue(o) ==
  \/ o.path \in edited
  \/ /\ o.op = "remove_file"
     /\ origin[o.path] = "absent" /\ (o.path \in Staged => o.path \in ran)
  \/ o.op = "restore_content" /\ o.backup = "absent"

OperationsTrue == \A k \in 1..Len(operations) : OperationTrue(operations[k])

Undone(o) == o.path \in edited \/ (tree[o.path] = "absent" /\ origin[o.path] = "absent")

Position ==
  /\ Running => rpc = "idle" /\ next = 0
  /\ next \in 0..(Len(operations) + 1)
  /\ rpc = "applying" => next # 0
  /\ rpc = "complete" => next = Len(operations) + 1
  /\ rpc \in {"applying", "complete"} =>
       \A k \in 1..Len(operations) : k < next => Undone(operations[k])

TxTyped == /\ origin \in [Paths -> Content]
           /\ executions \in 1..MaxExecutions /\ rollbacks \in 0..MaxRollbacks
           /\ rpc \in {"idle", "applying", "complete", "aborted", "killed"}
           /\ failed \in BOOLEAN

TxInv == KeptInv /\ RunTrail /\ UserOld /\ OperationsTrue /\ Position /\ TxTyped

LEMMA InitTx == TxInit => TxInv
<1> SUFFICES ASSUME TxInit PROVE TxInv
  OBVIOUS
<1>1. KeptInv
  BY InitKept DEF TxInit
<1>2. RunTrail
  BY DEF TxInit, Init, RunTrail, NotStarted, NothingRemoved, ShownBefore, WritesFree,
     RecordsTrue, FilesMade, ChangesTrue, BackedUp, Present
<1>3. UserOld /\ OperationsTrue /\ Position
  BY DEF TxInit, Init, UserOld, OperationsTrue, Position
<1>4. TxTyped
  <2>1. before \in [Paths -> Content]
    BY <1>1 DEF KeptInv, TypeInv, TypeOK
  <2>2. 1 \in 1..MaxExecutions /\ 0 \in 0..MaxRollbacks
    BY RollbackAssumption
  <2>3. QED
    BY <2>1, <2>2 DEF TxInit, TxTyped
<1>5. QED
  BY <1>1, <1>2, <1>3, <1>4 DEF TxInv

-----------------------------------------------------------------------------
(* Steps of an execution. *)

\* What a step of an execution does to the tree, the index and the baseline.
LEMMA StepTree ==
  ASSUME CoverageFiles = {}, TypeInv, Next
  PROVE  /\ UNCHANGED <<before, index>> /\ edited \subseteq edited' /\ ran \subseteq ran'
         /\ Running' => Running
         /\ \A p \in Paths \ edited' : tree'[p] = tree[p] \/ tree'[p] \in {"tool", "rup"}
         /\ pc' \in {"load", "baseline"} =>
              /\ pc \in {"load", "baseline"}
              /\ \A p \in Paths \ edited' : tree'[p] = tree[p]
         /\ pc = "load" => pc' \in {"load", "baseline", "refused", "killed"}
         /\ pc = "baseline" =>
              \/ pc' \in {"baseline", "killed"}
              \/ baselinePaths' = StatusPaths
         /\ pc # "baseline" => baselinePaths' = baselinePaths
<1> USE DEF baseline, handler, records, saved, history
<1>1. UNCHANGED index /\ edited \subseteq edited' /\ ran \subseteq ran'
  BY IndexUntouched
<1>2. CASE \/ CheckEscalation \/ CaptureBaselinePaths \/ CaptureContentBaseline \/ SkipItem
           \/ StartHandler \/ CheckExists \/ RefuseDirty \/ ScanGit \/ SaveExecution
           \/ SaveState \/ Crash
  <2>1. UNCHANGED <<before, tree>>
    BY <1>2 DEF CheckEscalation, CaptureBaselinePaths, CaptureContentBaseline, SkipItem,
       StartHandler, CheckExists, RefuseDirty, ScanGit, SaveExecution, SaveState, Crash
  <2>2. /\ Running' => Running
        /\ pc' \in {"load", "baseline"} => pc \in {"load", "baseline"}
        /\ pc = "load" => pc' \in {"load", "baseline", "refused", "killed"}
        /\ pc = "baseline" => pc' = "killed" \/ baselinePaths' = StatusPaths
        /\ pc # "baseline" => baselinePaths' = baselinePaths
    BY <1>2 DEF CheckEscalation, CaptureBaselinePaths, CaptureContentBaseline, SkipItem,
       StartHandler, CheckExists, RefuseDirty, ScanGit, SaveExecution, SaveState, Crash,
       NextItem, Running
  <2>3. QED
    BY <1>1, <2>1, <2>2
<1>3. CASE CollectCoverage \/ FinishItem \/ LocalVerification
  <2>1. /\ UNCHANGED <<before, edited, baselinePaths>>
        /\ pc \in {"coverage", "checkpoint", "blocked", "item"} /\ pc' \in {"item", "scan"}
    BY <1>3 DEF CollectCoverage, FinishItem, LocalVerification, NextItem, RunsCommand
  <2>2. \A p \in Paths : tree'[p] = tree[p] \/ tree'[p] = "tool"
    BY <1>3 DEF CollectCoverage, FinishItem, LocalVerification, RunsCommand
  <2>3. QED
    BY <1>1, <2>1, <2>2 DEF Running
<1>4. CASE WriteTarget
  <2>1. /\ UNCHANGED <<before, edited, baselinePaths>> /\ pc = "write" /\ pc' = "exists"
        /\ tree' = [tree EXCEPT ![Plan[at].targets[target + 1]] = "rup"]
    BY <1>4 DEF WriteTarget
  <2>2. \A p \in Paths : tree'[p] = tree[p] \/ tree'[p] = "rup"
    BY <2>1 DEF TypeInv, TypeOK
  <2>3. QED
    BY <1>1, <2>1, <2>2 DEF Running
<1>5. ASSUME NEW q \in Paths, UserEdit(q)
      PROVE  /\ UNCHANGED <<before, baselinePaths, pc>>
             /\ \A p \in Paths \ edited' : tree'[p] = tree[p]
  BY <1>5 DEF UserEdit, TypeInv, TypeOK
<1>6. CASE \E q \in Paths : UserEdit(q)
  BY <1>1, <1>5, <1>6 DEF Running
<1>7. QED
  BY <1>2, <1>3, <1>4, <1>6 DEF Next, Run

\* The baseline shows what Git does not track and what it misses.
LEMMA BaselineShows ==
  ASSUME KeptInv, RunTrail, pc = "baseline", NEW p \in Unedited
  PROVE  /\ p \notin index /\ before[p] # "absent" => EntryOf(p) \in StatusPaths
         /\ p \in Committed /\ (p \notin index \/ before[p] = "absent") => p \in StatusPaths
<1>1. tree[p] = before[p] /\ p \in Paths
  BY DEF RunTrail, NotStarted, Unedited
<1>2. ASSUME p \notin index, before[p] # "absent" PROVE EntryOf(p) \in StatusPaths
  <2>1. [path |-> EntryOf(p), type |-> "create"] \in UntrackedEntries
    BY <1>1, <1>2 DEF UntrackedEntries, Present
  <2>2. QED
    BY <2>1 DEF StatusPaths, StatusEntries
<1>3. ASSUME p \in Committed, p \notin index \/ before[p] = "absent" PROVE p \in StatusPaths
  <2>1. [path |-> p, type |-> "delete"] \in TrackedEntries
    BY <1>1, <1>3 DEF TrackedEntries, Present
  <2>2. QED
    BY <2>1 DEF StatusPaths, StatusEntries
<1>4. QED
  BY <1>2, <1>3

\* A file the handler writes is made by the run.
LEMMA WriteMakes ==
  ASSUME KeptInv, RunTrail, pc = "write", NEW p \in Unedited,
         p = Plan[at].targets[target + 1], p \notin dirty
  PROVE  ~Present(p) /\ Made(p)
<1>1. ~Present(p) /\ before[p] = "absent"
  BY DEF RunTrail, WritesFree, NothingRemoved, Running, Unedited
<1>2. ASSUME p \in Staged, p \notin ran PROVE FALSE
  <2>1. p \in Committed \ Disturbed /\ DirtyBefore(p)
    BY <1>2, ExecutionAssumption DEF Disturbed, Unedited, DirtyBefore
  <2>2. QED
    BY <2>1 DEF KeptInv, DirtyNoted
<1>3. QED
  BY <1>1, <1>2 DEF Made

\* What the scan finds was not there before, or is a tracked file that was changed.
LEMMA ScanMakes ==
  ASSUME KeptInv, RunTrail, pc = "scan", NEW e \in NetNew, e.path \in Unedited
  PROVE  (e.type = "create" /\ Made(e.path)) \/ e.type = "modify"
<1>1. e.path \notin baselinePaths /\ e.path \notin Dirs /\ e \in StatusEntries /\ Running
  BY DEF NetNew, Running
<1>2. CASE e \in UntrackedEntries
  <2>1. PICK q \in Paths \ index : e.path = EntryOf(q) /\ e.type = "create"
    BY <1>2 DEF UntrackedEntries
  <2>2. EntryOf(q) = q
    BY <1>1, <2>1, ExecutionAssumption DEF EntryOf
  <2>3. before[q] = "absent"
    BY <1>1, <2>1, <2>2 DEF RunTrail, ShownBefore
  <2>4. q \notin Staged
    BY <1>1, <2>1, <2>2, ExecutionAssumption DEF RunTrail, ShownBefore
  <2>5. QED
    BY <2>1, <2>2, <2>3, <2>4 DEF Made
<1>3. CASE e \in TrackedEntries
  <2>1. CASE e.type = "delete"
    <3>1. e.path \in Committed /\ (e.path \notin index \/ ~Present(e.path))
      BY <1>3, <2>1 DEF TrackedEntries
    <3>2. ~Present(e.path) => before[e.path] = "absent"
      BY <1>1 DEF RunTrail, NothingRemoved
    <3>3. QED
      BY <1>1, <3>1, <3>2 DEF RunTrail, ShownBefore
  <2>2. CASE e.type = "modify"
    BY <2>2
  <2>3. QED
    BY <1>3, <2>1, <2>2 DEF TrackedEntries
<1>4. QED
  BY <1>1, <1>2, <1>3 DEF StatusEntries

\* What is made stays made as files become the user's or a command's.
LEMMA MadeStays ==
  ASSUME UNCHANGED before, edited \subseteq edited', ran \subseteq ran'
  PROVE  /\ \A p : Made(p) => before'[p] = "absent" /\ (p \in Staged => p \in ran')
         /\ UNCHANGED itemChanges /\ FilesMade => FilesMade'
         /\ itemChanges' = <<>> => FilesMade'
         /\ UNCHANGED changes /\ ChangesTrue => ChangesTrue'
         /\ UNCHANGED backups /\ BackedUp => BackedUp'
<1>1. \A p : Made(p) => before'[p] = "absent" /\ (p \in Staged => p \in ran')
  BY DEF Made
<1>2. UNCHANGED itemChanges /\ FilesMade => FilesMade'
  BY DEF FilesMade, Made
<1>3. itemChanges' = <<>> => FilesMade'
  BY DEF FilesMade
<1>4. UNCHANGED changes /\ ChangesTrue => ChangesTrue'
  BY DEF ChangesTrue, RecordTrue, Made
<1>5. UNCHANGED backups /\ BackedUp => BackedUp'
  BY DEF BackedUp
<1>6. QED
  BY <1>1, <1>2, <1>3, <1>4, <1>5

\* Appending records that are true.
LEMMA RecordsJoin ==
  ASSUME changes \in Seq(Change), ChangesTrue, UNCHANGED before, edited \subseteq edited',
         ran \subseteq ran', NEW n \in Nat, NEW f \in [1..n -> Change], changes' = changes \o f,
         \A k \in 1..n : RecordTrue(f[k])
  PROVE  ChangesTrue'
<1>1. /\ Len(changes') = Len(changes) + n
      /\ \A k \in 1..(Len(changes) + n) :
           \/ k \in 1..Len(changes) /\ changes'[k] = changes[k]
           \/ k - Len(changes) \in 1..n /\ changes'[k] = f[k - Len(changes)]
  <2>1. Len(changes \o f) = Len(changes) + n
    BY Joined
  <2>2. \A k \in 1..(Len(changes) + n) :
          \/ k \in 1..Len(changes) /\ (changes \o f)[k] = changes[k]
          \/ k - Len(changes) \in 1..n /\ (changes \o f)[k] = f[k - Len(changes)]
    BY Joined
  <2>3. QED
    BY <2>1, <2>2
<1>2. \A k \in 1..Len(changes') : RecordTrue(changes'[k])
  BY <1>1 DEF ChangesTrue
<1>3. QED
  BY <1>2 DEF ChangesTrue, RecordTrue, Made

LEMMA StepRecords ==
  ASSUME CoverageFiles = {}, KeptInv, RunTrail, Next
  PROVE  RecordsTrue'
<1> USE DEF baseline, handler, records, saved, history
<1> SUFFICES ASSUME Running' PROVE FilesMade' /\ ChangesTrue' /\ BackedUp'
  BY DEF RecordsTrue
<1>1. /\ UNCHANGED before /\ edited \subseteq edited' /\ ran \subseteq ran'
      /\ FilesMade /\ ChangesTrue /\ BackedUp /\ TypeInv
      /\ itemChanges \in Seq(Paths) /\ changes \in Seq(Change)
  <2>1. TypeInv /\ itemChanges \in Seq(Paths) /\ changes \in Seq(Change)
    BY DEF KeptInv, TypeInv, TypeOK
  <2>2. Running /\ UNCHANGED before /\ edited \subseteq edited' /\ ran \subseteq ran'
    BY <2>1, StepTree
  <2>3. QED
    BY <2>1, <2>2 DEF RunTrail, RecordsTrue
<1>2. CASE WriteTarget
  <2> DEFINE p == Plan[at].targets[target + 1]
  <2>1. pc = "write" /\ p \notin dirty /\ p \in Paths
    <3>1. at \in Items /\ target \in Nat /\ target + 1 \in 1..Len(Plan[at].targets)
      BY <1>1, <1>2, ItemType DEF WriteTarget, TypeInv, TypeOK, HandlerOnItem
    <3>2. QED
      BY <1>2, <3>1, ItemType DEF WriteTarget
  <2>2. /\ itemChanges' = Append(itemChanges, p) /\ UNCHANGED changes
        /\ backups' = IF Present(p) THEN backups \cup {<<p, tree[p]>>} ELSE backups
    BY <1>2 DEF WriteTarget
  <2>3. p \in edited \/ (~Present(p) /\ Made(p))
    BY <2>1, WriteMakes DEF Unedited
  <2> HIDE DEF p
  <2>4. BackedUp'
    BY <1>1, <2>2, <2>3 DEF BackedUp
  <2>5. FilesMade'
    <3>1. \A k \in 1..Len(itemChanges') :
            (k \in 1..Len(itemChanges) /\ itemChanges'[k] = itemChanges[k]) \/ itemChanges'[k] = p
      BY <1>1, <2>1, <2>2
    <3>2. \A k \in 1..Len(itemChanges') : itemChanges'[k] \in edited \/ Made(itemChanges'[k])
      BY <1>1, <2>3, <3>1 DEF FilesMade
    <3>3. QED
      BY <1>1, <3>2 DEF FilesMade, Made
  <2>6. QED
    BY <1>1, <2>2, <2>4, <2>5, MadeStays
<1>3. CASE FinishItem
  <2>1. at \in Items /\ changes' = Recorded /\ itemChanges' = <<>> /\ UNCHANGED backups
    BY <1>1, <1>3 DEF FinishItem, NextItem, TypeInv, HandlerOnItem
  <2>2. PICK n \in 0..Len(itemChanges) :
          /\ Recorded = changes \o [k \in 1..n |-> [path |-> itemChanges[k],
                                                    type |-> "create", item |-> at]]
          /\ [k \in 1..n |-> [path |-> itemChanges[k], type |-> "create", item |-> at]]
               \in [1..n -> Change]
    BY <1>1, <2>1, RecordedType
  <2> DEFINE f == [k \in 1..n |-> [path |-> itemChanges[k], type |-> "create", item |-> at]]
  <2>3. n \in Nat /\ 1..n \subseteq 1..Len(itemChanges)
    BY <1>1
  <2>4. \A k \in 1..n : RecordTrue(f[k])
    BY <1>1, <2>3 DEF FilesMade, RecordTrue
  <2>5. f \in [1..n -> Change] /\ changes' = changes \o f
    BY <2>1, <2>2
  <2> HIDE DEF f
  <2>6. ChangesTrue'
    BY <1>1, <2>3, <2>4, <2>5, RecordsJoin
  <2>7. QED
    BY <1>1, <2>1, <2>6, MadeStays
<1>4. CASE ScanGit
  <2>1. PICK S \in SUBSET NetNew :
          changes' = changes \o [k \in 1..Len(SetToSeq(S)) |->
            [path |-> SetToSeq(S)[k].path, type |-> SetToSeq(S)[k].type, item |-> 0]]
    BY <1>4 DEF ScanGit
  <2> DEFINE n == Cardinality(S)
             f == [k \in 1..n |->
                    [path |-> SetToSeq(S)[k].path, type |-> SetToSeq(S)[k].type, item |-> 0]]
  <2>2. IsFiniteSet(S) /\ S \subseteq [path : Paths, type : {"create", "modify", "delete"}]
    BY <1>1, NetNewType, FS_Subset DEF TypeInv
  <2>3. n \in Nat /\ Len(SetToSeq(S)) = n /\ SetToSeq(S) \in [1..n -> S]
    BY <2>2, SetInOrder
  <2>4. 0 \in 0..Len(Plan)
    BY ExecutionAssumption
  <2>5. pc = "scan" /\ UNCHANGED <<itemChanges, backups>>
    BY <1>4 DEF ScanGit
  <2>6. \A e \in S : e.path \in edited \/ (e.type = "create" /\ Made(e.path)) \/ e.type = "modify"
    BY <2>2, <2>5, ScanMakes DEF Unedited
  <2>7. f \in [1..n -> Change]
    BY <2>2, <2>3, <2>4 DEF Change
  <2>8. \A k \in 1..n : RecordTrue(f[k])
    <3>1. ASSUME NEW k \in 1..n PROVE RecordTrue(f[k])
      <4>1. SetToSeq(S)[k] \in S
        BY <2>3
      <4>2. f[k].path = SetToSeq(S)[k].path /\ f[k].type = SetToSeq(S)[k].type
        OBVIOUS
      <4>3. QED
        BY <2>6, <4>1, <4>2 DEF RecordTrue
    <3>2. QED
      BY <3>1
  <2>9. changes' = changes \o f
    BY <2>1, <2>3
  <2> HIDE DEF n, f
  <2>10. ChangesTrue'
    BY <1>1, <2>3, <2>7, <2>8, <2>9, RecordsJoin
  <2>11. QED
    BY <1>1, <2>5, <2>10, MadeStays
<1>5. CASE \/ CheckEscalation \/ CaptureBaselinePaths \/ CaptureContentBaseline
           \/ CollectCoverage \/ SkipItem \/ StartHandler \/ CheckExists \/ RefuseDirty
           \/ LocalVerification \/ SaveExecution \/ SaveState \/ Crash
           \/ \E q \in Paths : UserEdit(q)
  <2>1. (itemChanges' = itemChanges \/ itemChanges' = <<>>) /\ UNCHANGED <<changes, backups>>
    BY <1>5 DEF CheckEscalation, CaptureBaselinePaths, CaptureContentBaseline,
       CollectCoverage, SkipItem, StartHandler, CheckExists, RefuseDirty, LocalVerification,
       SaveExecution, SaveState, Crash, UserEdit, NextItem
  <2>2. QED
    BY <1>1, <2>1, MadeStays
<1>6. QED
  BY <1>2, <1>3, <1>4, <1>5 DEF Next, Run

LEMMA StepTrail ==
  ASSUME CoverageFiles = {}, KeptInv, RunTrail, Next
  PROVE  RunTrail'
<1>1. TypeInv
  BY DEF KeptInv
<1>2. NotStarted'
  BY <1>1, StepTree DEF RunTrail, NotStarted, Unedited
<1>3. NothingRemoved'
  BY <1>1, StepTree DEF RunTrail, NothingRemoved, Unedited, Present
<1>4. ShownBefore'
  <2> SUFFICES ASSUME Running', pc' \notin {"load", "baseline"}, NEW p \in Unedited'
               PROVE  /\ p \notin index' /\ before'[p] # "absent" =>
                           EntryOf(p)' \in baselinePaths'
                      /\ p \in Committed /\ (p \notin index' \/ before'[p] = "absent") =>
                           p \in baselinePaths'
    BY DEF ShownBefore
  <2>1. Running /\ UNCHANGED <<before, index>> /\ p \in Unedited
    BY <1>1, StepTree DEF Unedited
  <2>2. EntryOf(p)' = EntryOf(p)
    BY <2>1 DEF EntryOf
  <2>3. CASE pc = "baseline"
    <3>1. baselinePaths' = StatusPaths
      BY <1>1, <2>3, StepTree DEF Running
    <3>2. QED
      BY <2>1, <2>2, <2>3, <3>1, BaselineShows
  <2>4. CASE pc # "baseline"
    <3>1. pc # "load" /\ baselinePaths' = baselinePaths
      BY <1>1, <2>4, StepTree DEF Running
    <3>2. QED
      BY <2>1, <2>2, <2>4, <3>1 DEF RunTrail, ShownBefore
  <2>5. QED
    BY <2>3, <2>4
<1>5. WritesFree'
  <2> SUFFICES ASSUME pc' = "write" PROVE WritesFree'
    BY DEF WritesFree
  <2> USE DEF baseline, handler, records, saved, history
  <2>1. CheckExists \/ \E q \in Paths : UserEdit(q)
    BY DEF CheckEscalation, CaptureBaselinePaths, CaptureContentBaseline, Next, Run,
       CollectCoverage, SkipItem, StartHandler, RefuseDirty, LocalVerification, WriteTarget,
       FinishItem, ScanGit, SaveExecution, SaveState, Crash, NextItem
  <2>2. CASE CheckExists
    BY <2>2 DEF CheckExists, WritesFree, Present
  <2>3. ASSUME NEW q \in Paths, UserEdit(q) PROVE WritesFree'
    <3>1. /\ pc = "write" /\ UNCHANGED <<at, target>> /\ edited' = edited \cup {q}
          /\ \A p \in Paths : p # q => tree'[p] = tree[p]
      BY <1>1, <2>3 DEF UserEdit, TypeInv, TypeOK
    <3>2. Plan[at].targets[target + 1] \in Paths
      BY <1>1, <3>1, ItemType DEF TypeInv, TypeOK, HandlerOnItem
    <3>3. QED
      BY <3>1, <3>2 DEF RunTrail, WritesFree, Present
  <2>4. QED
    BY <2>1, <2>2, <2>3
<1>6. QED
  BY <1>2, <1>3, <1>4, <1>5, StepRecords DEF RunTrail

-----------------------------------------------------------------------------
(* The composition: the steps of an execution, a further execution, and the  *)
(* steps of a rollback.                                                      *)

\* What an execution saves reverts what it has recorded.
LEMMA SavedTrue ==
  ASSUME TypeInv, RunTrail, SaveState, origin' = before
  PROVE  OperationsTrue'
<1>1. /\ UNCHANGED <<before, edited, ran, changes>> /\ ChangesTrue /\ BackedUp
      /\ operations' = [k \in 1..Len(changes) |-> OperationFor(changes[k])]
      /\ changes \in Seq(Change)
  BY DEF SaveState, RunTrail, RecordsTrue, Running, history, records, TypeInv, TypeOK
<1>2. Len(changes) \in Nat /\ Len(operations') = Len(changes)
  BY <1>1
<1>3. ASSUME NEW k \in 1..Len(changes)
      PROVE  \/ operations'[k].path \in edited
             \/ /\ operations'[k].op = "remove_file"
                /\ before[operations'[k].path] = "absent"
                /\ operations'[k].path \in Staged => operations'[k].path \in ran
             \/ operations'[k].op = "restore_content" /\ operations'[k].backup = "absent"
  <2>1. operations'[k] = OperationFor(changes[k])
    BY <1>1
  <2>2. RecordTrue(changes[k])
    BY <1>1, <1>3 DEF ChangesTrue
  <2>3. changes[k].path \notin edited => BackupOf(changes[k].path) = "absent"
    BY <1>1 DEF BackedUp, BackupOf
  <2>4. QED
    BY <2>1, <2>2, <2>3 DEF OperationFor, RecordTrue, Made
<1>4. QED
  BY <1>1, <1>2, <1>3 DEF OperationsTrue, OperationTrue

\* The operations on disk change only as an execution saves its own.
LEMMA OperationsUntouched ==
  ASSUME Next
  PROVE  UNCHANGED operations \/ (SaveState /\ pc = "save_state" /\ pc' = "done")
<1> USE DEF baseline, handler, records, saved, history
<1>1. CASE SaveState
  BY <1>1 DEF SaveState
<1>2. CASE ~SaveState
  BY <1>2 DEF CheckEscalation, CaptureBaselinePaths, CaptureContentBaseline, Next, Run,
     CollectCoverage, SkipItem, StartHandler, CheckExists, RefuseDirty, LocalVerification,
     WriteTarget, FinishItem, ScanGit, SaveExecution, Crash, UserEdit
<1>3. QED
  BY <1>1, <1>2

\* When no execution is under way, only the user acts.
LEMMA OnlyUser ==
  ASSUME Next, ~Running
  PROVE  \E q \in Paths : UserEdit(q)
BY DEF CheckEscalation, CaptureBaselinePaths, CaptureContentBaseline, Next, Run, Running,
   CollectCoverage, SkipItem, StartHandler, CheckExists, RefuseDirty, LocalVerification,
   WriteTarget, FinishItem, ScanGit, SaveExecution, SaveState, Crash

LEMMA StepExecute ==
  ASSUME CoverageFiles = {}, TxInv, Execute
  PROVE  TxInv'
<1>1. /\ KeptInv /\ TypeInv /\ RunTrail /\ UserOld /\ OperationsTrue /\ Position /\ TxTyped
      /\ Next /\ UNCHANGED <<rpc, next, failed, rollbacks, executions>>
      /\ origin' = IF pc = "save_state" /\ pc' = "done" THEN before ELSE origin
  BY DEF TxInv, KeptInv, Execute, rollback
<1>2. KeptInv' /\ RunTrail'
  BY <1>1, StepKept, StepTrail
<1>3. UserOld'
  <2>1. ASSUME NEW p \in Unedited' PROVE /\ tree'[p] = "user" => before'[p] = "user"
                                         /\ before'[p] = "user" => origin'[p] = "user"
    <3>1. p \in Unedited /\ before' = before
      BY <1>1, StepTree DEF Unedited
    <3>2. tree'[p] = "user" => tree[p] = "user"
      BY <1>1, StepTree DEF Unedited
    <3>3. QED
      BY <1>1, <3>1, <3>2 DEF UserOld
  <2>2. QED
    BY <2>1 DEF UserOld
<1>4. OperationsTrue'
  <2>1. CASE SaveState /\ pc = "save_state" /\ pc' = "done"
    BY <1>1, <2>1, SavedTrue
  <2>2. CASE UNCHANGED operations /\ ~(pc = "save_state" /\ pc' = "done")
    <3>1. UNCHANGED <<operations, origin>> /\ edited \subseteq edited' /\ ran \subseteq ran'
      BY <1>1, <2>2, StepTree
    <3>2. QED
      BY <1>1, <3>1 DEF OperationsTrue, OperationTrue
  <2>3. CASE pc = "save_state" /\ pc' = "done" /\ ~SaveState
    BY <1>1, <2>3 DEF CheckEscalation, CaptureBaselinePaths, CaptureContentBaseline, Next, Run,
       CollectCoverage, SkipItem, StartHandler, CheckExists, RefuseDirty, LocalVerification,
       WriteTarget, FinishItem, ScanGit, SaveExecution, Crash, UserEdit
  <2>4. QED
    BY <1>1, <2>1, <2>2, <2>3, OperationsUntouched
<1>5. Position'
  <2>1. CASE Running
    <3>1. rpc' = "idle" /\ next' = 0
      BY <1>1, <2>1 DEF Position
    <3>2. Len(operations') \in Nat
      BY <1>2 DEF KeptInv, TypeInv, TypeOK
    <3>3. QED
      BY <3>1, <3>2 DEF Position
  <2>2. CASE ~Running
    <3>1. PICK q \in Paths : UserEdit(q)
      BY <1>1, <2>2, OnlyUser
    <3>2. /\ UNCHANGED <<pc, operations>> /\ edited' = edited \cup {q}
          /\ \A p \in Paths : p # q => tree'[p] = tree[p]
      BY <1>1, <3>1 DEF UserEdit, saved, TypeInv, TypeOK
    <3>3. origin' = origin /\ ~Running'
      BY <1>1, <2>2, <3>2 DEF Running
    <3>4. ASSUME NEW k \in 1..Len(operations) PROVE operations[k].path \in Paths
      <4>1. operations \in Seq(Operation)
        BY <1>1 DEF TypeInv, TypeOK
      <4>2. operations[k] \in Operation
        BY <4>1
      <4>3. QED
        BY <4>2 DEF Operation
    <3>5. ASSUME NEW k \in 1..Len(operations), Undone(operations[k])
          PROVE  Undone(operations[k])'
      BY <3>2, <3>3, <3>4, <3>5 DEF Undone
    <3>6. QED
      BY <1>1, <3>2, <3>3, <3>5 DEF Position
  <2>3. QED
    BY <2>1, <2>2
<1>6. TxTyped'
  BY <1>1 DEF TxTyped, KeptInv, TypeInv, TypeOK
<1>7. QED
  BY <1>2, <1>3, <1>4, <1>5, <1>6 DEF TxInv

LEMMA StepReexecute ==
  ASSUME TxInv, Reexecute
  PROVE  TxInv'
<1> USE DEF baseline, handler, records, saved, history
<1>1. /\ pc' = "load" /\ before' = tree
      /\ UNCHANGED <<tree, index, edited, ran, operations, origin, rollbacks>>
      /\ itemChanges' = <<>> /\ changes' = <<>> /\ backups' = {}
      /\ rpc' = "idle" /\ next' = 0 /\ failed' = FALSE
  BY DEF Reexecute
<1>2. TypeInv'
  <2>1. TypeOK
    BY DEF TxInv, KeptInv, TypeInv
  <2>2. /\ UNCHANGED <<tree, index, execution, operations, edited, ran>>
        /\ before' \in [Paths -> Content] /\ written' \subseteq Paths
    BY <2>1 DEF Reexecute, TypeOK
  <2>3. /\ at' \in 1..(Len(Plan) + 1)
        /\ target' \in 0..(IF at' \in Items THEN Len(Plan[at'].targets) ELSE 0)
    <3>1. at' = 1 /\ target' = 0 /\ Len(Plan) \in Nat
      BY ExecutionAssumption DEF Reexecute
    <3>2. QED
      BY <3>1, ItemType
  <2>4. completion' \in [Items -> Dispositions \cup {"none"}]
    BY DEF Reexecute
  <2>5. /\ override' \in BOOLEAN /\ gatesAllowed' \in BOOLEAN
        /\ baselinePaths' = {} /\ dirty' = {} /\ recs' = {}
    BY DEF Reexecute
  <2>6. TypeOK'
    BY <1>1, <2>1, <2>2, <2>3, <2>4, <2>5 DEF TypeOK
  <2>7. QED
    BY <1>1, <2>6 DEF TypeInv, HandlerOnItem
<1>3. KeptInv'
  BY <1>1, <1>2 DEF TxInv, KeptInv, IndexKept, BaselineKept, DirtyNoted, WritesAbsent, Disturbed
<1>4. RunTrail'
  BY <1>1 DEF RunTrail, NotStarted, NothingRemoved, ShownBefore, WritesFree, RecordsTrue,
     FilesMade, ChangesTrue, BackedUp, Present, Unedited
<1>5. UserOld' /\ OperationsTrue'
  BY <1>1 DEF TxInv, UserOld, OperationsTrue, OperationTrue, Unedited
<1>6. Position'
  <2>1. Len(operations') \in Nat
    BY <1>2 DEF TypeInv, TypeOK
  <2>2. QED
    BY <1>1, <2>1 DEF Position
<1>7. TxTyped'
  <2>1. executions < MaxExecutions /\ executions' = executions + 1
    BY DEF Reexecute
  <2>2. executions' \in 1..MaxExecutions
    BY <2>1, RollbackAssumption DEF TxInv, TxTyped
  <2>3. QED
    BY <1>1, <2>2 DEF TxInv, TxTyped
<1>8. QED
  BY <1>3, <1>4, <1>5, <1>6, <1>7 DEF TxInv

\* A step that changes at most one file: one the user has edited, or one that the
\* recorded run has made and that is removed.
LEMMA TrailByUndoing ==
  ASSUME TxInv, ~Running, UNCHANGED executionUntouched, UNCHANGED origin,
         NEW p \in Paths, NEW c \in Content,
         tree' = [tree EXCEPT ![p] = c], index' = index \/ index' = index \cup {p},
         index' \subseteq Committed,
         \/ p \in edited
         \/ /\ c = "absent" /\ index' = index /\ origin[p] = "absent"
            /\ p \in Staged => p \in ran
  PROVE  KeptInv' /\ RunTrail' /\ UserOld' /\ OperationsTrue'
<1>1. /\ UNCHANGED <<pc, before, edited, ran, operations, changes, backups, itemChanges, at>>
      /\ ~Running'
  BY DEF executionUntouched, baseline, handler, records, saved, history, Running
<1>2. /\ TypeInv /\ IndexKept /\ BaselineKept /\ UserOld /\ OperationsTrue
      /\ tree \in [Paths -> Content]
  BY DEF TxInv, KeptInv, TypeInv, TypeOK
<1>3. TypeInv'
  <2>1. tree' \in [Paths -> Content]
    BY <1>2
  <2>2. QED
    BY <1>2, <2>1 DEF executionUntouched, baseline, handler, records, saved, history,
       TypeInv, TypeOK, HandlerOnItem
<1>4. \A q \in Paths : q # p => tree'[q] = tree[q]
  BY <1>2
<1>5. tree'[p] = c
  BY <1>2
<1>6. IndexKept'
  BY <1>1, <1>2 DEF IndexKept, Disturbed
<1>7. BaselineKept'
  <2>1. ASSUME NEW q \in Paths \ (edited' \cup ran'), DirtyBefore(q)' PROVE tree'[q] = before'[q]
    <3>1. DirtyBefore(q) /\ q \in Unedited /\ q \notin ran /\ before' = before
      BY <1>1, <2>1 DEF DirtyBefore, Unedited
    <3>2. CASE q = p
      <4>1. before[q] # "user" /\ q \notin Staged
        BY <1>2, <3>1, <3>2 DEF UserOld, Unedited
      <4>2. before[q] = "absent"
        BY <3>1, <4>1 DEF DirtyBefore
      <4>3. QED
        BY <1>5, <3>1, <3>2, <4>2 DEF Unedited
    <3>3. CASE q # p
      BY <1>2, <1>4, <3>1, <3>3 DEF BaselineKept, Unedited
    <3>4. QED
      BY <3>2, <3>3
  <2>2. QED
    BY <2>1 DEF BaselineKept
<1>8. KeptInv' /\ RunTrail'
  BY <1>1, <1>3, <1>6, <1>7 DEF KeptInv, DirtyNoted, WritesAbsent, RunTrail, NotStarted,
     NothingRemoved, ShownBefore, WritesFree, RecordsTrue, Running
<1>9. UserOld'
  BY <1>1, <1>2, <1>4, <1>5 DEF UserOld, Unedited
<1>10. OperationsTrue'
  BY <1>1, <1>2 DEF OperationsTrue, OperationTrue
<1>11. QED
  BY <1>8, <1>9, <1>10

\* The operation a rollback is at.
LEMMA OperationAt ==
  ASSUME TxInv, rpc = "applying", next \in 1..Len(operations)
  PROVE  /\ ~Running
         /\ operations[next] \in Operation /\ operations[next].path \in Paths
         /\ OperationTrue(operations[next])
<1>1. operations \in Seq(Operation)
  BY DEF TxInv, KeptInv, TypeInv, TypeOK
<1>2. operations[next] \in Operation
  BY <1>1
<1>3. QED
  BY <1>2 DEF TxInv, Position, OperationsTrue, Operation

\* Going on to the next operation when this one is undone.
LEMMA PositionAfter ==
  ASSUME TxInv, rpc = "applying", next \in 1..Len(operations), UNCHANGED executionUntouched,
         UNCHANGED origin, rpc' = rpc, next' = next + 1,
         NEW p, p = operations[next].path,
         p \in edited \/ (tree'[p] = "absent" /\ origin[p] = "absent"),
         \A q \in Paths : q # p => tree'[q] = tree[q]
  PROVE  Position'
<1>1. UNCHANGED <<pc, operations, edited>> /\ ~Running /\ ~Running'
  BY OperationAt DEF executionUntouched, saved, history, Running
<1>2. operations \in Seq(Operation) /\ Len(operations) \in Nat
  BY DEF TxInv, KeptInv, TypeInv, TypeOK
<1>3. ASSUME NEW k \in 1..Len(operations), k < next + 1 PROVE Undone(operations[k])'
  <2>1. operations[k] \in Operation
    BY <1>2
  <2>2. operations[k].path \in Paths
    BY <2>1 DEF Operation
  <2>3. CASE k = next
    BY <1>1, <2>3 DEF Undone
  <2>4. CASE k # next
    <3>1. Undone(operations[k])
      BY <1>3, <2>4 DEF TxInv, Position
    <3>2. QED
      BY <1>1, <2>2, <3>1 DEF Undone
  <2>5. QED
    BY <2>3, <2>4
<1>4. QED
  BY <1>1, <1>2, <1>3 DEF Position

LEMMA StepRollback ==
  ASSUME TxInv, TxRollback
  PROVE  TxInv'
<1> USE DEF rollback, sessions
<1>1. /\ KeptInv /\ TypeInv /\ RunTrail /\ UserOld /\ OperationsTrue /\ Position /\ TxTyped
      /\ tree \in [Paths -> Content] /\ index \subseteq Committed
      /\ Len(operations) \in Nat
  BY DEF TxInv, KeptInv, TypeInv, TypeOK
<1>2. ASSUME UNCHANGED vars
      PROVE  KeptInv' /\ (UNCHANGED origin => RunTrail' /\ UserOld' /\ OperationsTrue')
  <2>1. UNCHANGED <<tree, index, pc, baselinePaths, at, target, itemChanges, backups, changes,
                    operations, before, edited, ran, dirty>>
    BY <1>2 DEF vars, baseline, handler, records, saved, history
  <2>2. KeptInv'
    <3>1. TypeInv'
      BY <1>1, <1>2, StepTypes
    <3>2. QED
      BY <1>1, <2>1, <3>1 DEF KeptInv, IndexKept, BaselineKept, DirtyNoted, WritesAbsent, Disturbed,
         DirtyBefore, Present
  <2>3. RunTrail'
    BY <1>1, <2>1 DEF RunTrail, NotStarted, NothingRemoved, ShownBefore, WritesFree, RecordsTrue,
       FilesMade, ChangesTrue, BackedUp, RecordTrue, Made, Unedited, Present, EntryOf, Running
  <2>4. UNCHANGED origin => UserOld' /\ OperationsTrue'
    BY <1>1, <2>1 DEF UserOld, OperationsTrue, OperationTrue, Unedited
  <2>5. QED
    BY <2>2, <2>3, <2>4
<1>3. CASE StartRollback
  <2>1. UNCHANGED <<vars, executions, origin>> /\ ~Running /\ operations # <<>>
        /\ rollbacks < MaxRollbacks /\ rollbacks' = rollbacks + 1
        /\ rpc' = "applying" /\ next' = 1 /\ failed' = FALSE
    BY <1>3 DEF StartRollback
  <2>2. UNCHANGED <<operations, pc>>
    BY <2>1 DEF vars, saved
  <2>3. Position'
    BY <1>1, <2>1, <2>2 DEF Position, Running
  <2>4. TxTyped'
    <3>1. rollbacks' \in 0..MaxRollbacks
      BY <1>1, <2>1, RollbackAssumption DEF TxTyped
    <3>2. QED
      BY <1>1, <2>1, <3>1 DEF TxTyped
  <2>5. QED
    BY <1>2, <2>1, <2>3, <2>4 DEF TxInv
<1>4. ASSUME rpc = "applying", UNCHANGED <<vars, next, failed, rollbacks, executions, origin>>,
             \/ rpc' \in {"killed", "aborted"}
             \/ rpc' = "complete" /\ next = Len(operations) + 1
      PROVE  TxInv'
  <2>1. UNCHANGED <<tree, edited, operations, pc>>
    BY <1>4 DEF vars, saved, history
  <2>2. Position'
    BY <1>1, <1>4, <2>1 DEF Position, Running, Undone
  <2>3. TxTyped'
    BY <1>1, <1>4 DEF TxTyped
  <2>4. QED
    BY <1>2, <1>4, <2>2, <2>3 DEF TxInv
<1>5. CASE FinishRollback \/ CrashRollback
  BY <1>4, <1>5 DEF FinishRollback, CrashRollback
<1> DEFINE GoneOn == /\ UNCHANGED <<rpc, rollbacks, executions, origin>>
                     /\ next' = next + 1 /\ failed' \in BOOLEAN
<1>6. ASSUME rpc = "applying", next \in 1..Len(operations), UNCHANGED executionUntouched,
             GoneOn, NEW p \in Paths, p = operations[next].path,
             NEW c \in Content, tree' = [tree EXCEPT ![p] = c],
             index' = index \/ index' = index \cup {p}, index' \subseteq Committed,
             \/ p \in edited
             \/ /\ c = "absent" /\ index' = index /\ origin[p] = "absent"
                /\ p \in Staged => p \in ran
      PROVE  TxInv'
  <2>1. UNCHANGED <<rpc, rollbacks, executions, origin>> /\ next' = next + 1 /\ failed' \in BOOLEAN
    BY <1>6
  <2>2. ~Running
    BY <1>6, OperationAt
  <2>3. KeptInv' /\ RunTrail' /\ UserOld' /\ OperationsTrue'
    BY <1>6, <2>1, <2>2, TrailByUndoing
  <2>4. Position'
    <3>1. p \in edited \/ (tree'[p] = "absent" /\ origin[p] = "absent")
      BY <1>1, <1>6
    <3>2. \A q \in Paths : q # p => tree'[q] = tree[q]
      BY <1>1, <1>6
    <3>3. QED
      BY <1>6, <2>1, <3>1, <3>2, PositionAfter
  <2>5. TxTyped'
    BY <1>1, <2>1 DEF TxTyped
  <2>6. QED
    BY <2>3, <2>4, <2>5 DEF TxInv
<1>7. CASE RemoveFile
  <2>1. /\ rpc = "applying" /\ next \in 1..Len(operations)
        /\ operations[next].op = "remove_file"
        /\ tree' = [tree EXCEPT ![operations[next].path] = "absent"]
        /\ GoneOn /\ UNCHANGED index /\ UNCHANGED executionUntouched
    BY <1>1, <1>7 DEF RemoveFile, Applying, Applied, TxTyped
  <2>2. operations[next].path \in Paths /\ OperationTrue(operations[next])
    BY <2>1, OperationAt
  <2>3. QED
    BY <1>1, <1>6, <2>1, <2>2 DEF OperationTrue, Content
<1>8. CASE RestoreContent
  <2>1. /\ rpc = "applying" /\ next \in 1..Len(operations)
        /\ operations[next].op = "restore_content"
        /\ UNCHANGED index /\ UNCHANGED executionUntouched
    BY <1>8 DEF RestoreContent, Applying
  <2>2. operations[next].path \in Paths /\ operations[next].backup \in Content
        /\ OperationTrue(operations[next])
    BY <2>1, OperationAt DEF Operation
  <2>3. CASE operations[next].backup = "absent"
    <3>1. rpc' = "aborted" /\ UNCHANGED <<tree, next, failed, rollbacks, executions, origin>>
      BY <1>8, <2>3 DEF RestoreContent
    <3>2. UNCHANGED vars
      BY <2>1, <3>1 DEF vars, executionUntouched
    <3>3. QED
      BY <1>4, <2>1, <3>1, <3>2
  <2>4. CASE operations[next].backup # "absent"
    <3>1. operations[next].path \in edited
      BY <2>1, <2>2, <2>4 DEF OperationTrue
    <3>2. GoneOn
      BY <1>1, <1>8, <2>4 DEF RestoreContent, Applied, TxTyped
    <3>3. PICK c \in Content : tree' = [tree EXCEPT ![operations[next].path] = c]
      <4>1. \/ tree' = [tree EXCEPT ![operations[next].path] = operations[next].backup]
            \/ tree' = [tree EXCEPT ![operations[next].path] = "head"]
            \/ tree' = tree
        BY <1>8, <2>4 DEF RestoreContent
      <4>2. tree = [tree EXCEPT ![operations[next].path] = tree[operations[next].path]]
        BY <1>1, <2>2
      <4>3. tree[operations[next].path] \in Content /\ "head" \in Content
        BY <1>1, <2>2 DEF Content
      <4>4. QED
        BY <2>2, <4>1, <4>2, <4>3
    <3>4. QED
      BY <1>1, <1>6, <2>1, <2>2, <3>1, <3>2, <3>3
  <2>5. QED
    BY <2>3, <2>4
<1>9. CASE RestoreDeleted
  <2> DEFINE p == operations[next].path
  <2>1. /\ rpc = "applying" /\ next \in 1..Len(operations)
        /\ operations[next].op = "restore_deleted" /\ UNCHANGED executionUntouched
        /\ tree' = IF p \in Committed THEN [tree EXCEPT ![p] = "head"] ELSE tree
        /\ index' = IF p \in Committed THEN index \cup {p} ELSE index
        /\ GoneOn
    BY <1>1, <1>9 DEF RestoreDeleted, Applying, Applied, TxTyped
  <2>2. p \in Paths /\ p \in edited
    BY <2>1, OperationAt DEF OperationTrue
  <2>3. (index' = index \/ index' = index \cup {p}) /\ index' \subseteq Committed
    BY <1>1, <2>1
  <2>4. \E c \in Content : tree' = [tree EXCEPT ![p] = c]
    <3>1. tree = [tree EXCEPT ![p] = tree[p]] /\ tree[p] \in Content
      BY <1>1, <2>2
    <3>2. QED
      BY <2>1, <3>1 DEF Content
  <2>5. PICK c \in Content : tree' = [tree EXCEPT ![p] = c]
    BY <2>4
  <2>6. QED
    BY <1>6, <2>1, <2>2, <2>3, <2>5
<1>10. QED
  BY <1>3, <1>5, <1>7, <1>8, <1>9 DEF TxRollback

LEMMA StepTx ==
  ASSUME CoverageFiles = {}, TxInv, [TxNext]_txVars
  PROVE  TxInv'
<1>1. CASE Execute
  BY <1>1, StepExecute
<1>2. CASE Reexecute
  BY <1>2, StepReexecute
<1>3. CASE TxRollback
  BY <1>3, StepRollback
<1>4. CASE UNCHANGED txVars
  <2>1. UNCHANGED <<vars, rpc, next, failed, rollbacks, executions, origin>>
    BY <1>4 DEF txVars, rollback, sessions
  <2>2. UNCHANGED <<tree, index, pc, baselinePaths, at, target, itemChanges, backups, changes,
                    operations, before, edited, ran, dirty>>
    BY <2>1 DEF vars, baseline, handler, records, saved, history
  <2>3. KeptInv'
    <3>1. KeptInv /\ [Next]_vars
      BY <2>1 DEF TxInv
    <3>2. QED
      BY <3>1, StepKept
  <2>4. RunTrail'
    BY <2>2 DEF TxInv, RunTrail, NotStarted, NothingRemoved, ShownBefore, WritesFree, RecordsTrue,
       FilesMade, ChangesTrue, BackedUp, RecordTrue, Made, Unedited, Present, EntryOf, Running
  <2>5. UserOld' /\ OperationsTrue' /\ Position' /\ TxTyped'
    BY <2>1, <2>2 DEF TxInv, UserOld, OperationsTrue, OperationTrue, Unedited, Position, Undone,
       Running, TxTyped
  <2>6. QED
    BY <2>3, <2>4, <2>5 DEF TxInv
<1>5. QED
  BY <1>1, <1>2, <1>3, <1>4 DEF TxNext

-----------------------------------------------------------------------------
(* What follows. *)

\* Type correctness of executions and rollbacks over one working tree.
THEOREM RollbackTypeCorrect ==
  ASSUME CoverageFiles = {} PROVE TxSpec => []TxTypeOK
<1>1. TxInv /\ [TxNext]_txVars => TxInv'
  BY StepTx
<1>2. TxInv => TxTypeOK
  BY DEF TxInv, KeptInv, TypeInv, TxTyped, Position, TxTypeOK
<1>3. QED
  BY InitTx, <1>1, <1>2, PTL DEF TxSpec

\* A rollback that comes to its end without an error has put back every file its
\* operations name, but for those the user has edited -- whatever executions and
\* rollbacks went before it, and wherever they were killed.
THEOREM RolledBackIsRestored ==
  ASSUME CoverageFiles = {} PROVE TxSpec => []RollbackRestores
<1>1. TxInv /\ [TxNext]_txVars => TxInv'
  BY StepTx
<1>2. TxInv => RollbackRestores
  <2>1. ASSUME TxInv, rpc = "complete", NEW k \in 1..Len(operations),
               operations[k].path \notin edited
        PROVE  tree[operations[k].path] = origin[operations[k].path]
    <3>1. Len(operations) \in Nat
      BY <2>1 DEF TxInv, KeptInv, TypeInv, TypeOK
    <3>2. Undone(operations[k])
      BY <2>1, <3>1 DEF TxInv, Position
    <3>3. QED
      BY <2>1, <3>2 DEF Undone
  <2>2. QED
    BY <2>1 DEF RollbackRestores, OperatedOn
<1>3. QED
  BY InitTx, <1>1, <1>2, PTL DEF TxSpec

\* No sequence of executions and rollbacks touches what the user had changed
\* before the last execution began.
THEOREM UserChangesKeptThroughRollback ==
  ASSUME CoverageFiles = {} PROVE TxSpec => []BaselineKept
<1>1. TxInv /\ [TxNext]_txVars => TxInv'
  BY StepTx
<1>2. TxInv => BaselineKept
  BY DEF TxInv, KeptInv
<1>3. QED
  BY InitTx, <1>1, <1>2, PTL DEF TxSpec
=============================================================================
