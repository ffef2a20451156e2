------------------------------ MODULE Rollback ------------------------------
(***************************************************************************)
(* The rollback phase (src/runtime/rollback.py, run_rollback of cli.py)    *)
(* composed with the execution phase that recorded its operations: they    *)
(* share the working tree, Git's index and execution-state.json.  The      *)
(* rollback applies the recorded operations in order, when no execution is *)
(* under way.  Both may be repeated in any order, also after an execution  *)
(* that was killed: it leaves its files behind, and the operations that    *)
(* are on disk are those of an earlier one.                                *)
(***************************************************************************)
EXTENDS Execution

CONSTANTS MaxRollbacks,    \* bound on rollback invocations
          MaxExecutions    \* bound on execute invocations

ASSUME RollbackAssumption == MaxRollbacks \in Nat /\ MaxExecutions \in Nat \ {0}

VARIABLES
  rpc,       \* "idle", "applying", "complete", "aborted" or "killed"
  next,      \* the operation to apply next
  failed,    \* did an operation of this rollback fail
  rollbacks, \* how often rollback has been started
  executions,\* how often execute has been started
  origin     \* history: the tree before the execution that recorded the operations

rollback == <<rpc, next, failed, rollbacks>>
sessions == <<executions, origin>>
txVars == <<vars, rollback, sessions>>

executionUntouched == <<pc, override, gatesAllowed, baseline, handler, backups, records,
                        saved, history>>

\* Faults a property must notice are kept beside the definition they alter, under
\* its name and what they get wrong.

StartAtSecond ==
  /\ ~Running /\ rpc # "applying"
  /\ operations # <<>>
  /\ rollbacks < MaxRollbacks
  /\ rollbacks' = rollbacks + 1
  /\ rpc' = "applying" /\ next' = 2 /\ failed' = FALSE
  /\ UNCHANGED <<vars, sessions>>

\* run_rollback: nothing recorded means nothing to do.
StartRollback ==
  /\ ~Running /\ rpc # "applying"
  /\ operations # <<>>
  /\ rollbacks < MaxRollbacks
  /\ rollbacks' = rollbacks + 1
  /\ rpc' = "applying" /\ next' = 1 /\ failed' = FALSE
  /\ UNCHANGED <<vars, sessions>>

Applying(kind) ==
  /\ rpc = "applying" /\ next \in 1..Len(operations)
  /\ operations[next].op = kind

AppliedTwice(ok) ==
  /\ next' = next + 2
  /\ failed' = (failed \/ ~ok)
  /\ UNCHANGED <<rpc, rollbacks, sessions>>

Applied(ok) ==
  /\ next' = next + 1
  /\ failed' = (failed \/ ~ok)
  /\ UNCHANGED <<rpc, rollbacks, sessions>>

\* jailed_unlink: a file that is gone already is no error.
RemoveFile ==
  /\ Applying("remove_file")
  /\ tree' = [tree EXCEPT ![operations[next].path] = "absent"]
  /\ Applied(TRUE)
  /\ UNCHANGED <<index, executionUntouched>>

\* _restore_from_backup.  Without a recorded backup the path of the backup file
\* is built from None, before the test for it: TypeError ends the rollback.
\* When the file itself is gone from the backup store, git checkout is tried.
RestoreContent ==
  /\ Applying("restore_content")
  /\ LET o == operations[next] IN
     \/ /\ o.backup = "absent"
        /\ rpc' = "aborted"
        /\ UNCHANGED <<tree, next, failed, rollbacks, sessions>>
     \/ /\ o.backup # "absent"
        /\ tree' = [tree EXCEPT ![o.path] = o.backup]
        /\ Applied(TRUE)
     \/ /\ o.backup # "absent"
        /\ tree' = IF o.path \in index THEN [tree EXCEPT ![o.path] = "head"] ELSE tree
        /\ Applied(o.path \in index)
  /\ UNCHANGED <<index, executionUntouched>>

\* git checkout HEAD -- path
RestoreDeleted ==
  /\ Applying("restore_deleted")
  /\ LET p == operations[next].path IN
     /\ tree' = IF p \in Committed THEN [tree EXCEPT ![p] = "head"] ELSE tree
     /\ index' = IF p \in Committed THEN index \cup {p} ELSE index
     /\ Applied(p \in Committed)
  /\ UNCHANGED executionUntouched

FinishRollback ==
  /\ rpc = "applying" /\ next = Len(operations) + 1
  /\ rpc' = "complete"
  /\ UNCHANGED <<vars, next, failed, rollbacks, sessions>>

-----------------------------------------------------------------------------
(* Further executions. *)

\* A new process: its own baseline, backups and records; the files of the state
\* directory stay until it saves its own.
Reexecute ==
  /\ ~Running /\ rpc # "applying"
  /\ executions < MaxExecutions
  /\ executions' = executions + 1
  /\ pc' = "load"
  /\ override' \in BOOLEAN /\ gatesAllowed' \in BOOLEAN
  /\ baselinePaths' = {} /\ dirty' = {}
  /\ at' = 1 /\ target' = 0 /\ itemChanges' = <<>>
  /\ backups' = {}
  /\ changes' = <<>> /\ recs' = {} /\ completion' = [i \in Items |-> "none"]
  /\ before' = tree /\ written' = {}
  /\ rpc' = "idle" /\ next' = 0 /\ failed' = FALSE
  /\ UNCHANGED <<tree, index, saved, edited, ran, rollbacks, origin>>

Execute ==
  /\ Next
  /\ origin' = IF pc = "save_state" /\ pc' = "done" THEN before ELSE origin
  /\ UNCHANGED <<rollback, executions>>

TxInit ==
  /\ Init
  /\ rpc = "idle" /\ next = 0 /\ failed = FALSE /\ rollbacks = 0
  /\ executions = 1 /\ origin = before

\* The rollback is killed between two operations.
CrashRollback ==
  /\ rpc = "applying"
  /\ rpc' = "killed"
  /\ UNCHANGED <<vars, next, failed, rollbacks, sessions>>

TxRollback ==
  StartRollback \/ RemoveFile \/ RestoreContent \/ RestoreDeleted \/ FinishRollback
  \/ CrashRollback

TxNext == Execute \/ Reexecute \/ TxRollback

TxSpec == TxInit /\ [][TxNext]_txVars

-----------------------------------------------------------------------------
(* Properties. *)

\* Type invariant of the composition.
TxTypeOK ==
  /\ TypeOK
  /\ executions \in 1..MaxExecutions /\ origin \in [Paths -> Content]
  /\ rpc \in {"idle", "applying", "complete", "aborted", "killed"}
  /\ next \in 0..(Len(operations) + 1) /\ failed \in BOOLEAN
  /\ rollbacks \in 0..MaxRollbacks

\* Rolling back to the end without an error puts every file an operation names
\* back to what it was before the execution that recorded the operations, unless
\* the user has edited it -- also when a later execution was killed in between
\* and has written files of its own.
RollbackRestores ==
  rpc = "complete" /\ ~failed =>
    \A p \in OperatedOn \ edited : tree[p] = origin[p]

\* rollback.py:119 "git checkout is used only when no backup exists": a rollback
\* comes to its end when an operation has no backup.
RollbackNotAborted == rpc # "aborted"
=============================================================================
