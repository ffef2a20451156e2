----------------------------- MODULE Lifecycle ------------------------------
(***************************************************************************)
(* The command line (src/runtime/cli.py) over one state directory kept by  *)
(* StateManager (src/runtime/state.py): single phases and full lifecycles  *)
(* invoked one after the other, each a sequence of atomic saves that may   *)
(* stop after any of them; the report (src/runtime/reporting.py), the run  *)
(* manifest with its checksum, and the import of legacy artifacts.         *)
(*                                                                         *)
(* The phases' own work is that of the other modules.  Here an artifact is *)
(* which invocation saved it, in which phase, the invocations whose        *)
(* results went into it, and the one fact later phases ask of it.          *)
(***************************************************************************)
EXTENDS Naturals, Sequences

CONSTANTS MaxInvocations,  \* bound on invocations of the program
          LegacyFiles      \* root-level artifacts that migrate finds

Phases == {"discovery", "planning", "execution", "verification", "reporting"}
Artifacts == {"RUP_DISCOVERY", "RUP_PLAN", "plan-state", "RUP_EXECUTION", "execution-state",
              "RUP_VERIFICATION", "RUP_FINAL_REPORT", "session-state"}
Commands == {"discovery", "plan", "execute", "verify", "report", "run", "migrate"}
Invocations == 0..MaxInvocations

\* migrate_legacy_state, legacy_names: the sidecars are not among them.
LegacyNames == <<"RUP_DISCOVERY", "RUP_PLAN", "RUP_EXECUTION", "RUP_VERIFICATION",
                 "RUP_FINAL_REPORT", "session-state", "run-manifest">>

ASSUME LifecycleAssumption ==
  /\ MaxInvocations \in Nat
  /\ LegacyFiles \subseteq {LegacyNames[i] : i \in 1..Len(LegacyNames)}

Lineage == [Phases -> Invocations]
Artifact == [by : Invocations,    \* who saved it, 0 when it is not there
             phase : Phases \cup {"none", "migrate"},
             line : Lineage,      \* whose results went into it
             good : BOOLEAN]      \* no escalation / all items complete / passed / ready
Unknown == [p \in Phases |-> 0]
Absent == [by |-> 0, phase |-> "none", line |-> Unknown, good |-> FALSE]

\* Where a command starts, and the next step of a full lifecycle.
First == [discovery |-> "discover", plan |-> "plan", execute |-> "guard", verify |-> "test",
          report |-> "report", run |-> "discover", migrate |-> "migrate"]

VARIABLES
  disk,         \* the artifacts in the state directory
  manifest,     \* run-manifest.json: who saved it and the ledger inside
  checksum,     \* the manifest that run-manifest.json.sha256 is the hash of
  n,            \* invocations so far; the present one is number n
  cmd,          \* the present or last command
  override,     \* --override-escalation
  pc,           \* the next step, or "idle"
  exit,         \* how the last command ended: "ok" or "error"
  ledger,       \* _artifact_ledger of this process
  todo,         \* legacy names migrate has not looked at yet
  interrupted   \* has an invocation ever been stopped, or a migration made

memory == <<ledger, todo>>
vars == <<disk, manifest, checksum, n, cmd, override, pc, exit, memory, interrupted>>

Running == pc # "idle"

End(code) == pc' = "idle" /\ exit' = code
GoTo(step) == pc' = step /\ exit' = exit

\* A phase command ends with its phase, a full lifecycle goes on.
Continue(step, code) == IF cmd = "run" THEN GoTo(step) ELSE End(code)

\* save_json: replaced atomically and recorded in the ledger of this process.
Save(name, phase, line, good) ==
  LET a == [by |-> n, phase |-> phase, line |-> line, good |-> good] IN
  /\ disk' = [disk EXCEPT ![name] = a]
  /\ ledger' = [ledger EXCEPT ![name] = a]

Invocation == <<n, cmd, override, todo, interrupted>>
Published == <<manifest, checksum>>

\* update_session_state
UpdateSession(phase) == Save("session-state", phase, Unknown, TRUE)

Exists(name) == disk[name].by # 0

FromNext(name, phase) == [disk[name].line EXCEPT ![phase] = n + 1]

\* The lineage of a result computed by this invocation from an artifact.
From(name, phase) == [disk[name].line EXCEPT ![phase] = n]

-----------------------------------------------------------------------------
(* Invocations. *)

Invoke ==
  /\ ~Running /\ n < MaxInvocations
  /\ \E c \in Commands, o \in BOOLEAN :
       /\ o => c \in {"run", "execute"}
       /\ cmd' = c /\ override' = o /\ pc' = First[c]
       /\ todo' = IF c = "migrate" THEN LegacyNames ELSE <<>>
  /\ n' = n + 1
  /\ exit' = "error"
  /\ ledger' = [a \in Artifacts |-> Absent]
  /\ UNCHANGED <<disk, Published, interrupted>>

\* The process is killed, or a save raises; what is saved stays.
Interrupt ==
  /\ Running
  /\ End("error")
  /\ interrupted' = TRUE
  /\ UNCHANGED <<disk, Published, n, cmd, override, memory>>

-----------------------------------------------------------------------------
(* Discovery and planning. *)

Discover ==
  /\ pc = "discover"
  /\ Save("RUP_DISCOVERY", "discovery", [Unknown EXCEPT !["discovery"] = n], TRUE)
  /\ GoTo("session discovery")
  /\ UNCHANGED <<Published, Invocation>>

EndDiscovery ==
  /\ pc = "session discovery"
  /\ UpdateSession("discovery")
  /\ Continue("threats", "ok")
  /\ UNCHANGED <<Published, Invocation>>

\* run_full_lifecycle: adversarial content ends the lifecycle.
CheckThreats ==
  /\ pc = "threats"
  /\ GoTo("plan") \/ End("error")
  /\ UNCHANGED <<disk, ledger, Published, Invocation>>

PlanWork ==
  /\ pc = "plan"
  /\ \/ /\ ~Exists("RUP_DISCOVERY")
        /\ End("error")
        /\ UNCHANGED <<disk, ledger>>
     \/ /\ Exists("RUP_DISCOVERY")
        /\ \E good \in BOOLEAN :
             Save("RUP_PLAN", "planning", From("RUP_DISCOVERY", "planning"), good)
        /\ GoTo("plan-state")
  /\ UNCHANGED <<Published, Invocation>>

\* The sidecar with the constraints and the escalations of the same plan.
SavePlanState ==
  /\ pc = "plan-state"
  /\ Save("plan-state", "planning", disk["RUP_PLAN"].line, disk["RUP_PLAN"].good)
  /\ GoTo("session planning")
  /\ UNCHANGED <<Published, Invocation>>

\* In a full lifecycle the escalation flag is looked at before execution.
EndPlanning ==
  /\ pc = "session planning"
  /\ UpdateSession("planning")
  /\ Continue("escalations", "ok")
  /\ UNCHANGED <<Published, Invocation>>

Escalated == Exists("plan-state") /\ ~disk["plan-state"].good

CheckEscalations ==
  /\ pc = "escalations"
  /\ IF Escalated /\ ~override THEN End("error") ELSE GoTo("guard")
  /\ UNCHANGED <<disk, ledger, Published, Invocation>>

-----------------------------------------------------------------------------
(* Execution and verification. *)

EscalatedThisRun == Escalated /\ disk["plan-state"].by = n

MayExecuteByRun == Exists("RUP_PLAN") /\ ~(EscalatedThisRun /\ ~override)

\* The escalation guard of the execution phase itself (RUP-XFER-002).
MayExecute == Exists("RUP_PLAN") /\ ~(Escalated /\ ~override)

Guard ==
  /\ pc = "guard"
  /\ IF MayExecute THEN GoTo("execute") ELSE End("error")
  /\ UNCHANGED <<disk, ledger, Published, Invocation>>

Execute ==
  /\ pc = "execute"
  /\ Save("RUP_EXECUTION", "execution", From("RUP_PLAN", "execution"), TRUE)
  /\ GoTo("execution-state")
  /\ UNCHANGED <<Published, Invocation>>

SaveExecutionState ==
  /\ pc = "execution-state"
  /\ \E complete \in BOOLEAN :
       Save("execution-state", "execution", disk["RUP_EXECUTION"].line, complete)
  /\ GoTo("session execution")
  /\ UNCHANGED <<Published, Invocation>>

EndExecution ==
  /\ pc = "session execution"
  /\ UpdateSession("execution")
  /\ Continue("test", "ok")
  /\ UNCHANGED <<Published, Invocation>>

AddTestNumbersOnly ==
  Save("execution-state", "verification", Unknown, FALSE)

\* The test numbers are added to execution-state.json, which is created if absent.
AddTestNumbers ==
  Save("execution-state", "verification", disk["execution-state"].line,
       disk["execution-state"].good)

Test ==
  /\ pc = "test"
  /\ IF Exists("RUP_EXECUTION")
     THEN /\ AddTestNumbers \/ UNCHANGED <<disk, ledger>>
          /\ GoTo("verify")
     ELSE End("error") /\ UNCHANGED <<disk, ledger>>
  /\ UNCHANGED <<Published, Invocation>>

Verify ==
  /\ pc = "verify"
  /\ \E passed \in BOOLEAN :
       Save("RUP_VERIFICATION", "verification", From("RUP_EXECUTION", "verification"), passed)
  /\ GoTo("session verification")
  /\ UNCHANGED <<Published, Invocation>>

\* A verification that did not pass may still be acceptable with warnings.
EndVerification ==
  /\ pc = "session verification"
  /\ UpdateSession("verification")
  /\ \E code \in {"ok", "error"} :
       /\ disk["RUP_VERIFICATION"].good => code = "ok"
       /\ Continue("report", code)
  /\ UNCHANGED <<Published, Invocation>>

-----------------------------------------------------------------------------
(* Reporting. *)

\* The completions are looked up for the items of the plan on disk; those of
\* another plan may or may not cover them.
Complete(answer) ==
  IF disk["execution-state"].line["planning"] = disk["RUP_PLAN"].line["planning"]
     /\ disk["RUP_PLAN"].line["planning"] # 0
  THEN disk["execution-state"].good ELSE answer

ReadyIfPassed(answer) == disk["RUP_VERIFICATION"].good

\* is_ready
Ready(answer) == disk["RUP_VERIFICATION"].good /\ Complete(answer) /\ ~Escalated

Report ==
  /\ pc = "report"
  /\ IF \A a \in {"RUP_DISCOVERY", "RUP_PLAN", "RUP_EXECUTION", "RUP_VERIFICATION"} : Exists(a)
     THEN /\ \E answer \in BOOLEAN :
               Save("RUP_FINAL_REPORT", "reporting", From("RUP_VERIFICATION", "reporting"),
                    Ready(answer))
          /\ GoTo("session completed")
     ELSE End("error") /\ UNCHANGED <<disk, ledger>>
  /\ UNCHANGED <<Published, Invocation>>

EndReport ==
  /\ pc = "session completed"
  /\ UpdateSession("reporting")
  /\ GoTo("manifest")
  /\ UNCHANGED <<Published, Invocation>>

KnownLedger == ledger

\* _rebuild_artifact_ledger: what this process has not saved is read from disk.
RebuiltLedger ==
  [a \in Artifacts |-> IF ledger[a] # Absent THEN ledger[a] ELSE disk[a]]

SaveManifest ==
  /\ pc = "manifest"
  /\ ledger' = RebuiltLedger
  /\ manifest' = [by |-> n, ledger |-> RebuiltLedger]
  /\ GoTo("checksum")
  /\ UNCHANGED <<disk, checksum, Invocation>>

\* The full lifecycle succeeds when verification was acceptable and the report
\* is ready; a ready report implies the former.
SaveChecksum ==
  /\ pc = "checksum"
  /\ checksum' = manifest.by
  /\ End(IF cmd = "run" /\ ~disk["RUP_FINAL_REPORT"].good THEN "error" ELSE "ok")
  /\ UNCHANGED <<disk, ledger, manifest, Invocation>>

-----------------------------------------------------------------------------
(* Import of legacy artifacts. *)

\* Whatever is there already is replaced; an invalid file is skipped.
MigrateOne ==
  /\ pc = "migrate" /\ todo # <<>>
  /\ todo' = Tail(todo)
  /\ LET name == Head(todo) IN
     \/ UNCHANGED <<disk, ledger, manifest, interrupted>>
     \/ /\ name \in LegacyFiles \ {"run-manifest"}
        /\ \E good \in BOOLEAN : Save(name, "migrate", Unknown, good)
        /\ interrupted' = TRUE
        /\ UNCHANGED manifest
     \/ /\ name \in LegacyFiles \cap {"run-manifest"}
        /\ manifest' = [by |-> n, ledger |-> [a \in Artifacts |-> Absent]]
        /\ interrupted' = TRUE
        /\ UNCHANGED <<disk, ledger>>
  /\ UNCHANGED <<checksum, n, cmd, override, pc, exit>>

EndMigration ==
  /\ pc = "migrate" /\ todo = <<>>
  /\ End("ok")
  /\ UNCHANGED <<disk, ledger, Published, Invocation>>

-----------------------------------------------------------------------------
Init ==
  /\ disk = [a \in Artifacts |-> Absent]
  /\ manifest = [by |-> 0, ledger |-> [a \in Artifacts |-> Absent]]
  /\ checksum = 0 /\ n = 0
  /\ cmd = "discovery" /\ override = FALSE /\ pc = "idle" /\ exit = "error"
  /\ ledger = [a \in Artifacts |-> Absent]
  /\ todo = <<>> /\ interrupted = FALSE

Next ==
  \/ Invoke \/ Interrupt
  \/ Discover \/ EndDiscovery \/ CheckThreats
  \/ PlanWork \/ SavePlanState \/ EndPlanning \/ CheckEscalations
  \/ Guard \/ Execute \/ SaveExecutionState \/ EndExecution
  \/ Test \/ Verify \/ EndVerification
  \/ Report \/ EndReport \/ SaveManifest \/ SaveChecksum
  \/ MigrateOne \/ EndMigration

Spec == Init /\ [][Next]_vars

-----------------------------------------------------------------------------
(* Properties. *)

\* Type invariant of the state directory and the running program.
TypeOK ==
  /\ disk \in [Artifacts -> Artifact] /\ ledger \in [Artifacts -> Artifact]
  /\ manifest \in [by : Invocations, ledger : [Artifacts -> Artifact]]
  /\ checksum \in Invocations /\ n \in Invocations
  /\ cmd \in Commands /\ override \in BOOLEAN /\ exit \in {"ok", "error"}
  /\ pc \in {"idle", "discover", "session discovery", "threats", "plan", "plan-state",
             "session planning", "escalations", "guard", "execute", "execution-state",
             "session execution", "test", "verify", "session verification", "report",
             "session completed", "manifest", "checksum", "migrate"}
  /\ todo \in Seq({LegacyNames[i] : i \in 1..Len(LegacyNames)})
  /\ interrupted \in BOOLEAN

\* A full lifecycle that ends with exit code 0 leaves a state directory that is
\* its own from end to end, whatever earlier invocations left there: the report
\* rests on this run's verification of this run's execution of this run's plan,
\* which passed, completed every item and escalated none (run_full_lifecycle).
ExitZeroIsThisRun ==
  ~Running /\ cmd = "run" /\ exit = "ok" =>
    /\ disk["RUP_FINAL_REPORT"].line = [p \in Phases |-> n]
    /\ disk["plan-state"].line = disk["RUP_PLAN"].line
    /\ disk["execution-state"].line = disk["RUP_EXECUTION"].line
    /\ \A a \in Artifacts \ {"session-state"} : disk[a].by = n /\ disk[a].good

\* When the manifest and its checksum have been written, the manifest lists what
\* is on disk, artifacts saved twice in the run and artifacts of earlier
\* invocations included, until another command changes something
\* (generate_and_save_manifest).
ManifestDescribesDisk ==
  ~Running /\ manifest.by = n /\ checksum = n => manifest.ledger = disk

\* Unless an invocation was stopped between two saves or legacy files were
\* imported, each artifact and its sidecar are of the same invocation, although
\* verification rewrites one of them (planning.py:382, verification.py:454).
SidecarsAgree ==
  ~Running /\ ~interrupted =>
    /\ disk["plan-state"].line = disk["RUP_PLAN"].line
    /\ disk["execution-state"].line = disk["RUP_EXECUTION"].line

\* Execution begins on an escalated plan only with the override, in a full
\* lifecycle and by a command of its own, with the plan of the same or of an
\* earlier invocation (RUP-XFER-002).
NoUnapprovedExecution ==
  pc = "execute" /\ ~override /\ ~interrupted => disk["RUP_PLAN"].good
=============================================================================
