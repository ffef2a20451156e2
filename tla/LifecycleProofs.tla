-------------------------- MODULE LifecycleProofs ---------------------------
(***************************************************************************)
(* What Lifecycle promises, for any number of invocations and any legacy   *)
(* files: that artifacts and their sidecars belong together, that the      *)
(* manifest is of what is on disk, and that a full lifecycle that reports  *)
(* success speaks of itself from end to end.                               *)
(***************************************************************************)
EXTENDS Lifecycle, TLAPS

-----------------------------------------------------------------------------
(* Saving. *)

Saved(phase, line, good) == [by |-> n, phase |-> phase, line |-> line, good |-> good]

LEMMA SaveTypes ==
  ASSUME TypeOK, NEW name \in Artifacts, NEW phase \in Phases \cup {"none", "migrate"},
         NEW line \in Lineage, NEW good \in BOOLEAN, Save(name, phase, line, good)
  PROVE  disk' \in [Artifacts -> Artifact] /\ ledger' \in [Artifacts -> Artifact]
<1>1. Saved(phase, line, good) \in Artifact
  BY DEF TypeOK, Saved, Artifact
<1>2. QED
  BY <1>1 DEF Save, Saved, TypeOK

LEMMA SaveFrame ==
  ASSUME TypeOK, NEW name \in Artifacts, NEW phase, NEW line, NEW good,
         Save(name, phase, line, good)
  PROVE  /\ disk'[name] = Saved(phase, line, good) /\ ledger'[name] = disk'[name]
         /\ \A b \in Artifacts \ {name} : disk'[b] = disk[b] /\ ledger'[b] = ledger[b]
BY DEF Save, Saved, TypeOK

LEMMA LineageTypes ==
  ASSUME TypeOK, NEW name \in Artifacts, NEW phase \in Phases
  PROVE  /\ From(name, phase) \in Lineage /\ Unknown \in Lineage
         /\ [Unknown EXCEPT !["discovery"] = n] \in Lineage
         /\ disk[name].line \in Lineage /\ disk[name].good \in BOOLEAN
         /\ disk[name].by \in Invocations
<1>1. disk[name] \in Artifact /\ n \in Invocations /\ 0 \in Invocations
  <2>1. 0 \in Invocations
    BY LifecycleAssumption DEF Invocations
  <2>2. QED
    BY <2>1 DEF TypeOK
<1>2. disk[name].line \in Lineage /\ disk[name].good \in BOOLEAN /\ disk[name].by \in Invocations
  BY <1>1 DEF Artifact
<1>3. Unknown \in Lineage
  BY <1>1 DEF Unknown, Lineage
<1>4. \A line \in Lineage, p \in Phases : [line EXCEPT ![p] = n] \in Lineage
  BY <1>1 DEF Lineage
<1>5. From(name, phase) \in Lineage /\ [Unknown EXCEPT !["discovery"] = n] \in Lineage
  BY <1>2, <1>3, <1>4 DEF From, Phases
<1>6. QED
  BY <1>2, <1>3, <1>5

LEMMA InitTypes == Init => TypeOK
<1> SUFFICES ASSUME Init PROVE TypeOK
  OBVIOUS
<1>1. 0 \in Invocations
  BY LifecycleAssumption DEF Invocations
<1>2. Absent \in Artifact
  BY <1>1 DEF Absent, Artifact, Unknown, Lineage
<1>3. [a \in Artifacts |-> Absent] \in [Artifacts -> Artifact]
  BY <1>2
<1>4. manifest \in [by : Invocations, ledger : [Artifacts -> Artifact]]
  BY <1>1, <1>3 DEF Init
<1>5. <<>> \in Seq({LegacyNames[i] : i \in 1..Len(LegacyNames)})
  OBVIOUS
<1>6. QED
  BY <1>1, <1>3, <1>4, <1>5 DEF Init, TypeOK, Commands

LEMMA StepTypes == ASSUME TypeOK, [Next]_vars PROVE TypeOK'
<1> DEFINE Typed == disk' \in [Artifacts -> Artifact] /\ ledger' \in [Artifacts -> Artifact]
<1>1. Absent \in Artifact /\ [a \in Artifacts |-> Absent] \in [Artifacts -> Artifact]
  <2>1. 0 \in Invocations
    BY LifecycleAssumption DEF Invocations
  <2>2. QED
    BY <2>1 DEF Absent, Artifact, Unknown, Lineage
<1>2. CASE Invoke
  <2>1. n' \in Invocations
    <3>1. n \in 0..MaxInvocations /\ n < MaxInvocations /\ n' = n + 1
      BY <1>2 DEF Invoke, TypeOK, Invocations
    <3>2. QED
      BY <3>1, LifecycleAssumption DEF Invocations
  <2>2. PICK c \in Commands, o \in BOOLEAN :
          /\ cmd' = c /\ override' = o /\ pc' = First[c]
          /\ todo' = IF c = "migrate" THEN LegacyNames ELSE <<>>
    BY <1>2 DEF Invoke
  <2>3. First[c] \in {"discover", "plan", "guard", "test", "report", "migrate"}
    BY DEF Commands, First
  <2>4. todo' \in Seq({LegacyNames[i] : i \in 1..Len(LegacyNames)})
    <3>1. LegacyNames \in Seq({LegacyNames[i] : i \in 1..Len(LegacyNames)})
      BY DEF LegacyNames
    <3>2. <<>> \in Seq({LegacyNames[i] : i \in 1..Len(LegacyNames)})
      OBVIOUS
    <3>3. QED
      BY <2>2, <3>1, <3>2
  <2>5. UNCHANGED <<disk, manifest, checksum, interrupted>> /\ exit' = "error"
        /\ ledger' = [a \in Artifacts |-> Absent]
    BY <1>2 DEF Invoke, Published
  <2>6. QED
    BY <1>1, <2>1, <2>2, <2>3, <2>4, <2>5 DEF TypeOK
\* An action that saves at most one artifact and goes on.
<1>3. ASSUME Typed, UNCHANGED <<Published, Invocation>>, exit' \in {"ok", "error"},
             pc' \in {"idle", "session discovery", "threats", "plan", "plan-state",
                      "session planning", "escalations", "guard", "execute", "execution-state",
                      "session execution", "test", "verify", "session verification", "report",
                      "session completed", "manifest", "checksum", "migrate"}
      PROVE  TypeOK'
  BY <1>3 DEF TypeOK, Published, Invocation
<1>4. ASSUME NEW name \in Artifacts, NEW phase \in Phases, NEW line \in Lineage,
             NEW good \in BOOLEAN, Save(name, phase, line, good)
      PROVE  Typed
  BY <1>4, SaveTypes
<1>5. ASSUME UNCHANGED <<disk, ledger>> PROVE Typed
  BY <1>5 DEF TypeOK
<1>6. ASSUME NEW phase \in Phases, UpdateSession(phase) PROVE Typed
  BY <1>4, <1>6, LineageTypes DEF UpdateSession, Artifacts
<1>7. exit \in {"ok", "error"}
  BY DEF TypeOK
<1> HIDE DEF Typed
<1>8. CASE Interrupt
  BY <1>8 DEF Interrupt, End, TypeOK, memory, Published
<1>9. CASE Discover
  <2>1. Typed
    BY <1>4, <1>9, LineageTypes DEF Discover, Artifacts, Phases
  <2>2. QED
    BY <1>3, <1>7, <1>9, <2>1 DEF Discover, GoTo
<1>10. CASE EndDiscovery
  <2>1. Typed
    BY <1>6, <1>10 DEF EndDiscovery, Phases
  <2>2. QED
    BY <1>3, <1>7, <1>10, <2>1 DEF EndDiscovery, Continue, GoTo, End
<1>11. CASE CheckThreats \/ CheckEscalations \/ Guard
  <2>1. Typed
    BY <1>5, <1>11 DEF CheckThreats, CheckEscalations, Guard
  <2>2. QED
    BY <1>3, <1>7, <1>11, <2>1 DEF CheckThreats, CheckEscalations, Guard, GoTo, End
<1>12. CASE PlanWork
  <2>1. Typed
    BY <1>4, <1>5, <1>12, LineageTypes DEF PlanWork, Artifacts, Phases
  <2>2. QED
    BY <1>3, <1>7, <1>12, <2>1 DEF PlanWork, GoTo, End
<1>13. CASE SavePlanState
  <2>1. Typed
    BY <1>4, <1>13, LineageTypes DEF SavePlanState, Artifacts, Phases
  <2>2. QED
    BY <1>3, <1>7, <1>13, <2>1 DEF SavePlanState, GoTo
<1>14. CASE EndPlanning
  <2>1. Typed
    BY <1>6, <1>14 DEF EndPlanning, Phases
  <2>2. QED
    BY <1>3, <1>7, <1>14, <2>1 DEF EndPlanning, Continue, GoTo, End
<1>15. CASE Execute
  <2>1. Typed
    BY <1>4, <1>15, LineageTypes DEF Execute, Artifacts, Phases
  <2>2. QED
    BY <1>3, <1>7, <1>15, <2>1 DEF Execute, GoTo
<1>16. CASE SaveExecutionState
  <2>1. Typed
    BY <1>4, <1>16, LineageTypes DEF SaveExecutionState, Artifacts, Phases
  <2>2. QED
    BY <1>3, <1>7, <1>16, <2>1 DEF SaveExecutionState, GoTo
<1>17. CASE EndExecution
  <2>1. Typed
    BY <1>6, <1>17 DEF EndExecution, Phases
  <2>2. QED
    BY <1>3, <1>7, <1>17, <2>1 DEF EndExecution, Continue, GoTo, End
<1>18. CASE Test
  <2>1. Typed
    BY <1>4, <1>5, <1>18, LineageTypes DEF Test, AddTestNumbers, Artifacts, Phases
  <2>2. QED
    BY <1>3, <1>7, <1>18, <2>1 DEF Test, GoTo, End
<1>19. CASE Verify
  <2>1. Typed
    BY <1>4, <1>19, LineageTypes DEF Verify, Artifacts, Phases
  <2>2. QED
    BY <1>3, <1>7, <1>19, <2>1 DEF Verify, GoTo
<1>20. CASE EndVerification
  <2>1. Typed
    BY <1>6, <1>20 DEF EndVerification, Phases
  <2>2. QED
    BY <1>3, <1>7, <1>20, <2>1 DEF EndVerification, Continue, GoTo, End
<1>21. CASE Report
  <2>1. ASSUME NEW answer \in BOOLEAN PROVE Ready(answer) \in BOOLEAN
    BY DEF Ready
  <2>2. Typed
    <3>1. CASE UNCHANGED <<disk, ledger>>
      BY <1>5, <3>1
    <3>2. ASSUME NEW answer \in BOOLEAN,
                 Save("RUP_FINAL_REPORT", "reporting", From("RUP_VERIFICATION", "reporting"),
                      Ready(answer))
          PROVE  Typed
      <4>1. From("RUP_VERIFICATION", "reporting") \in Lineage
        BY LineageTypes DEF Artifacts, Phases
      <4>2. "RUP_FINAL_REPORT" \in Artifacts /\ "reporting" \in Phases
        BY DEF Artifacts, Phases
      <4>3. Ready(answer) \in BOOLEAN
        BY <2>1
      <4>4. QED
        BY <1>4, <3>2, <4>1, <4>2, <4>3
    <3>3. QED
      BY <1>21, <3>1, <3>2 DEF Report
  <2>3. QED
    BY <1>3, <1>7, <1>21, <2>2 DEF Report, GoTo, End
<1>22. CASE EndReport
  <2>1. Typed
    BY <1>6, <1>22 DEF EndReport, Phases
  <2>2. QED
    BY <1>3, <1>7, <1>22, <2>1 DEF EndReport, GoTo
<1>23. CASE SaveManifest
  <2>1. RebuiltLedger \in [Artifacts -> Artifact]
    BY DEF RebuiltLedger, TypeOK
  <2>2. QED
    BY <1>23, <2>1 DEF SaveManifest, GoTo, TypeOK, Invocation
<1>24. CASE SaveChecksum
  BY <1>24 DEF SaveChecksum, End, TypeOK, Invocation
<1>25. CASE MigrateOne
  <2> DEFINE name == Head(todo)
  <2>1. /\ todo' \in Seq({LegacyNames[i] : i \in 1..Len(LegacyNames)})
        /\ name \in {LegacyNames[i] : i \in 1..Len(LegacyNames)}
    BY <1>25 DEF MigrateOne, TypeOK
  <2>2. name # "run-manifest" => name \in Artifacts
    BY <2>1 DEF LegacyNames, Artifacts
  <2>3. UNCHANGED <<checksum, n, cmd, override, pc, exit>>
    BY <1>25 DEF MigrateOne
  <2>4. CASE UNCHANGED <<disk, ledger, manifest, interrupted>>
    BY <2>1, <2>3, <2>4 DEF TypeOK
  <2>5. ASSUME name # "run-manifest", NEW good \in BOOLEAN, Save(name, "migrate", Unknown, good),
               interrupted' = TRUE, UNCHANGED manifest
        PROVE  TypeOK'
    <3>1. disk' \in [Artifacts -> Artifact] /\ ledger' \in [Artifacts -> Artifact]
      <4>1. Unknown \in Lineage
        BY LifecycleAssumption DEF Unknown, Lineage, Invocations
      <4>2. QED
        BY <2>2, <2>5, <4>1, SaveTypes
    <3>2. QED
      BY <2>1, <2>3, <2>5, <3>1 DEF TypeOK
  <2>6. CASE /\ manifest' = [by |-> n, ledger |-> [a \in Artifacts |-> Absent]]
             /\ interrupted' = TRUE /\ UNCHANGED <<disk, ledger>>
    BY <1>1, <2>1, <2>3, <2>6 DEF TypeOK
  <2>7. QED
    BY <1>25, <2>4, <2>5, <2>6 DEF MigrateOne
<1>26. CASE EndMigration
  <2>1. Typed
    BY <1>5, <1>26 DEF EndMigration
  <2>2. QED
    BY <1>3, <1>26, <2>1 DEF EndMigration, End
<1>27. CASE UNCHANGED vars
  BY <1>27 DEF vars, memory, TypeOK
<1>28. QED
  BY <1>2, <1>8, <1>9, <1>10, <1>11, <1>12, <1>13, <1>14, <1>15, <1>16, <1>17, <1>18, <1>19,
     <1>20, <1>21, <1>22, <1>23, <1>24, <1>25, <1>26, <1>27 DEF Next

\* Type correctness of the state directory and the program, for any number of
\* invocations (cli.py, state.py).
THEOREM LifecycleTypeCorrect == Spec => []TypeOK
<1>1. TypeOK /\ [Next]_vars => TypeOK'
  BY StepTypes
<1>2. QED
  BY InitTypes, <1>1, PTL DEF Spec

-----------------------------------------------------------------------------
(* Sidecars: in whatever order invocations follow each other, an artifact    *)
(* and its sidecar are apart only between the two saves of one phase.        *)

SidecarInv ==
  ~interrupted =>
    /\ pc = "plan-state" => disk["RUP_PLAN"].by = n
    /\ pc # "plan-state" => /\ disk["plan-state"].by = disk["RUP_PLAN"].by
                            /\ disk["plan-state"].line = disk["RUP_PLAN"].line
                            /\ disk["plan-state"].good = disk["RUP_PLAN"].good
    /\ pc # "execution-state" => disk["execution-state"].line = disk["RUP_EXECUTION"].line
    /\ pc = "execute" /\ ~override => disk["RUP_PLAN"].good

(* The manifest: what the process remembers of its saves is what is on disk. *)

Remembered == \A a \in Artifacts : ledger[a] # Absent => ledger[a] = disk[a]

ManifestInv ==
  /\ Running => checksum < n /\ Remembered
  /\ ~Running /\ checksum = n => manifest.ledger = disk
  /\ checksum <= n
  /\ pc = "checksum" => manifest.by = n /\ manifest.ledger = disk

(* A full lifecycle: what it has saved so far is its own.                    *)

Reported   == {"session completed", "manifest", "checksum"}
Verified   == {"session verification", "report"} \cup Reported
Completed  == {"session execution", "test", "verify"} \cup Verified
Executed   == {"execution-state"} \cup Completed
Approvable == {"session planning", "escalations", "guard", "execute"} \cup Executed
Planned    == {"plan-state"} \cup Approvable
Discovered == {"session discovery", "threats", "plan"} \cup Planned

Own(name, phases) == disk[name].by = n /\ \A p \in phases : disk[name].line[p] = n

OwnPlanState == /\ disk["plan-state"].by = n
                /\ disk["plan-state"].line = disk["RUP_PLAN"].line
                /\ disk["plan-state"].good = disk["RUP_PLAN"].good

OwnExecutionState == /\ disk["execution-state"].by = n
                     /\ disk["execution-state"].line = disk["RUP_EXECUTION"].line

ReadyIsEarned == disk["RUP_FINAL_REPORT"].good => /\ disk["RUP_VERIFICATION"].good
                                                  /\ disk["execution-state"].good
                                                  /\ disk["plan-state"].good

RunInv ==
  Running /\ cmd = "run" =>
    /\ pc \in {"discover"} \cup Discovered
    /\ pc \in Discovered => Own("RUP_DISCOVERY", {"discovery"}) /\ disk["RUP_DISCOVERY"].good
    /\ pc \in Planned => Own("RUP_PLAN", {"discovery", "planning"})
    /\ pc \in Approvable => OwnPlanState
    /\ pc \in Executed => /\ Own("RUP_EXECUTION", {"discovery", "planning", "execution"})
                          /\ disk["RUP_EXECUTION"].good
    /\ pc \in Completed => OwnExecutionState
    /\ pc \in Verified =>
         Own("RUP_VERIFICATION", {"discovery", "planning", "execution", "verification"})
    /\ pc \in Reported => Own("RUP_FINAL_REPORT", Phases) /\ ReadyIsEarned

LifecycleInv == TypeOK /\ SidecarInv /\ ManifestInv /\ RunInv /\ ExitZeroIsThisRun

LEMMA InitLifecycle == Init => LifecycleInv
<1> SUFFICES ASSUME Init PROVE LifecycleInv
  OBVIOUS
<1>1. TypeOK
  BY InitTypes
<1>2. SidecarInv
  BY DEF Init, SidecarInv, Artifacts
<1>3. ManifestInv
  BY DEF Init, ManifestInv, Running
<1>4. QED
  BY <1>1, <1>2, <1>3 DEF Init, LifecycleInv, RunInv, ExitZeroIsThisRun, Running

\* The ledger after a save.
LEMMA SaveRemembered ==
  ASSUME TypeOK, Remembered, NEW name \in Artifacts, NEW phase, NEW line, NEW good,
         Save(name, phase, line, good)
  PROVE  Remembered'
BY SaveFrame DEF Remembered

\* A step of a running process that is not one of the manifest's.
LEMMA ManifestKept ==
  ASSUME TypeOK, ManifestInv, Running, Remembered', UNCHANGED <<checksum, n>>, pc' # "checksum"
  PROVE  ManifestInv'
<1>1. checksum \in Nat /\ n \in Nat
  <2>1. checksum \in Invocations /\ n \in Invocations
    BY DEF TypeOK
  <2>2. QED
    BY <2>1, LifecycleAssumption DEF Invocations
<1>2. checksum < n /\ checksum' < n' /\ checksum' # n' /\ checksum' <= n'
  BY <1>1 DEF ManifestInv
<1>3. QED
  BY <1>2 DEF ManifestInv

\* A step of a running process that ends it with an error, or that ends a command
\* other than a full lifecycle.
LEMMA ExitKept ==
  ASSUME Running, pc' # "idle" \/ exit' = "error" \/ cmd' # "run"
  PROVE  ExitZeroIsThisRun'
BY DEF ExitZeroIsThisRun, Running

\* A step that leaves the four artifacts of the sidecars alone and is not next to them.
LEMMA SidecarKept ==
  ASSUME SidecarInv, interrupted' = interrupted,
         \A a \in {"RUP_PLAN", "plan-state", "RUP_EXECUTION", "execution-state"} :
           disk'[a] = disk[a],
         pc \notin {"plan-state", "execution-state"},
         pc' \notin {"plan-state", "execution-state", "execute"}
  PROVE  SidecarInv'
BY DEF SidecarInv

\* Saving the session state disturbs nothing.
LEMMA SessionKept ==
  ASSUME LifecycleInv, NEW phase \in Phases, UpdateSession(phase), Running,
         UNCHANGED <<Published, Invocation>>
  PROVE  /\ Remembered' /\ n' = n /\ cmd' = cmd /\ interrupted' = interrupted
         /\ checksum' = checksum
         /\ \A a \in Artifacts \ {"session-state"} : disk'[a] = disk[a]
<1>1. TypeOK /\ Remembered
  BY DEF LifecycleInv, ManifestInv
<1>2. "session-state" \in Artifacts
  BY DEF Artifacts
<1>3. QED
  BY <1>1, <1>2, SaveFrame, SaveRemembered DEF UpdateSession, Published, Invocation

\* An artifact's lineage with this invocation added.
LEMMA FromOwn ==
  ASSUME TypeOK, NEW name \in Artifacts, NEW phase \in Phases
  PROVE  /\ From(name, phase)[phase] = n
         /\ \A p \in Phases \ {phase} : From(name, phase)[p] = disk[name].line[p]
<1>1. disk[name].line \in [Phases -> Invocations]
  BY LineageTypes DEF Lineage
<1>2. QED
  BY <1>1 DEF From

\* One step of the program, action by action.
LEMMA StepLifecycle == ASSUME LifecycleInv, [Next]_vars PROVE LifecycleInv'
<1>1. TypeOK /\ TypeOK'
  BY StepTypes DEF LifecycleInv
<1>2. n \in Nat /\ checksum \in Nat
  <2>1. n \in Invocations /\ checksum \in Invocations
    BY <1>1 DEF TypeOK
  <2>2. QED
    BY <2>1, LifecycleAssumption DEF Invocations
<1>3. SidecarInv /\ ManifestInv /\ RunInv /\ ExitZeroIsThisRun
  BY DEF LifecycleInv
<1>4. Running => Remembered /\ n > 0
  BY <1>2, <1>3 DEF ManifestInv
<1>5. CASE Invoke
  <2>1. /\ ~Running /\ n' = n + 1 /\ exit' = "error" /\ disk' = disk
        /\ ledger' = [a \in Artifacts |-> Absent]
        /\ UNCHANGED <<manifest, checksum, interrupted>>
    BY <1>5 DEF Invoke, Published
  <2>2. PICK c \in Commands : cmd' = c /\ pc' = First[c]
    BY <1>5 DEF Invoke
  <2>3. /\ pc' \in {"discover", "plan", "guard", "test", "report", "migrate"}
        /\ cmd' = "run" => pc' = "discover"
    BY <2>2 DEF Commands, First
  <2>4. SidecarInv'
    BY <1>3, <2>1, <2>3 DEF SidecarInv, Running
  <2>5. Remembered'
    BY <2>1 DEF Remembered
  <2>6. ManifestInv'
    BY <1>2, <1>3, <2>1, <2>3, <2>5 DEF ManifestInv, Running
  <2>7. RunInv'
    BY <2>3 DEF RunInv, Discovered, Planned, Approvable, Executed, Completed, Verified, Reported
  <2>8. ExitZeroIsThisRun'
    BY <2>1 DEF ExitZeroIsThisRun
  <2>9. QED
    BY <1>1, <2>4, <2>6, <2>7, <2>8 DEF LifecycleInv
<1>6. CASE Interrupt
  <2>1. Running /\ pc' = "idle" /\ exit' = "error" /\ interrupted' = TRUE
        /\ UNCHANGED <<disk, ledger, checksum, n>>
    BY <1>6 DEF Interrupt, End, Published, memory
  <2>2. Remembered'
    BY <1>4, <2>1 DEF Remembered
  <2>3. ManifestInv'
    BY <1>1, <1>3, <2>1, <2>2, ManifestKept
  <2>4. QED
    BY <1>1, <2>1, <2>3 DEF LifecycleInv, SidecarInv, RunInv, ExitZeroIsThisRun, Running
<1>7. CASE Discover
  <2>1. /\ Running /\ pc = "discover" /\ pc' = "session discovery" /\ n' = n /\ cmd' = cmd
        /\ interrupted' = interrupted /\ checksum' = checksum
        /\ Save("RUP_DISCOVERY", "discovery", [Unknown EXCEPT !["discovery"] = n], TRUE)
    BY <1>7 DEF Discover, GoTo, Running, Invocation, Published
  <2>2. "RUP_DISCOVERY" \in Artifacts
    BY DEF Artifacts
  <2>3. /\ disk'["RUP_DISCOVERY"] = Saved("discovery", [Unknown EXCEPT !["discovery"] = n], TRUE)
        /\ \A b \in Artifacts \ {"RUP_DISCOVERY"} : disk'[b] = disk[b]
        /\ Remembered'
    BY <1>1, <1>4, <2>1, <2>2, SaveFrame, SaveRemembered
  <2>4. SidecarInv'
    BY <1>3, <2>1, <2>3, SidecarKept DEF Artifacts
  <2>5. RunInv'
    <3>1. disk'["RUP_DISCOVERY"].by = n /\ disk'["RUP_DISCOVERY"].line["discovery"] = n
          /\ disk'["RUP_DISCOVERY"].good
      BY <2>3 DEF Saved, Unknown, Phases
    <3>2. QED
      BY <2>1, <3>1 DEF RunInv, Own, Discovered, Planned, Approvable, Executed, Completed,
         Verified, Reported
  <2>6. QED
    BY <1>1, <1>3, <2>1, <2>3, <2>4, <2>5, ManifestKept, ExitKept DEF LifecycleInv
\* The end of a phase: the session state, and the next phase of a full lifecycle.
<1>8. CASE EndDiscovery \/ EndPlanning \/ EndExecution \/ EndVerification \/ EndReport
  <2>1. /\ Running /\ UNCHANGED <<Published, Invocation>>
        /\ \E phase \in Phases : UpdateSession(phase)
        /\ pc' = "idle" => exit' = "error" \/ cmd' # "run"
        /\ \/ pc = "session discovery" /\ pc' \in {"idle", "threats"}
           \/ pc = "session planning" /\ pc' \in {"idle", "escalations"}
           \/ pc = "session execution" /\ pc' \in {"idle", "test"}
           \/ pc = "session verification" /\ pc' \in {"idle", "report"}
           \/ pc = "session completed" /\ pc' = "manifest"
    BY <1>8 DEF EndDiscovery, EndPlanning, EndExecution, EndVerification, EndReport, Continue,
       GoTo, End, Running, Phases, Invocation
  <2>2. /\ Remembered' /\ n' = n /\ cmd' = cmd /\ interrupted' = interrupted
        /\ checksum' = checksum
        /\ \A a \in Artifacts \ {"session-state"} : disk'[a] = disk[a]
    BY <2>1, SessionKept
  <2>3. SidecarInv'
    BY <1>3, <2>1, <2>2, SidecarKept DEF Artifacts
  <2>4. RunInv'
    BY <1>3, <2>1, <2>2 DEF RunInv, Running, Own, OwnPlanState, OwnExecutionState,
       ReadyIsEarned, Artifacts, Discovered, Planned, Approvable, Executed, Completed,
       Verified, Reported
  <2>5. ManifestInv' /\ ExitZeroIsThisRun'
    BY <1>1, <1>3, <2>1, <2>2, ManifestKept, ExitKept
  <2>6. QED
    BY <1>1, <2>3, <2>4, <2>5 DEF LifecycleInv
\* The decisions between phases.
<1>9. CASE CheckThreats \/ CheckEscalations
  <2>1. /\ Running /\ UNCHANGED <<disk, ledger, checksum, n, cmd, interrupted>>
        /\ pc' = "idle" => exit' = "error"
        /\ \/ pc = "threats" /\ pc' \in {"idle", "plan"}
           \/ pc = "escalations" /\ pc' \in {"idle", "guard"}
    BY <1>9 DEF CheckThreats, CheckEscalations, GoTo, End, Running, Published, Invocation
  <2>2. Remembered'
    BY <1>4, <2>1 DEF Remembered
  <2>3. SidecarInv'
    BY <1>3, <2>1, SidecarKept
  <2>4. RunInv'
    BY <1>3, <2>1 DEF RunInv, Running, Own, OwnPlanState, OwnExecutionState, ReadyIsEarned,
       Discovered, Planned, Approvable, Executed, Completed, Verified, Reported
  <2>5. QED
    BY <1>1, <1>3, <2>1, <2>2, <2>3, <2>4, ManifestKept, ExitKept DEF LifecycleInv
<1>10. CASE Guard
  <2>1. /\ Running /\ UNCHANGED <<disk, ledger, checksum, n, cmd, override, interrupted>>
        /\ pc' = "idle" => exit' = "error"
        /\ pc = "guard" /\ pc' \in {"idle", "execute"}
        /\ pc' = "execute" => MayExecute
    BY <1>10 DEF Guard, GoTo, End, Running, Published, Invocation
  <2>2. Remembered'
    BY <1>4, <2>1 DEF Remembered
  <2>3. SidecarInv'
    BY <1>1, <1>3, <2>1 DEF SidecarInv, MayExecute, Escalated, Exists
  <2>4. RunInv'
    BY <1>3, <2>1 DEF RunInv, Running, Own, OwnPlanState, OwnExecutionState, ReadyIsEarned,
       Discovered, Planned, Approvable, Executed, Completed, Verified, Reported
  <2>5. QED
    BY <1>1, <1>3, <2>1, <2>2, <2>3, <2>4, ManifestKept, ExitKept DEF LifecycleInv
<1>11. CASE PlanWork
  <2>1. /\ Running /\ pc = "plan" /\ n' = n /\ cmd' = cmd
        /\ interrupted' = interrupted /\ checksum' = checksum
    BY <1>11 DEF PlanWork, Running, Published, Invocation
  <2>2. CASE pc' = "idle" /\ exit' = "error" /\ UNCHANGED <<disk, ledger>>
    <3>1. Remembered'
      BY <1>4, <2>2, <2>1 DEF Remembered
    <3>2. SidecarInv' /\ RunInv'
      BY <1>3, <2>1, <2>2, SidecarKept DEF RunInv, Running
    <3>3. QED
      BY <1>1, <1>3, <2>1, <2>2, <3>1, <3>2, ManifestKept, ExitKept DEF LifecycleInv
  <2>3. ASSUME NEW good \in BOOLEAN, pc' = "plan-state",
               Save("RUP_PLAN", "planning", From("RUP_DISCOVERY", "planning"), good)
        PROVE  LifecycleInv'
    <3>1. "RUP_PLAN" \in Artifacts
      BY DEF Artifacts
    <3>2. /\ disk'["RUP_PLAN"] = Saved("planning", From("RUP_DISCOVERY", "planning"), good)
          /\ \A b \in Artifacts \ {"RUP_PLAN"} : disk'[b] = disk[b]
          /\ Remembered'
      BY <1>1, <1>4, <2>1, <2>3, <3>1, SaveFrame, SaveRemembered
    <3>3. disk'["RUP_PLAN"].by = n /\ disk'["RUP_PLAN"].line = From("RUP_DISCOVERY", "planning")
      BY <3>2 DEF Saved
    <3>4. SidecarInv'
      BY <1>3, <2>1, <2>3, <3>2, <3>3 DEF SidecarInv, Artifacts
    <3>5. /\ From("RUP_DISCOVERY", "planning")["planning"] = n
          /\ From("RUP_DISCOVERY", "planning")["discovery"] = disk["RUP_DISCOVERY"].line["discovery"]
      BY <1>1, FromOwn DEF Artifacts, Phases
    <3>6. RunInv'
      BY <1>3, <2>1, <2>3, <3>2, <3>3, <3>5 DEF RunInv, Running, Own, Artifacts, Discovered,
         Planned, Approvable, Executed, Completed, Verified, Reported
    <3>7. QED
      BY <1>1, <1>3, <2>1, <2>3, <3>2, <3>4, <3>6, ManifestKept, ExitKept DEF LifecycleInv
  <2>4. QED
    BY <1>11, <2>2, <2>3 DEF PlanWork, End, GoTo
<1>12. CASE SavePlanState
  <2> DEFINE line == disk["RUP_PLAN"].line
             good == disk["RUP_PLAN"].good
  <2>1. /\ Running /\ pc = "plan-state" /\ pc' = "session planning" /\ n' = n /\ cmd' = cmd
        /\ interrupted' = interrupted /\ checksum' = checksum
        /\ Save("plan-state", "planning", line, good)
    BY <1>12 DEF SavePlanState, GoTo, Running, Published, Invocation
  <2>2. "plan-state" \in Artifacts
    BY DEF Artifacts
  <2> HIDE DEF line, good
  <2>3. /\ disk'["plan-state"] = Saved("planning", line, good)
        /\ \A b \in Artifacts \ {"plan-state"} : disk'[b] = disk[b]
        /\ Remembered'
    BY <1>1, <1>4, <2>1, <2>2, SaveFrame, SaveRemembered
  <2>4. /\ disk'["plan-state"].by = n /\ disk'["plan-state"].line = disk'["RUP_PLAN"].line
        /\ disk'["plan-state"].good = disk'["RUP_PLAN"].good
    BY <2>3 DEF Saved, Artifacts, line, good
  <2>5. SidecarInv'
    BY <1>3, <2>1, <2>3, <2>4 DEF SidecarInv, Artifacts
  <2>6. RunInv'
    BY <1>3, <2>1, <2>3, <2>4 DEF RunInv, Running, Own, OwnPlanState, Artifacts, Discovered,
       Planned, Approvable, Executed, Completed, Verified, Reported
  <2>7. QED
    BY <1>1, <1>3, <2>1, <2>3, <2>5, <2>6, ManifestKept, ExitKept DEF LifecycleInv
<1>13. CASE Execute
  <2>1. /\ Running /\ pc = "execute" /\ pc' = "execution-state" /\ n' = n /\ cmd' = cmd
        /\ interrupted' = interrupted /\ checksum' = checksum
        /\ Save("RUP_EXECUTION", "execution", From("RUP_PLAN", "execution"), TRUE)
    BY <1>13 DEF Execute, GoTo, Running, Published, Invocation
  <2>2. "RUP_EXECUTION" \in Artifacts
    BY DEF Artifacts
  <2>3. /\ disk'["RUP_EXECUTION"] = Saved("execution", From("RUP_PLAN", "execution"), TRUE)
        /\ \A b \in Artifacts \ {"RUP_EXECUTION"} : disk'[b] = disk[b]
        /\ Remembered'
    BY <1>1, <1>4, <2>1, <2>2, SaveFrame, SaveRemembered
  <2>4. /\ disk'["RUP_EXECUTION"].by = n /\ disk'["RUP_EXECUTION"].good
        /\ disk'["RUP_EXECUTION"].line = From("RUP_PLAN", "execution")
    BY <2>3 DEF Saved
  <2>5. SidecarInv'
    BY <1>3, <2>1, <2>3 DEF SidecarInv, Artifacts
  <2>6. /\ From("RUP_PLAN", "execution")["execution"] = n
        /\ \A p \in {"discovery", "planning"} :
             From("RUP_PLAN", "execution")[p] = disk["RUP_PLAN"].line[p]
    BY <1>1, FromOwn DEF Artifacts, Phases
  <2>7. RunInv'
    BY <1>3, <2>1, <2>3, <2>4, <2>6 DEF RunInv, Running, Own, OwnPlanState, Artifacts,
       Discovered, Planned, Approvable, Executed, Completed, Verified, Reported
  <2>8. QED
    BY <1>1, <1>3, <2>1, <2>3, <2>5, <2>7, ManifestKept, ExitKept DEF LifecycleInv
<1>14. CASE SaveExecutionState
  <2> DEFINE line == disk["RUP_EXECUTION"].line
  <2>1. /\ Running /\ pc = "execution-state" /\ pc' = "session execution" /\ n' = n
        /\ cmd' = cmd /\ interrupted' = interrupted /\ checksum' = checksum
    BY <1>14 DEF SaveExecutionState, GoTo, Running, Published, Invocation
  <2>2. PICK complete \in BOOLEAN :
          Save("execution-state", "execution", line, complete)
    BY <1>14 DEF SaveExecutionState
  <2> HIDE DEF line
  <2>3. "execution-state" \in Artifacts
    BY DEF Artifacts
  <2>4. /\ disk'["execution-state"] = Saved("execution", line, complete)
        /\ \A b \in Artifacts \ {"execution-state"} : disk'[b] = disk[b]
    BY <1>1, <1>4, <2>1, <2>2, <2>3, SaveFrame
  <2>5. Remembered'
    <3>1. Remembered
      BY <1>4, <2>1
    <3>2. QED
      BY <1>1, <2>2, <2>3, <3>1, SaveRemembered
  <2>6. /\ disk'["execution-state"].by = n /\ disk'["execution-state"].line = line
        /\ disk'["RUP_EXECUTION"].line = line
    BY <2>4 DEF Saved, Artifacts, line
  <2>7. OwnExecutionState'
    BY <2>1, <2>6 DEF OwnExecutionState
  <2>8. SidecarInv'
    BY <1>3, <2>1, <2>4, <2>7 DEF SidecarInv, OwnExecutionState, Artifacts
  <2>9. RunInv'
    BY <1>3, <2>1, <2>4, <2>7 DEF RunInv, Running, Own, OwnPlanState,
       Artifacts, Discovered, Planned, Approvable, Executed, Completed, Verified, Reported
  <2>10. QED
    BY <1>1, <1>3, <2>1, <2>5, <2>8, <2>9, ManifestKept, ExitKept DEF LifecycleInv
<1>15. CASE Test
  <2>1. /\ Running /\ pc = "test" /\ n' = n /\ cmd' = cmd /\ interrupted' = interrupted
        /\ checksum' = checksum /\ pc' \in {"idle", "verify"} /\ (pc' = "idle" => exit' = "error")
    BY <1>15 DEF Test, GoTo, End, Running, Published, Invocation
  <2>2. CASE UNCHANGED <<disk, ledger>>
    <3>1. Remembered'
      BY <1>4, <2>1, <2>2 DEF Remembered
    <3>2. SidecarInv'
      BY <1>3, <2>1, <2>2, SidecarKept
    <3>3. RunInv'
      BY <1>3, <2>1, <2>2 DEF RunInv, Running, Own, OwnPlanState, OwnExecutionState,
         Discovered, Planned, Approvable, Executed, Completed, Verified, Reported
    <3>4. QED
      BY <1>1, <1>3, <2>1, <3>1, <3>2, <3>3, ManifestKept, ExitKept DEF LifecycleInv
  <2>3. CASE AddTestNumbers
    <3>1. "execution-state" \in Artifacts
      BY DEF Artifacts
    <3>2. /\ disk'["execution-state"] = Saved("verification", disk["execution-state"].line,
                                              disk["execution-state"].good)
          /\ \A b \in Artifacts \ {"execution-state"} : disk'[b] = disk[b]
          /\ Remembered'
      BY <1>1, <1>4, <2>1, <2>3, <3>1, SaveFrame, SaveRemembered DEF AddTestNumbers
    <3>3. /\ disk'["execution-state"].by = n
          /\ disk'["execution-state"].line = disk["execution-state"].line
      BY <3>2 DEF Saved
    <3>4. SidecarInv'
      BY <1>3, <2>1, <3>2, <3>3 DEF SidecarInv, Artifacts
    <3>5. RunInv'
      BY <1>3, <2>1, <3>2, <3>3 DEF RunInv, Running, Own, OwnPlanState, OwnExecutionState,
         Artifacts, Discovered, Planned, Approvable, Executed, Completed, Verified, Reported
    <3>6. QED
      BY <1>1, <1>3, <2>1, <3>2, <3>4, <3>5, ManifestKept, ExitKept DEF LifecycleInv
  <2>4. QED
    BY <1>15, <2>2, <2>3 DEF Test
<1>16. CASE Verify
  <2>1. /\ Running /\ pc = "verify" /\ pc' = "session verification" /\ n' = n /\ cmd' = cmd
        /\ interrupted' = interrupted /\ checksum' = checksum
    BY <1>16 DEF Verify, GoTo, Running, Published, Invocation
  <2>2. PICK passed \in BOOLEAN :
          Save("RUP_VERIFICATION", "verification", From("RUP_EXECUTION", "verification"), passed)
    BY <1>16 DEF Verify
  <2>3. "RUP_VERIFICATION" \in Artifacts
    BY DEF Artifacts
  <2>4. /\ disk'["RUP_VERIFICATION"] =
             Saved("verification", From("RUP_EXECUTION", "verification"), passed)
        /\ \A b \in Artifacts \ {"RUP_VERIFICATION"} : disk'[b] = disk[b]
        /\ Remembered'
    BY <1>1, <1>4, <2>1, <2>2, <2>3, SaveFrame, SaveRemembered
  <2>5. /\ disk'["RUP_VERIFICATION"].by = n
        /\ disk'["RUP_VERIFICATION"].line = From("RUP_EXECUTION", "verification")
    BY <2>4 DEF Saved
  <2>6. SidecarInv'
    BY <1>3, <2>1, <2>4, SidecarKept DEF Artifacts
  <2>7. /\ From("RUP_EXECUTION", "verification")["verification"] = n
        /\ \A p \in {"discovery", "planning", "execution"} :
             From("RUP_EXECUTION", "verification")[p] = disk["RUP_EXECUTION"].line[p]
    BY <1>1, FromOwn DEF Artifacts, Phases
  <2>8. RunInv'
    BY <1>3, <2>1, <2>4, <2>5, <2>7 DEF RunInv, Running, Own, OwnPlanState, OwnExecutionState,
       Artifacts, Discovered, Planned, Approvable, Executed, Completed, Verified, Reported
  <2>9. QED
    BY <1>1, <1>3, <2>1, <2>4, <2>6, <2>8, ManifestKept, ExitKept DEF LifecycleInv
<1>17. CASE Report
  <2>1. /\ Running /\ pc = "report" /\ n' = n /\ cmd' = cmd /\ interrupted' = interrupted
        /\ checksum' = checksum
    BY <1>17 DEF Report, Running, Published, Invocation
  <2>2. CASE pc' = "idle" /\ exit' = "error" /\ UNCHANGED <<disk, ledger>>
    <3>1. Remembered'
      BY <1>4, <2>2, <2>1 DEF Remembered
    <3>2. SidecarInv' /\ RunInv'
      BY <1>3, <2>1, <2>2, SidecarKept DEF RunInv, Running
    <3>3. QED
      BY <1>1, <1>3, <2>1, <2>2, <3>1, <3>2, ManifestKept, ExitKept DEF LifecycleInv
  <2>3. ASSUME NEW answer \in BOOLEAN, pc' = "session completed",
               Save("RUP_FINAL_REPORT", "reporting", From("RUP_VERIFICATION", "reporting"),
                    Ready(answer))
        PROVE  LifecycleInv'
    <3>1. "RUP_FINAL_REPORT" \in Artifacts
      BY DEF Artifacts
    <3>2. /\ disk'["RUP_FINAL_REPORT"] =
               Saved("reporting", From("RUP_VERIFICATION", "reporting"), Ready(answer))
          /\ \A b \in Artifacts \ {"RUP_FINAL_REPORT"} : disk'[b] = disk[b]
          /\ Remembered'
      BY <1>1, <1>4, <2>1, <2>3, <3>1, SaveFrame, SaveRemembered
    <3>3. /\ disk'["RUP_FINAL_REPORT"].by = n
          /\ disk'["RUP_FINAL_REPORT"].line = From("RUP_VERIFICATION", "reporting")
          /\ disk'["RUP_FINAL_REPORT"].good = Ready(answer)
      BY <3>2 DEF Saved
    <3>4. SidecarInv'
      BY <1>3, <2>1, <2>3, <3>2, SidecarKept DEF Artifacts
    <3>5. /\ From("RUP_VERIFICATION", "reporting")["reporting"] = n
          /\ \A p \in Phases \ {"reporting"} :
               From("RUP_VERIFICATION", "reporting")[p] = disk["RUP_VERIFICATION"].line[p]
      BY <1>1, FromOwn DEF Artifacts, Phases
\* The report of a full lifecycle looks at this run's verification, completions and plan.
    <3>6. ASSUME cmd = "run", Ready(answer)
          PROVE  /\ disk["RUP_VERIFICATION"].good
                 /\ disk["execution-state"].good
                 /\ disk["plan-state"].good
      <4>1. /\ OwnPlanState /\ OwnExecutionState /\ Own("RUP_PLAN", {"discovery", "planning"})
            /\ Own("RUP_EXECUTION", {"discovery", "planning", "execution"})
        BY <1>3, <2>1, <3>6 DEF RunInv, Discovered, Planned, Approvable, Executed, Completed,
           Verified, Reported
      <4>2. /\ disk["execution-state"].line["planning"] = n
            /\ disk["RUP_PLAN"].line["planning"] = n
            /\ disk["plan-state"].by = n /\ n # 0
        BY <1>2, <1>4, <2>1, <4>1 DEF OwnPlanState, OwnExecutionState, Own
      <4>3. QED
        BY <3>6, <4>2 DEF Ready, Complete, Escalated, Exists
    <3>7. ASSUME cmd = "run" PROVE Own("RUP_FINAL_REPORT", Phases)' /\ ReadyIsEarned'
      <4>1. Own("RUP_VERIFICATION", {"discovery", "planning", "execution", "verification"})
        BY <1>3, <2>1, <3>7 DEF RunInv, Verified, Reported
      <4>2. \A p \in Phases : disk'["RUP_FINAL_REPORT"].line[p] = n
        BY <3>3, <3>5, <4>1 DEF Own, Phases
      <4>3. ReadyIsEarned'
        BY <3>2, <3>3, <3>6, <3>7 DEF ReadyIsEarned, Artifacts
      <4>4. QED
        BY <2>1, <3>3, <4>2, <4>3 DEF Own
    <3>8. RunInv'
      BY <1>3, <2>1, <2>3, <3>2, <3>7 DEF RunInv, Running, Own, OwnPlanState,
         OwnExecutionState, Artifacts, Discovered, Planned, Approvable, Executed, Completed,
         Verified, Reported
    <3>9. QED
      BY <1>1, <1>3, <2>1, <2>3, <3>2, <3>4, <3>8, ManifestKept, ExitKept DEF LifecycleInv
  <2>4. QED
    BY <1>17, <2>2, <2>3 DEF Report, End, GoTo
<1>18. CASE SaveManifest
  <2>1. /\ Running /\ pc = "manifest" /\ pc' = "checksum"
        /\ ledger' = RebuiltLedger /\ manifest' = [by |-> n, ledger |-> RebuiltLedger]
        /\ UNCHANGED <<disk, checksum, n, cmd, interrupted>>
    BY <1>18 DEF SaveManifest, GoTo, Running, Invocation
  <2>2. RebuiltLedger = disk
    <3>1. disk \in [Artifacts -> Artifact] /\ Remembered
      BY <1>1, <1>4, <2>1 DEF TypeOK
    <3>2. \A a \in Artifacts : RebuiltLedger[a] = disk[a]
      BY <3>1 DEF RebuiltLedger, Remembered
    <3>3. QED
      BY <3>1, <3>2 DEF RebuiltLedger
  <2>3. ManifestInv'
    BY <1>3, <2>1, <2>2 DEF ManifestInv, Running, Remembered
  <2>4. SidecarInv'
    BY <1>3, <2>1, SidecarKept
  <2>5. RunInv'
    BY <1>3, <2>1 DEF RunInv, Running, Own, OwnPlanState, OwnExecutionState, ReadyIsEarned,
       Discovered, Planned, Approvable, Executed, Completed, Verified, Reported
  <2>6. QED
    BY <1>1, <2>1, <2>3, <2>4, <2>5, ExitKept DEF LifecycleInv
<1>19. CASE SaveChecksum
  <2>1. /\ Running /\ pc = "checksum" /\ pc' = "idle" /\ checksum' = manifest.by
        /\ UNCHANGED <<disk, ledger, manifest, n, cmd, interrupted>>
        /\ exit' = IF cmd = "run" /\ ~disk["RUP_FINAL_REPORT"].good THEN "error" ELSE "ok"
    BY <1>19 DEF SaveChecksum, End, Running, Invocation
  <2>2. ManifestInv'
    BY <1>2, <1>3, <2>1 DEF ManifestInv, Running
  <2>3. SidecarInv' /\ RunInv'
    BY <1>3, <2>1, SidecarKept DEF RunInv, Running
  <2>4. ASSUME cmd = "run", disk["RUP_FINAL_REPORT"].good
        PROVE  ExitZeroIsThisRun'
    <3>1. /\ Own("RUP_FINAL_REPORT", Phases) /\ ReadyIsEarned
          /\ OwnPlanState /\ OwnExecutionState
          /\ Own("RUP_DISCOVERY", {"discovery"}) /\ disk["RUP_DISCOVERY"].good
          /\ Own("RUP_PLAN", {"discovery", "planning"})
          /\ Own("RUP_EXECUTION", {"discovery", "planning", "execution"})
          /\ disk["RUP_EXECUTION"].good
          /\ Own("RUP_VERIFICATION", {"discovery", "planning", "execution", "verification"})
      BY <1>3, <2>1, <2>4 DEF RunInv, Discovered, Planned, Approvable, Executed, Completed,
         Verified, Reported
    <3>2. disk["RUP_FINAL_REPORT"].line = [p \in Phases |-> n]
      <4>1. disk["RUP_FINAL_REPORT"].line \in [Phases -> Invocations]
        BY <1>1, LineageTypes DEF Lineage, Artifacts, Phases
      <4>2. \A p \in Phases : disk["RUP_FINAL_REPORT"].line[p] = n
        BY <3>1 DEF Own
      <4>3. QED
        BY <4>1, <4>2
    <3>3. \A a \in Artifacts \ {"session-state"} : disk[a].by = n /\ disk[a].good
      BY <2>4, <3>1 DEF Own, OwnPlanState, OwnExecutionState, ReadyIsEarned, Artifacts
    <3>4. QED
      BY <2>1, <3>1, <3>2, <3>3 DEF ExitZeroIsThisRun, OwnPlanState, OwnExecutionState
  <2>5. ExitZeroIsThisRun'
    BY <2>1, <2>4 DEF ExitZeroIsThisRun
  <2>6. QED
    BY <1>1, <2>2, <2>3, <2>5 DEF LifecycleInv
<1>20. CASE MigrateOne
  <2>1. /\ Running /\ pc = "migrate" /\ UNCHANGED <<checksum, n, cmd, pc>>
    BY <1>20 DEF MigrateOne, Running
  <2>2. Remembered' /\ (UNCHANGED <<disk, interrupted>> \/ interrupted')
    <3>1. CASE UNCHANGED <<disk, ledger>> /\ (interrupted' = interrupted \/ interrupted')
      BY <1>4, <2>1, <3>1 DEF Remembered
    <3>2. ASSUME Head(todo) # "run-manifest", NEW good \in BOOLEAN,
                 Save(Head(todo), "migrate", Unknown, good), interrupted'
          PROVE  Remembered'
      <4>1. Head(todo) \in {LegacyNames[i] : i \in 1..Len(LegacyNames)}
        BY <1>1, <1>20 DEF MigrateOne, TypeOK
      <4>2. Head(todo) \in Artifacts
        BY <3>2, <4>1 DEF LegacyNames, Artifacts
      <4>3. QED
        BY <1>1, <1>4, <2>1, <3>2, <4>2, SaveRemembered
    <3>3. QED
      BY <1>20, <3>1, <3>2 DEF MigrateOne
  <2>3. SidecarInv'
    BY <1>3, <2>1, <2>2, SidecarKept DEF SidecarInv
  <2>4. cmd # "run"
    BY <1>3, <2>1 DEF RunInv, Discovered, Planned, Approvable, Executed, Completed, Verified,
       Reported
  <2>5. QED
    BY <1>1, <1>3, <2>1, <2>2, <2>3, <2>4, ManifestKept, ExitKept DEF LifecycleInv, RunInv
<1>21. CASE EndMigration
  <2>1. /\ Running /\ pc = "migrate" /\ pc' = "idle"
        /\ UNCHANGED <<disk, ledger, checksum, n, cmd, interrupted>>
    BY <1>21 DEF EndMigration, End, Running, Published, Invocation
  <2>2. cmd # "run"
    BY <1>3, <2>1 DEF RunInv, Discovered, Planned, Approvable, Executed, Completed, Verified,
       Reported
  <2>3. Remembered'
    BY <1>4, <2>1 DEF Remembered
  <2>4. SidecarInv' /\ RunInv'
    BY <1>3, <2>1, SidecarKept DEF RunInv, Running
  <2>5. QED
    BY <1>1, <1>3, <2>1, <2>2, <2>3, <2>4, ManifestKept, ExitKept DEF LifecycleInv
<1>22. CASE UNCHANGED vars
  <2>1. UNCHANGED <<disk, ledger, manifest, checksum, n, cmd, override, pc, exit, interrupted>>
    BY <1>22 DEF vars, memory
  <2>2. QED
    BY <1>1, <1>3, <2>1 DEF LifecycleInv, SidecarInv, ManifestInv, Remembered, RunInv, Running,
       ExitZeroIsThisRun, Own, OwnPlanState, OwnExecutionState, ReadyIsEarned
<1>23. QED
  BY <1>5, <1>6, <1>7, <1>8, <1>9, <1>10, <1>11, <1>12, <1>13, <1>14, <1>15, <1>16, <1>17,
     <1>18, <1>19, <1>20, <1>21, <1>22 DEF Next

LEMMA AlwaysLifecycleInv == Spec => []LifecycleInv
<1>1. LifecycleInv /\ [Next]_vars => LifecycleInv'
  BY StepLifecycle
<1>2. QED
  BY InitLifecycle, <1>1, PTL DEF Spec

\* A full lifecycle that ends with exit code 0 speaks of itself from end to end, after
\* any number of invocations and interruptions (run_full_lifecycle of cli.py).
THEOREM SuccessIsThisRuns == Spec => []ExitZeroIsThisRun
<1>1. LifecycleInv => ExitZeroIsThisRun
  BY DEF LifecycleInv
<1>2. QED
  BY AlwaysLifecycleInv, <1>1, PTL

\* A manifest with its checksum lists what is on disk (generate_and_save_manifest).
THEOREM ManifestIsTrue == Spec => []ManifestDescribesDisk
<1>1. LifecycleInv => ManifestDescribesDisk
  BY DEF LifecycleInv, ManifestInv, ManifestDescribesDisk
<1>2. QED
  BY AlwaysLifecycleInv, <1>1, PTL

\* Artifacts and sidecars are of the same invocation unless one was stopped or legacy
\* files were imported (the saves of planning.py, execution.py, verification.py).
THEOREM SidecarsStayTogether == Spec => []SidecarsAgree
<1>1. LifecycleInv => SidecarsAgree
  BY DEF LifecycleInv, SidecarInv, SidecarsAgree, Running
<1>2. QED
  BY AlwaysLifecycleInv, <1>1, PTL

\* No escalated plan is executed without the override, whichever invocation made the
\* plan (execute of execution.py, run_full_lifecycle of cli.py).
THEOREM EscalationsAreApproved == Spec => []NoUnapprovedExecution
<1>1. LifecycleInv => NoUnapprovedExecution
  BY DEF LifecycleInv, SidecarInv, NoUnapprovedExecution
<1>2. QED
  BY AlwaysLifecycleInv, <1>1, PTL
=============================================================================
