---------------------------- MODULE Verification ----------------------------
(***************************************************************************)
(* Phase 4 of the runtime (src/runtime/verification.py),                   *)
(* VerificationPhase.execute: the scan for adversarial content and the     *)
(* trust gate it feeds, the three test runs, the other gates one after     *)
(* another, and the overall status decided from their results, with the    *)
(* process possibly killed in between.                                     *)
(*                                                                         *)
(* A gate's command appears by its exit status and by what it reports.     *)
(* The variables exits, found and unsearched record what really happened;  *)
(* the code sees results only, and what it makes of a report depends on    *)
(* the tool: see Counted.                                                  *)
(***************************************************************************)
EXTENDS Naturals, Sequences

CommandGates ==
  {"tests", "lint", "build", "type_check", "dependency_scan", "sast_scan", "iac_scan"}
Gates == CommandGates \cup {"secret_scan", "prompt_injection_scan"}

\* Commands of a gate on which nothing is decided: the test gate's run for
\* coverage and the terraform init before terraform validate.
Helpers == {"coverage", "terraform_init"}
Exits == {"none", "zero", "nonzero"}

\* What a gate's tools may report.  "linter" is any but ruff, "scanner" is gitleaks
\* or trufflehog, "audit" a vulnerability of one of the four severities that are
\* counted and "audit_other" one of another or in a form that is not understood.
ReportsOf(gate) ==
  CASE gate = "lint" -> {"ruff", "linter"}
    [] gate = "dependency_scan" -> {"audit", "audit_other"}
    [] gate = "sast_scan" -> {"bandit", "eslint"}
    [] gate = "iac_scan" -> {"iac"}
    [] gate = "secret_scan" -> {"secrets", "scanner"}
    [] gate = "prompt_injection_scan" -> {"threats"}
    [] OTHER -> {}

\* Tools whose output is read only if they exit with another status than 0.
ReadAfterFailure == {"linter", "eslint", "scanner", "audit_other"}

\* The order of execute() after the trust gate has allowed commands.
After == [tests |-> "lint", lint |-> "build", build |-> "type_check",
          type_check |-> "dependency_scan", dependency_scan |-> "sast_scan",
          sast_scan |-> "iac_scan", iac_scan |-> "secret_scan", secret_scan |-> "decide"]

Reasons == {"", "blocked", "unavailable", "not_applicable"}
Result == [executed : BOOLEAN,   \* "executed"
           status : Reasons,     \* "status", when not executed
           succeeded : BOOLEAN,  \* "command_succeeded" is not False
           ok : BOOLEAN,         \* what _gate_passed asks of this gate besides
           complete : BOOLEAN,   \* "complete" of the secret scan
           flaky : BOOLEAN]      \* "flaky_tests" is not empty
TestRun == [rc : 0..1, passed : 0..1, failed : 0..1, collected : 0..2]

VARIABLES
  pc,        \* the gate execute() comes to next, or where it ended
  strict,    \* --strict, or --risk-tolerance low
  allowed,   \* verdict of the execution trust gate
  results,   \* the gates' results so far
  runs,      \* the test runs so far
  exits,     \* history: exit status of each gate's checks and of the helpers
  found,     \* history: what the tools have reported
  unsearched, \* history: files the secret scan has not searched: "skipped" of those
             \* it was given, "left_out" by _project_files before
  sidecar,   \* numbers in execution-state.json: "before" or "after"
  verdict    \* overall_status in RUP_VERIFICATION.json, "old" before this run

evidence == <<exits, found, unsearched>>
vars == <<pc, strict, allowed, results, runs, evidence, sidecar, verdict>>

NotRun(reason) ==
  [executed |-> FALSE, status |-> reason, succeeded |-> TRUE, ok |-> FALSE,
   complete |-> FALSE, flaky |-> FALSE]
Ran(succeeded, ok) ==
  [executed |-> TRUE, status |-> "", succeeded |-> succeeded, ok |-> ok,
   complete |-> TRUE, flaky |-> FALSE]
NoResult == NotRun("")

Running == pc \notin {"refused", "done", "killed"}

\* The gate's step is over: its result, how its command really ended and what was
\* reported.
Note(gate, result, reported) ==
  /\ results' = [results EXCEPT ![gate] = result]
  /\ found' = found \cup reported
  /\ pc' = After[gate]
  /\ UNCHANGED <<strict, allowed, verdict>>

Conclude(gate, result, exit, reported) ==
  /\ Note(gate, result, reported)
  /\ exits' = [exits EXCEPT ![gate] = exit]

NothingElse == UNCHANGED <<runs, sidecar, unsearched>>

\* What counts of a report: all of some tools', only that of a failed command of others'.
Counted(rc, reported) == reported \ (IF rc = 0 THEN ReadAfterFailure ELSE {}) # {}

\* Commands that ran to their end have an exit status; 127 stands for an
\* executable that is not there.
Exit(rc) == IF rc = 127 THEN "none" ELSE IF rc = 0 THEN "zero" ELSE "nonzero"

-----------------------------------------------------------------------------
(* The trust gate. *)

\* execution_gate_status
Allowed(threats, allowExec, sandbox, isolated) ==
  ~(threats /\ ~allowExec) /\ ~(sandbox = "required" /\ ~isolated)

Refuse ==
  /\ pc = "start"
  /\ pc' = "refused"
  /\ UNCHANGED <<strict, allowed, results, runs, evidence, sidecar, verdict>>

\* The prompt-injection scan comes first; when commands may not run, their
\* gates are recorded as blocked and only the secret scan is left.
ScanContent ==
  /\ pc = "start"
  /\ \E threats, allowExec, isolated \in BOOLEAN,
        sandbox \in {"required", "preferred", "off"} :
       LET allow == Allowed(threats, allowExec, sandbox, isolated)
           scan == Ran(TRUE, ~threats)
       IN /\ allowed' = allow
          /\ results' = [g \in Gates |-> IF g = "prompt_injection_scan" THEN scan
                                         ELSE IF g \in CommandGates /\ ~allow
                                         THEN NotRun("blocked") ELSE NoResult]
          /\ found' = IF threats THEN {"threats"} ELSE {}
          /\ pc' = IF allow THEN "tests" ELSE "secret_scan"
  /\ UNCHANGED <<strict, runs, exits, unsearched, sidecar, verdict>>

-----------------------------------------------------------------------------
(* Tests. *)

CountsOneFailureMore(rc, passed, failed) ==
  [rc |-> rc,
   passed |-> IF passed = 0 /\ failed = 0 /\ rc = 0 THEN 1 ELSE passed,
   failed |-> IF rc # 0 THEN failed + 1 ELSE failed,
   collected |-> passed + failed]

\* _parse_test_counts: a runner without a summary counts as one test.
Counts(rc, passed, failed) ==
  [rc |-> rc,
   passed |-> IF passed = 0 /\ failed = 0 /\ rc = 0 THEN 1 ELSE passed,
   failed |-> IF failed = 0 /\ rc # 0 THEN 1 ELSE failed,
   collected |-> passed + failed]

AllPassed == \A i \in 1..Len(runs) : runs[i].rc = 0

FlakyExits == \E i, j \in 1..Len(runs) : runs[i].rc # runs[j].rc

\* Mixed exit statuses, or a count that differs between runs.
Flaky == \E i, j \in 1..Len(runs) : runs[i] # runs[j]

TestsUnavailable ==
  /\ pc = "tests" /\ runs = <<>>
  /\ Conclude("tests", NotRun("unavailable"), "none", {})
  /\ NothingElse

RunTests ==
  /\ pc = "tests" /\ Len(runs) < 3
  /\ \E rc, passed, failed \in 0..1 :
       /\ runs' = Append(runs, Counts(rc, passed, failed))
       /\ exits' = [exits EXCEPT !["tests"] =
                      IF rc # 0 \/ @ = "nonzero" THEN "nonzero" ELSE "zero"]
  /\ UNCHANGED <<pc, strict, allowed, results, found, unsearched, sidecar, verdict>>

\* Coverage is collected where the ecosystem and the tools allow it, by another run of
\* the tests: if that fails there is no number, and that is all.  The numbers after the
\* change are added to execution-state.json before the result is returned.
FinishTests ==
  /\ pc = "tests" /\ Len(runs) = 3
  /\ Note("tests", [Ran(AllPassed, AllPassed) EXCEPT !.flaky = Flaky], {})
  /\ \E coverage \in Exits : exits' = [exits EXCEPT !["coverage"] = coverage]
  /\ sidecar' = "after"
  /\ UNCHANGED <<runs, unsearched>>

-----------------------------------------------------------------------------
(* The other gates. *)

LintResultByCount(rc, reported) == Ran(TRUE, ~Counted(rc, reported))

\* Violations are counted in ruff's output whatever its exit status, in that of the
\* other linters only when they fail.
LintResult(rc, reported) == Ran(rc = 0, ~Counted(rc, reported))

Lint ==
  /\ pc = "lint"
  /\ \/ Conclude("lint", NotRun("unavailable"), "none", {})
     \/ \E rc \in {0, 1, 127}, reported \in {{}, {"ruff"}, {"linter"}} :
          /\ rc = 127 => reported = {}
          /\ Conclude("lint", LintResult(rc, reported), Exit(rc), reported)
  /\ NothingElse

Build ==
  /\ pc = "build"
  /\ \/ \E reason \in {"unavailable", "not_applicable"} :
          Conclude("build", NotRun(reason), "none", {})
     \/ \E rc \in {0, 1, 127} : Conclude("build", Ran(rc = 0, rc = 0), Exit(rc), {})
  /\ NothingElse

TypeCheck ==
  /\ pc = "type_check"
  /\ \/ Conclude("type_check", NotRun("unavailable"), "none", {})
     \/ \E rc \in {0, 1, 127} :
          Conclude("type_check", Ran(rc = 0, rc = 0), Exit(rc), {})
  /\ NothingElse

\* A scanner passes when it exits with 0 and reports nothing that counts.
ScanResult(rc, reported) == Ran(rc = 0, rc = 0 /\ ~Counted(rc, reported))

NotScanned(gate) ==
  \E reason \in {"unavailable", "not_applicable"} :
    Conclude(gate, NotRun(reason), "none", {})

DependencyScan ==
  /\ pc = "dependency_scan"
  /\ \/ NotScanned("dependency_scan")
     \/ \E rc \in {0, 1, 127}, reported \in SUBSET {"audit", "audit_other"} :
          /\ rc = 127 => reported = {}
          /\ Conclude("dependency_scan", ScanResult(rc, reported), Exit(rc), reported)
  /\ NothingElse

\* The tool was looked up just before.
SastScan ==
  /\ pc = "sast_scan"
  /\ \/ NotScanned("sast_scan")
     \/ \E rc \in {0, 1}, reported \in {{}, {"bandit"}, {"eslint"}} :
          Conclude("sast_scan", ScanResult(rc, reported), Exit(rc), reported)
  /\ NothingElse

\* _run_iac_validate: each operation that can run must succeed.  A failing
\* terraform init counts as executed and terraform validate as unavailable.
IacResult(tf, security, pulumi) ==
  IF tf = "no files" /\ pulumi = "no project" THEN NotRun("not_applicable")
  ELSE IF tf \in {"no files", "not installed"} /\ security = "unavailable"
          /\ pulumi \in {"no project", "not installed"} THEN NotRun("unavailable")
  ELSE LET failedAny == "fails" \in {tf, security, pulumi} \/ security = "reports"
       IN Ran(~failedAny, ~failedAny)

\* The scanner "reports" when it exits with 0 and lists something of medium severity
\* or above; what is below counts for nothing.
IacScan ==
  /\ pc = "iac_scan"
  /\ \E tf \in {"no files", "not installed", "init fails", "fails", "passes"},
        security \in {"unavailable", "fails", "reports", "passes"},
        pulumi \in {"no project", "not installed", "fails", "passes"} :
       LET checks == {tf, security, pulumi} IN
       /\ tf = "no files" => security = "unavailable"
       /\ Note("iac_scan", IacResult(tf, security, pulumi),
               IF security = "reports" THEN {"iac"} ELSE {})
       /\ exits' = [exits EXCEPT
            !["iac_scan"] = IF "fails" \in checks THEN "nonzero"
                            ELSE IF {"passes", "reports"} \cap checks # {} THEN "zero"
                            ELSE "none",
            !["terraform_init"] = IF tf = "init fails" THEN "nonzero"
                                  ELSE IF tf \in {"fails", "passes"} THEN "zero"
                                  ELSE "none"]
  /\ NothingElse

\* The built-in scan of the files that _project_files hands out, then gitleaks or
\* trufflehog when one is installed and starts.  The scan skips what is over 1 MB or
\* cannot be read and counts it; files over 5 MB, or whose size cannot be read, were
\* left out before and are not counted.
SecretScan ==
  /\ pc = "secret_scan"
  /\ \E reported \in SUBSET {"secrets", "scanner"}, external \in Exits,
        missed \in SUBSET {"skipped", "left_out"} :
       /\ external = "none" => "scanner" \notin reported
       /\ unsearched' = missed
       /\ Conclude("secret_scan",
                   [Ran(TRUE, "secrets" \notin reported /\ external # "nonzero")
                      EXCEPT !.complete = "skipped" \notin missed],
                   external, reported)
  /\ UNCHANGED <<runs, sidecar>>

-----------------------------------------------------------------------------
(* The status. *)

PassedThoughIncomplete(g) ==
  results[g].executed /\ results[g].succeeded /\ results[g].ok

\* _gate_passed
Passed(g) ==
  /\ results[g].executed /\ results[g].succeeded /\ results[g].ok
  /\ g = "secret_scan" /\ strict => results[g].complete

Failed == {g \in Gates : results[g].executed /\ ~Passed(g)}
Blocked == {g \in Gates : ~results[g].executed /\ results[g].status = "blocked"}
Unavailable ==
  {g \in Gates : ~results[g].executed /\ results[g].status \notin {"blocked", "not_applicable"}}

StatusWithoutBlocked ==
  IF Failed # {} THEN "failed"
  ELSE IF Unavailable # {} \/ results["tests"].flaky
  THEN IF strict THEN "failed" ELSE "passed_with_warnings"
  ELSE "passed"

\* _determine_status
Status ==
  IF Failed # {} \/ Blocked # {} THEN "failed"
  ELSE IF Unavailable # {} \/ results["tests"].flaky
  THEN IF strict THEN "failed" ELSE "passed_with_warnings"
  ELSE "passed"

\* RUP_VERIFICATION.json is saved once, at the end.
Decide ==
  /\ pc = "decide"
  /\ verdict' = Status
  /\ pc' = "done"
  /\ UNCHANGED <<strict, allowed, results, runs, evidence, sidecar>>

Kill ==
  /\ Running
  /\ pc' = "killed"
  /\ UNCHANGED <<strict, allowed, results, runs, evidence, sidecar, verdict>>

Init ==
  /\ pc = "start"
  /\ strict \in BOOLEAN
  /\ allowed = FALSE
  /\ results = [g \in Gates |-> NoResult]
  /\ runs = <<>>
  /\ exits = [g \in Gates \cup Helpers |-> "none"]
  /\ found = {} /\ unsearched = {}
  /\ sidecar = "before"
  /\ verdict = "old"

Next ==
  \/ Refuse \/ ScanContent
  \/ TestsUnavailable \/ RunTests \/ FinishTests
  \/ Lint \/ Build \/ TypeCheck \/ DependencyScan \/ SastScan \/ IacScan
  \/ SecretScan \/ Decide \/ Kill

Spec == Init /\ [][Next]_vars

-----------------------------------------------------------------------------
(* Properties. *)

\* Type invariant of the verification phase.
TypeOK ==
  /\ pc \in DOMAIN After \cup {"start", "decide", "refused", "done", "killed"}
  /\ strict \in BOOLEAN /\ allowed \in BOOLEAN
  /\ results \in [Gates -> Result]
  /\ runs \in Seq(TestRun) /\ Len(runs) <= 3
  /\ exits \in [Gates \cup Helpers -> Exits]
  /\ found \subseteq UNION {ReportsOf(g) : g \in Gates}
  /\ unsearched \subseteq {"skipped", "left_out"}
  /\ sidecar \in {"before", "after"}
  /\ verdict \in {"old", "passed", "passed_with_warnings", "failed"}

NotFailed == verdict \in {"passed", "passed_with_warnings"}

\* Three test runs that ended alike and with status 0 in the tests gate.
TestsAgree == Len(runs) = 3 /\ \A i \in 1..3 : runs[i] = runs[1] /\ runs[i].rc = 0

\* A run that is not reported as failed had no check with a nonzero exit status in any
\* gate and in any of the three test runs (_gate_passed, "an empty finding set or zero
\* violation count never implies command success"), and nothing was reported but by a
\* linter other than ruff, an ESLint or an external secret scanner that exited with 0,
\* or in a severity the dependency gate does not count: their reports the code does not
\* look at.  Nor does it look at how the coverage run and terraform init end.
NoFailureHidden ==
  NotFailed => found \subseteq ReadAfterFailure /\ \A g \in Gates : exits[g] # "nonzero"

\* "passed" is earned: the tests ran three times with the same outcome, and every
\* other gate ran a command, unless it does not apply (verification.py:10,
\* _determine_status).  The gate for infrastructure code is exempt: a terraform
\* init that fails counts as a command that ran (verification.py:1078).
PassedIsEarned ==
  verdict = "passed" =>
    /\ TestsAgree
    /\ \A g \in CommandGates \ {"iac_scan"} :
          exits[g] = "none" => results[g].status = "not_applicable"

\* In strict mode whatever is not failed has been tested, found stable, and no file
\* that was handed to the secret scan has been skipped; there are no warnings to read
\* (_gate_passed, _determine_status).  Of files that _project_files leaves out, over
\* 5 MB for one, nothing is promised: nothing counts them (verification.py:115).
StrictIsComplete ==
  strict /\ NotFailed => verdict = "passed" /\ TestsAgree /\ unsearched \subseteq {"left_out"}

\* When the trust gate refuses, no command of the repository ever runs, and the
\* run cannot end as anything but failed (execute, execution_gate_status).
NothingRunsWhenRefused ==
  ~allowed => /\ ~NotFailed /\ runs = <<>>
              /\ \A g \in CommandGates \cup Helpers : exits[g] = "none"
=============================================================================
