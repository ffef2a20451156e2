------------------------- MODULE VerificationProofs -------------------------
(***************************************************************************)
(* What the status of Verification promises, for every combination of gate *)
(* outcomes: a failure is never hidden, a pass is earned, strict mode      *)
(* leaves nothing open, and a refusal of the trust gate is final.          *)
(***************************************************************************)
EXTENDS Verification, TLAPS

-----------------------------------------------------------------------------
(* The inductive invariant: every result says what its evidence says. *)

\* A clean result of a gate rests on commands that succeeded and reported nothing,
\* unless the report is one that is not read.
Clean(g) == results[g].executed /\ results[g].succeeded /\ results[g].ok

Truthful ==
  \A g \in Gates :
    /\ Clean(g) => exits[g] # "nonzero" /\ ReportsOf(g) \cap found \subseteq ReadAfterFailure
    /\ Clean(g) /\ g \in CommandGates \ {"iac_scan"} => exits[g] = "zero"

\* A gate that has no result has left no evidence, but for the test runs so far.
Silent ==
  \A g \in Gates :
    ~results[g].executed =>
      /\ ReportsOf(g) \cap found = {}
      /\ exits[g] # "none" => g = "tests" /\ pc \in {"tests", "killed"}

\* Nor has a gate whose turn has not come reported anything.
Turn == [tests |-> 1, lint |-> 2, build |-> 3, type_check |-> 4, dependency_scan |-> 5,
         sast_scan |-> 6, iac_scan |-> 7, secret_scan |-> 8, decide |-> 9]
Upcoming ==
  pc \in DOMAIN Turn =>
    \A g \in DOMAIN After : Turn[g] >= Turn[pc] => ReportsOf(g) \cap found = {}

\* Nothing is reported that no gate can report.
Reported == found \subseteq UNION {ReportsOf(g) : g \in Gates}

\* The exit status recorded for the tests is that of all runs together.
RunsRecorded ==
  /\ AllPassed => exits["tests"] # "nonzero"
  /\ AllPassed /\ runs # <<>> => exits["tests"] = "zero"
  /\ runs = <<>> => exits["tests"] = "none"

\* A result of the tests gate stands for three runs.
TestsResult ==
  /\ results["tests"].status # "not_applicable"
  /\ results["tests"].executed =>
       /\ Len(runs) = 3
       /\ results["tests"].ok => AllPassed
       /\ ~results["tests"].flaky => ~Flaky

\* A secret scan that calls itself complete has skipped nothing it was given.
Searched ==
  results["secret_scan"].executed /\ results["secret_scan"].complete =>
    unsearched \subseteq {"left_out"}

\* A refusal leaves every command gate blocked and no evidence behind.
Refused ==
  ~allowed =>
    /\ runs = <<>>
    /\ \A g \in CommandGates \cup Helpers : exits[g] = "none"
    /\ pc \notin CommandGates
    /\ pc \in {"secret_scan", "decide"} =>
         \A g \in CommandGates : ~results[g].executed /\ results[g].status = "blocked"

\* Where the phase stands.
Progress ==
  /\ pc = "start" => ~allowed /\ runs = <<>> /\ \A g \in Gates : exits[g] = "none"
  /\ pc = "decide" => results["secret_scan"].executed
  /\ verdict # "old" => pc = "done"

Promises == NoFailureHidden /\ PassedIsEarned /\ StrictIsComplete /\ NothingRunsWhenRefused

EvidenceInv ==
  /\ TypeOK /\ Truthful /\ Silent /\ Upcoming /\ Reported /\ RunsRecorded /\ TestsResult
  /\ Searched /\ Refused /\ Progress /\ Promises

-----------------------------------------------------------------------------
LEMMA ResultTypes ==
  /\ \A b, ok \in BOOLEAN : Ran(b, ok) \in Result
  /\ \A r \in Reasons : NotRun(r) \in Result
BY DEF Ran, NotRun, Result, Reasons

\* What each gate may report.
LEMMA Reports ==
  /\ ReportsOf("tests") = {} /\ ReportsOf("build") = {} /\ ReportsOf("type_check") = {}
  /\ ReportsOf("lint") = {"ruff", "linter"}
  /\ ReportsOf("dependency_scan") = {"audit", "audit_other"}
  /\ ReportsOf("sast_scan") = {"bandit", "eslint"}
  /\ ReportsOf("iac_scan") = {"iac"}
  /\ ReportsOf("secret_scan") = {"secrets", "scanner"}
  /\ ReportsOf("prompt_injection_scan") = {"threats"}
BY DEF ReportsOf

\* No two gates report the same.
LEMMA ReportsApart ==
  ASSUME NEW g \in Gates, NEW h \in Gates, g # h
  PROVE  ReportsOf(g) \cap ReportsOf(h) = {}
BY Reports DEF Gates, CommandGates

\* A step that concludes a gate with a truthful result keeps the invariant.
LEMMA NoteKeeps ==
  ASSUME EvidenceInv,
         NEW gate \in DOMAIN After, NEW result \in Result, NEW reported \in SUBSET ReportsOf(gate),
         pc = gate, allowed \/ gate = "secret_scan",
         Note(gate, result, reported),
         exits' \in [Gates \cup Helpers -> Exits],
         \A g \in Gates \ {gate} : exits'[g] = exits[g],
         gate = "secret_scan" => \A g \in Helpers : exits'[g] = exits[g],
         runs' = runs, sidecar' \in {"before", "after"},
         unsearched' \subseteq {"skipped", "left_out"},
         gate # "secret_scan" => unsearched' = unsearched,
         result.executed /\ result.succeeded /\ result.ok =>
           /\ exits'[gate] # "nonzero" /\ reported \subseteq ReadAfterFailure
           /\ gate \in CommandGates \ {"iac_scan"} => exits'[gate] = "zero",
         ~result.executed => exits'[gate] = "none" /\ reported = {},
         gate = "tests" =>
           /\ exits'[gate] = exits[gate]
           /\ result.status # "not_applicable"
           /\ result.executed => /\ Len(runs) = 3 /\ (result.ok => AllPassed)
                                 /\ (~result.flaky => ~Flaky),
         gate = "secret_scan" =>
           /\ result.executed
           /\ result.complete => unsearched' \subseteq {"left_out"}
  PROVE  EvidenceInv'
<1> USE DEF EvidenceInv
<1>1. gate \in Gates /\ gate # "start" /\ gate # "done" /\ gate # "killed" /\ gate # "refused"
  BY DEF After, Gates, CommandGates
<1>2. /\ results' = [results EXCEPT ![gate] = result]
      /\ found' = found \cup reported
      /\ pc' = After[gate]
      /\ strict' = strict /\ allowed' = allowed /\ verdict' = verdict
  BY DEF Note
<1>3. results \in [Gates -> Result]
  BY DEF TypeOK
<1>4. /\ results'[gate] = result
      /\ \A g \in Gates \ {gate} : results'[g] = results[g] /\ exits'[g] = exits[g]
  BY <1>1, <1>2, <1>3
<1>5. gate \in DOMAIN Turn /\ Turn[gate] \in Nat
  BY DEF After, Turn
<1>6. ReportsOf(gate) \cap found = {}
  BY <1>5 DEF Upcoming
<1>7. /\ ReportsOf(gate) \cap found' = reported
      /\ \A g \in Gates \ {gate} : ReportsOf(g) \cap found' = ReportsOf(g) \cap found
  BY <1>1, <1>2, <1>6, ReportsApart
<1>8. verdict = "old" /\ verdict' = "old"
  BY <1>1, <1>2 DEF Progress
<1>9. pc' \in (DOMAIN After \cup {"decide"}) \ {"tests", "start", "done", "killed", "refused"}
  BY <1>2 DEF After
<1>10. Reported'
  BY <1>1, <1>2 DEF Reported
<1>11. TypeOK'
  BY <1>1, <1>2, <1>3, <1>9, <1>10 DEF TypeOK, Reported
<1>12. Truthful'
  BY <1>1, <1>4, <1>7 DEF Truthful, Clean
<1>13. Silent'
  BY <1>1, <1>4, <1>7, <1>9 DEF Silent
<1>14. Upcoming'
  <2>1. pc' \in DOMAIN Turn /\ Turn[pc'] = Turn[gate] + 1
    BY <1>2 DEF After, Turn
  <2>2. \A g \in DOMAIN After : g \in Gates /\ Turn[g] \in Nat
    BY DEF After, Turn, Gates, CommandGates
  <2>3. \A g \in DOMAIN After : Turn[g] >= Turn[pc'] => g # gate /\ Turn[g] >= Turn[pc]
    BY <1>5, <2>1, <2>2
  <2>4. QED
    BY <1>5, <1>7, <2>1, <2>2, <2>3 DEF Upcoming
<1>15. AllPassed' = AllPassed /\ Flaky' = Flaky
  BY DEF AllPassed, Flaky
<1>16. exits'["tests"] = exits["tests"]
  BY <1>4 DEF Gates, CommandGates
<1>17. RunsRecorded'
  BY <1>15, <1>16 DEF RunsRecorded
<1>18. TestsResult'
  BY <1>4, <1>15 DEF TestsResult, Gates, CommandGates
<1>19. Searched'
  BY <1>4 DEF Searched, Gates
<1>20. Refused'
  <2>1. SUFFICES ASSUME ~allowed PROVE Refused'
    BY <1>2 DEF Refused
  <2>2. gate = "secret_scan" /\ pc' = "decide"
    BY <1>2, <2>1 DEF After
  <2>3. \A g \in CommandGates : g \in Gates \ {gate}
    BY <2>2 DEF Gates, CommandGates
  <2>4. \A g \in CommandGates : results'[g] = results[g] /\ exits'[g] = exits[g]
    BY <1>4, <2>3
  <2>5. \A g \in CommandGates \cup Helpers : exits'[g] = "none"
    BY <2>1, <2>2, <2>4 DEF Refused
  <2>6. QED
    BY <2>1, <2>2, <2>4, <2>5 DEF Refused, CommandGates
<1>21. Progress'
  <2>1. \A g \in DOMAIN After : After[g] = "decide" => g = "secret_scan"
    BY DEF After
  <2>2. QED
    BY <1>2, <1>4, <1>8, <1>9, <2>1 DEF Progress
<1>22. Promises'
  BY <1>2, <1>8, <1>20 DEF Promises, NotFailed, NoFailureHidden, PassedIsEarned,
     StrictIsComplete, NothingRunsWhenRefused, Refused
<1>23. QED
  BY <1>10, <1>11, <1>12, <1>13, <1>14, <1>17, <1>18, <1>19, <1>20, <1>21, <1>22

\* The same of a step that records an exit status for its gate and no other.
LEMMA ConcludeKeeps ==
  ASSUME EvidenceInv,
         NEW gate \in DOMAIN After, NEW result \in Result, NEW exit \in Exits,
         NEW reported \in SUBSET ReportsOf(gate),
         pc = gate, allowed \/ gate = "secret_scan",
         Conclude(gate, result, exit, reported),
         runs' = runs, sidecar' \in {"before", "after"},
         unsearched' \subseteq {"skipped", "left_out"},
         gate # "secret_scan" => unsearched' = unsearched,
         result.executed /\ result.succeeded /\ result.ok =>
           /\ exit # "nonzero" /\ reported \subseteq ReadAfterFailure
           /\ gate \in CommandGates \ {"iac_scan"} => exit = "zero",
         ~result.executed => exit = "none" /\ reported = {},
         gate = "tests" => exit = exits[gate] /\ result.status # "not_applicable"
                           /\ ~result.executed,
         gate = "secret_scan" =>
           /\ result.executed
           /\ result.complete => unsearched' \subseteq {"left_out"}
  PROVE  EvidenceInv'
<1>1. exits \in [Gates \cup Helpers -> Exits]
  BY DEF EvidenceInv, TypeOK
<1>2. gate \in Gates /\ gate \notin Helpers
  BY DEF After, Gates, CommandGates, Helpers
<1>3. /\ exits' = [exits EXCEPT ![gate] = exit] /\ Note(gate, result, reported)
  BY DEF Conclude
<1>4. /\ exits' \in [Gates \cup Helpers -> Exits] /\ exits'[gate] = exit
      /\ \A g \in Gates \ {gate} : exits'[g] = exits[g]
      /\ \A g \in Helpers : exits'[g] = exits[g]
  BY <1>1, <1>2, <1>3
<1>5. QED
  BY <1>3, <1>4, NoteKeeps

\* The trust gate: before it nothing has run, after a refusal nothing will.
LEMMA ScanContentKeeps == EvidenceInv /\ ScanContent => EvidenceInv'
<1> SUFFICES ASSUME EvidenceInv, ScanContent PROVE EvidenceInv'
  OBVIOUS
<1> USE DEF EvidenceInv
<1>1. PICK threats \in BOOLEAN, allow \in BOOLEAN :
        /\ allowed' = allow
        /\ results' = [g \in Gates |-> IF g = "prompt_injection_scan" THEN Ran(TRUE, ~threats)
                                        ELSE IF g \in CommandGates /\ ~allow
                                        THEN NotRun("blocked") ELSE NoResult]
        /\ found' = IF threats THEN {"threats"} ELSE {}
        /\ pc' = IF allow THEN "tests" ELSE "secret_scan"
  BY DEF ScanContent, Allowed
<1>2. /\ pc = "start" /\ strict' = strict /\ runs' = runs /\ exits' = exits
      /\ sidecar' = sidecar /\ verdict' = verdict /\ unsearched' = unsearched
  BY DEF ScanContent
<1>3. /\ runs = <<>> /\ verdict = "old"
      /\ \A g \in CommandGates \cup Helpers : exits[g] = "none"
      /\ \A g \in Gates : exits[g] = "none"
  BY <1>2 DEF Progress, Refused
<1>4. /\ \A g \in CommandGates : g \in Gates /\ g # "prompt_injection_scan"
      /\ "secret_scan" \notin CommandGates /\ "tests" \in CommandGates
      /\ "prompt_injection_scan" \in Gates
  BY DEF Gates, CommandGates
<1>5. \A g \in Gates :
        /\ g # "prompt_injection_scan" => ~results'[g].executed /\ ReportsOf(g) \cap found' = {}
        /\ g = "prompt_injection_scan" =>
             results'[g].executed /\ (results'[g].ok => found' = {})
  <2>1. "threats" \in ReportsOf("prompt_injection_scan")
    BY Reports
  <2>2. \A g \in Gates : g # "prompt_injection_scan" => "threats" \notin ReportsOf(g)
    BY <1>4, <2>1, ReportsApart
  <2>3. QED
    BY <1>1, <2>2 DEF Ran, NotRun, NoResult
<1>6. results' \in [Gates -> Result]
  <2>1. Ran(TRUE, ~threats) \in Result /\ NotRun("blocked") \in Result /\ NoResult \in Result
    BY ResultTypes DEF NoResult, Reasons
  <2>2. QED
    BY <1>1, <2>1
<1>7. TypeOK' /\ Reported' /\ Upcoming'
  <2>1. "threats" \in ReportsOf("prompt_injection_scan")
    BY Reports
  <2>2. Reported'
    BY <1>1, <1>4, <2>1 DEF Reported
  <2>3. TypeOK'
    BY <1>1, <1>2, <1>4, <1>6, <2>2 DEF TypeOK, After, Reported
  <2>4. \A g \in DOMAIN After : g \in Gates /\ g # "prompt_injection_scan"
    BY DEF After, Gates, CommandGates
  <2>5. QED
    BY <1>5, <2>2, <2>3, <2>4 DEF Upcoming
<1>8. Truthful' /\ Silent'
  BY <1>2, <1>3, <1>4, <1>5 DEF Truthful, Silent, Clean
<1>9. RunsRecorded'
  BY <1>2, <1>3, <1>4 DEF RunsRecorded
<1>10. TestsResult' /\ Searched'
  BY <1>1, <1>4, <1>5 DEF TestsResult, Searched, Gates, NotRun, NoResult
<1>11. Refused'
  BY <1>1, <1>2, <1>3, <1>4 DEF Refused, NotRun
<1>12. Progress'
  BY <1>1, <1>2, <1>3 DEF Progress
<1>13. Promises'
  BY <1>2, <1>3, <1>11 DEF Promises, NotFailed, NoFailureHidden, PassedIsEarned,
     StrictIsComplete, NothingRunsWhenRefused, Refused
<1>14. QED
  BY <1>7, <1>8, <1>9, <1>10, <1>11, <1>12, <1>13

\* One more test run: the recorded exit status stays that of all runs.
LEMMA RunTestsKeeps == EvidenceInv /\ RunTests => EvidenceInv'
<1> SUFFICES ASSUME EvidenceInv, RunTests PROVE EvidenceInv'
  OBVIOUS
<1> USE DEF EvidenceInv
<1>1. PICK r \in TestRun :
        /\ runs' = Append(runs, r)
        /\ exits' = [exits EXCEPT !["tests"] =
                       IF r.rc # 0 \/ @ = "nonzero" THEN "nonzero" ELSE "zero"]
  <2>1. \A rc, passed, failed \in 0..1 :
          Counts(rc, passed, failed) \in TestRun /\ Counts(rc, passed, failed).rc = rc
    BY DEF Counts, TestRun
  <2>2. PICK rc \in 0..1, passed \in 0..1, failed \in 0..1 :
          /\ runs' = Append(runs, Counts(rc, passed, failed))
          /\ exits' = [exits EXCEPT !["tests"] =
                         IF rc # 0 \/ @ = "nonzero" THEN "nonzero" ELSE "zero"]
    BY DEF RunTests
  <2> DEFINE r == Counts(rc, passed, failed)
  <2>4. r \in TestRun /\ r.rc = rc
    BY <2>1
  <2> HIDE DEF r
  <2>5. exits' = [exits EXCEPT !["tests"] =
                    IF r.rc # 0 \/ @ = "nonzero" THEN "nonzero" ELSE "zero"]
    BY <2>2, <2>4
  <2>6. runs' = Append(runs, r)
    BY <2>2 DEF r
  <2>7. QED
    BY <2>4, <2>5, <2>6
<1>2. /\ pc = "tests" /\ pc' = pc /\ strict' = strict /\ allowed' = allowed
      /\ results' = results /\ found' = found
      /\ sidecar' = sidecar /\ verdict' = verdict /\ unsearched' = unsearched /\ Len(runs) < 3
  BY DEF RunTests
<1>3. allowed /\ verdict = "old"
  BY <1>2 DEF Refused, Progress, CommandGates
<1>4. /\ runs \in Seq(TestRun) /\ exits \in [Gates \cup Helpers -> Exits]
      /\ "tests" \in Gates \cup Helpers /\ "tests" \in Gates
  BY DEF TypeOK, Gates, CommandGates
<1>5. /\ runs' \in Seq(TestRun) /\ Len(runs') = Len(runs) + 1 /\ runs' # <<>>
      /\ runs'[Len(runs) + 1] = r
      /\ \A i \in 1..Len(runs) : runs'[i] = runs[i]
  BY <1>1, <1>4
<1>6. /\ exits' \in [Gates \cup Helpers -> Exits]
      /\ exits'["tests"] = IF r.rc # 0 \/ exits["tests"] = "nonzero" THEN "nonzero" ELSE "zero"
      /\ \A g \in Gates \ {"tests"} : exits'[g] = exits[g]
  <2>1. "zero" \in Exits /\ "nonzero" \in Exits
    BY DEF Exits
  <2>2. QED
    BY <1>1, <1>4, <2>1
<1>7. ~results["tests"].executed
  BY <1>2 DEF TestsResult
<1>8. TypeOK'
  BY <1>2, <1>5, <1>6 DEF TypeOK
<1>9. Truthful' /\ Silent' /\ Upcoming' /\ Reported' /\ Searched'
  BY <1>2, <1>6, <1>7 DEF Truthful, Silent, Upcoming, Reported, Searched, Clean
<1>10. RunsRecorded'
  <2>1. Len(runs) \in Nat
    BY <1>4
  <2>2. AllPassed' => AllPassed /\ r.rc = 0
    BY <1>5, <2>1 DEF AllPassed
  <2>3. QED
    BY <1>5, <1>6, <2>2 DEF RunsRecorded
<1>11. TestsResult' /\ Refused' /\ Progress'
  BY <1>2, <1>3, <1>7 DEF TestsResult, Refused, Progress
<1>12. Promises'
  BY <1>2, <1>3 DEF Promises, NotFailed, NoFailureHidden, PassedIsEarned,
     StrictIsComplete, NothingRunsWhenRefused
<1>13. QED
  BY <1>8, <1>9, <1>10, <1>11, <1>12

\* The gates whose result is concluded in one step.
LEMMA GatesKeep ==
  EvidenceInv /\ (\/ TestsUnavailable \/ FinishTests \/ Lint \/ Build \/ TypeCheck
                  \/ DependencyScan \/ SastScan \/ IacScan \/ SecretScan)
    => EvidenceInv'
<1> SUFFICES ASSUME EvidenceInv,
                    \/ TestsUnavailable \/ FinishTests \/ Lint \/ Build \/ TypeCheck
                    \/ DependencyScan \/ SastScan \/ IacScan \/ SecretScan
             PROVE  EvidenceInv'
  OBVIOUS
<1>1. /\ sidecar \in {"before", "after"} /\ unsearched \subseteq {"skipped", "left_out"}
      /\ exits \in [Gates \cup Helpers -> Exits]
  BY DEF EvidenceInv, TypeOK
<1>2. pc \in CommandGates => allowed
  BY DEF EvidenceInv, Refused
<1>3. \A rc \in {0, 1, 127} :
        /\ Exit(rc) \in Exits
        /\ rc = 0 <=> Exit(rc) = "zero"
  BY DEF Exit, Exits
<1>4. CommandGates \cup {"secret_scan"} = DOMAIN After
  BY DEF After, CommandGates
<1>5. \A reason \in Reasons : NotRun(reason) \in Result /\ ~NotRun(reason).executed
  BY ResultTypes DEF NotRun
<1>6. \A succeeded, ok \in BOOLEAN :
        /\ Ran(succeeded, ok) \in Result /\ Ran(succeeded, ok).executed
        /\ Ran(succeeded, ok).succeeded = succeeded /\ Ran(succeeded, ok).ok = ok
  BY ResultTypes DEF Ran
<1>7. ASSUME NEW gate \in DOMAIN After \ {"tests", "secret_scan"}, pc = gate,
             NEW reason \in {"unavailable", "not_applicable"},
             Conclude(gate, NotRun(reason), "none", {}), NothingElse
      PROVE  EvidenceInv'
  <2>1. "none" \in Exits /\ {} \in SUBSET ReportsOf(gate) /\ reason \in Reasons
    BY DEF Exits, Reasons
  <2>2. QED
    BY <1>1, <1>2, <1>4, <1>5, <1>7, <2>1, ConcludeKeeps DEF NothingElse
<1>8. ASSUME NEW gate \in DOMAIN After \ {"tests", "secret_scan"}, pc = gate,
             NEW rc \in {0, 1, 127}, NEW reported \in SUBSET ReportsOf(gate),
             NEW ok \in BOOLEAN, rc = 0 /\ ok => ~Counted(rc, reported),
             Conclude(gate, Ran(rc = 0, ok), Exit(rc), reported), NothingElse
      PROVE  EvidenceInv'
  <2> DEFINE succeeded == rc = 0
  <2>1. succeeded \in BOOLEAN /\ (succeeded => Exit(rc) = "zero")
    BY <1>3
  <2>2. succeeded /\ ok => reported \subseteq ReadAfterFailure
    BY <1>8 DEF Counted
  <2>3. Conclude(gate, Ran(succeeded, ok), Exit(rc), reported)
    BY <1>8
  <2> HIDE DEF succeeded
  <2>4. QED
    BY <1>1, <1>2, <1>3, <1>4, <1>6, <1>8, <2>1, <2>2, <2>3, ConcludeKeeps DEF NothingElse
<1>9. CASE TestsUnavailable
  <2>1. exits["tests"] = "none"
    BY <1>9 DEF TestsUnavailable, EvidenceInv, RunsRecorded
  <2> DEFINE result == NotRun("unavailable")
  <2>2. result.status # "not_applicable" /\ result \in Result /\ ~result.executed
    BY <1>5 DEF NotRun, Reasons
  <2>3. pc = "tests" /\ Conclude("tests", result, "none", {}) /\ NothingElse
    BY <1>9 DEF TestsUnavailable
  <2>4. /\ "tests" \in CommandGates /\ "tests" \in DOMAIN After /\ "none" \in Exits
        /\ {} \in SUBSET ReportsOf("tests")
    BY <1>4 DEF CommandGates, Exits
  <2> HIDE DEF result
  <2>5. QED
    BY <1>1, <1>2, <2>1, <2>2, <2>3, <2>4, ConcludeKeeps DEF NothingElse
<1>10. CASE FinishTests
  <2> DEFINE result == [Ran(AllPassed, AllPassed) EXCEPT !.flaky = Flaky]
  <2>1. PICK coverage \in Exits :
          /\ pc = "tests" /\ Len(runs) = 3 /\ runs' = runs /\ unsearched' = unsearched
          /\ sidecar' = "after" /\ Note("tests", result, {})
          /\ exits' = [exits EXCEPT !["coverage"] = coverage]
    BY <1>10 DEF FinishTests
  <2>2. AllPassed \in BOOLEAN /\ Flaky \in BOOLEAN
    BY DEF AllPassed, Flaky
  <2>3. /\ result \in Result /\ result.executed /\ result.status = ""
        /\ result.ok = AllPassed /\ result.flaky = Flaky
    BY <2>2 DEF Ran, Result, Reasons
  <2>4. AllPassed => exits["tests"] = "zero"
    BY <2>1 DEF EvidenceInv, RunsRecorded
  <2>5. "tests" \in CommandGates /\ "coverage" \in Helpers /\ \A g \in Gates : g # "coverage"
    BY DEF Gates, CommandGates, Helpers
  <2>6. exits' \in [Gates \cup Helpers -> Exits] /\ \A g \in Gates : exits'[g] = exits[g]
    BY <1>1, <2>1, <2>5
  <2>7. "tests" \in DOMAIN After /\ "tests" \in Gates /\ allowed
    BY <1>2, <1>4, <2>1, <2>5 DEF Gates
  <2> HIDE DEF result
  <2>8. QED
    BY <1>1, <2>1, <2>3, <2>4, <2>5, <2>6, <2>7, NoteKeeps
<1>11. CASE Lint
  <2>1. pc = "lint" /\ "lint" \in DOMAIN After \ {"tests", "secret_scan"} /\ NothingElse
    BY <1>4, <1>11 DEF Lint, CommandGates
  <2>2. CASE Conclude("lint", NotRun("unavailable"), "none", {})
    BY <1>7, <2>1, <2>2
  <2>3. CASE \E rc \in {0, 1, 127}, reported \in {{}, {"ruff"}, {"linter"}} :
               /\ rc = 127 => reported = {}
               /\ Conclude("lint", LintResult(rc, reported), Exit(rc), reported)
    <3>1. PICK rc \in {0, 1, 127}, reported \in {{}, {"ruff"}, {"linter"}} :
            Conclude("lint", LintResult(rc, reported), Exit(rc), reported)
      BY <2>3
    <3>2. reported \in SUBSET ReportsOf("lint")
      BY Reports
    <3> DEFINE ok == ~Counted(rc, reported)
    <3>3. ok \in BOOLEAN /\ Conclude("lint", Ran(rc = 0, ok), Exit(rc), reported)
      BY <3>1 DEF LintResult, Counted
    <3>4. rc = 0 /\ ok => ~Counted(rc, reported)
      OBVIOUS
    <3> HIDE DEF ok
    <3>5. QED
      BY <1>8, <2>1, <3>2, <3>3, <3>4
  <2>4. QED
    BY <1>11, <2>2, <2>3 DEF Lint
<1>12. ASSUME NEW gate \in {"build", "type_check"}, pc = gate, NEW rc \in {0, 1, 127},
              Conclude(gate, Ran(rc = 0, rc = 0), Exit(rc), {}), NothingElse
       PROVE  EvidenceInv'
  <2> DEFINE ok == rc = 0
  <2>1. ok \in BOOLEAN /\ Conclude(gate, Ran(rc = 0, ok), Exit(rc), {})
    BY <1>12
  <2>2. ~Counted(rc, {}) /\ {} \in SUBSET ReportsOf(gate)
    BY DEF Counted
  <2>3. gate \in DOMAIN After \ {"tests", "secret_scan"}
    BY <1>4 DEF CommandGates
  <2> HIDE DEF ok
  <2>4. QED
    BY <1>8, <1>12, <2>1, <2>2, <2>3
<1>13. ASSUME NEW gate \in {"dependency_scan", "sast_scan"}, pc = gate, NEW rc \in {0, 1, 127},
              NEW reported \in SUBSET ReportsOf(gate),
              Conclude(gate, ScanResult(rc, reported), Exit(rc), reported), NothingElse
       PROVE  EvidenceInv'
  <2> DEFINE ok == rc = 0 /\ ~Counted(rc, reported)
  <2>1. ok \in BOOLEAN /\ Conclude(gate, Ran(rc = 0, ok), Exit(rc), reported)
    BY <1>13 DEF ScanResult
  <2>2. ok => ~Counted(rc, reported)
    OBVIOUS
  <2>3. gate \in DOMAIN After \ {"tests", "secret_scan"}
    BY <1>4 DEF CommandGates
  <2> HIDE DEF ok
  <2>4. QED
    BY <1>8, <1>13, <2>1, <2>2, <2>3
<1>14. ASSUME NEW gate \in DOMAIN After \ {"tests", "secret_scan"}, pc = gate,
              NotScanned(gate), NothingElse
       PROVE  EvidenceInv'
  BY <1>7, <1>14 DEF NotScanned
<1>15. CASE Build
  BY <1>4, <1>7, <1>12, <1>15 DEF Build, CommandGates
<1>16. CASE TypeCheck
  BY <1>4, <1>7, <1>12, <1>16 DEF TypeCheck, CommandGates
<1>17. CASE DependencyScan
  BY <1>4, <1>13, <1>14, <1>17, Reports DEF DependencyScan, CommandGates
<1>18. CASE SastScan
  BY <1>4, <1>13, <1>14, <1>18, Reports DEF SastScan, CommandGates
<1>19. CASE IacScan
  <2>1. PICK tf \in {"no files", "not installed", "init fails", "fails", "passes"},
             security \in {"unavailable", "fails", "reports", "passes"},
             pulumi \in {"no project", "not installed", "fails", "passes"} :
          LET checks == {tf, security, pulumi} IN
          /\ tf = "no files" => security = "unavailable"
          /\ Note("iac_scan", IacResult(tf, security, pulumi),
                  IF security = "reports" THEN {"iac"} ELSE {})
          /\ exits' = [exits EXCEPT
               !["iac_scan"] = IF "fails" \in checks THEN "nonzero"
                               ELSE IF {"passes", "reports"} \cap checks # {} THEN "zero"
                               ELSE "none",
               !["terraform_init"] = IF tf = "init fails" THEN "nonzero"
                                     ELSE IF tf \in {"fails", "passes"} THEN "zero"
                                     ELSE "none"]
    BY <1>19 DEF IacScan
  <2> DEFINE result == IacResult(tf, security, pulumi)
             checks == {tf, security, pulumi}
             exit == IF "fails" \in checks THEN "nonzero"
                     ELSE IF {"passes", "reports"} \cap checks # {} THEN "zero" ELSE "none"
             init == IF tf = "init fails" THEN "nonzero"
                     ELSE IF tf \in {"fails", "passes"} THEN "zero" ELSE "none"
             reported == IF security = "reports" THEN {"iac"} ELSE {}
  <2>2. result \in Result
    BY <1>5, <1>6 DEF IacResult, Reasons
  <2>3. result.executed /\ result.succeeded => exit # "nonzero" /\ reported = {}
    BY <1>5, <1>6 DEF IacResult, Reasons
  <2>4. ~result.executed => exit = "none" /\ reported = {}
    BY <1>6, <2>1 DEF IacResult
  <2>5. exit \in Exits /\ init \in Exits
    BY DEF Exits
  <2>6. reported \in SUBSET ReportsOf("iac_scan")
    BY Reports
  <2>7. /\ pc = "iac_scan" /\ runs' = runs /\ sidecar' = sidecar /\ unsearched' = unsearched
        /\ Note("iac_scan", result, reported)
        /\ exits' = [exits EXCEPT !["iac_scan"] = exit, !["terraform_init"] = init]
    BY <1>19, <2>1 DEF IacScan, NothingElse
  <2>8. /\ "iac_scan" \in CommandGates /\ "iac_scan" \in Gates /\ "terraform_init" \in Helpers
        /\ \A g \in Gates : g # "terraform_init"
    BY DEF Gates, CommandGates, Helpers
  <2> HIDE DEF result, exit, init, reported
  <2>9. /\ exits' \in [Gates \cup Helpers -> Exits] /\ exits'["iac_scan"] = exit
        /\ \A g \in Gates \ {"iac_scan"} : exits'[g] = exits[g]
    BY <1>1, <2>5, <2>7, <2>8
  <2>10. "iac_scan" \in DOMAIN After /\ allowed
    BY <1>2, <1>4, <2>7, <2>8
  <2>11. QED
    BY <1>1, <2>2, <2>3, <2>4, <2>6, <2>7, <2>9, <2>10, NoteKeeps
<1>20. CASE SecretScan
  <2>1. PICK reported \in SUBSET {"secrets", "scanner"}, external \in Exits,
             missed \in SUBSET {"skipped", "left_out"} :
          /\ external = "none" => "scanner" \notin reported
          /\ unsearched' = missed
          /\ Conclude("secret_scan",
                      [Ran(TRUE, "secrets" \notin reported /\ external # "nonzero")
                         EXCEPT !.complete = "skipped" \notin missed],
                      external, reported)
    BY <1>20 DEF SecretScan
  <2> DEFINE result == [Ran(TRUE, "secrets" \notin reported /\ external # "nonzero")
                          EXCEPT !.complete = "skipped" \notin missed]
  <2>2. /\ result \in Result /\ result.executed
        /\ result.ok <=> "secrets" \notin reported /\ external # "nonzero"
        /\ result.complete <=> "skipped" \notin missed
    BY DEF Ran, Result, Reasons
  <2>3. result.ok => reported \subseteq ReadAfterFailure
    BY <2>2 DEF ReadAfterFailure
  <2>4. result.complete => unsearched' \subseteq {"left_out"}
    BY <2>1, <2>2
  <2>5. /\ pc = "secret_scan" /\ runs' = runs /\ sidecar' = sidecar
        /\ Conclude("secret_scan", result, external, reported)
    BY <1>20, <2>1 DEF SecretScan
  <2>6. /\ "secret_scan" \notin CommandGates /\ "secret_scan" \in DOMAIN After
        /\ reported \in SUBSET ReportsOf("secret_scan")
    BY <1>4, Reports DEF CommandGates
  <2>7. unsearched' \subseteq {"skipped", "left_out"}
    BY <2>1
  <2> HIDE DEF result
  <2>8. QED
    BY <1>1, <2>2, <2>3, <2>4, <2>5, <2>6, <2>7, ConcludeKeeps
<1>21. QED
  BY <1>9, <1>10, <1>11, <1>15, <1>16, <1>17, <1>18, <1>19, <1>20

\* The status is decided from results that say what their evidence says.
LEMMA DecideKeeps == EvidenceInv /\ Decide => EvidenceInv'
<1> SUFFICES ASSUME EvidenceInv, Decide PROVE EvidenceInv'
  OBVIOUS
<1> USE DEF EvidenceInv
<1>1. /\ pc = "decide" /\ pc' = "done" /\ verdict' = Status
      /\ strict' = strict /\ allowed' = allowed /\ results' = results /\ runs' = runs
      /\ exits' = exits /\ found' = found /\ unsearched' = unsearched /\ sidecar' = sidecar
  BY DEF Decide, evidence
<1>2. /\ "tests" \in CommandGates /\ "tests" \in Gates /\ "secret_scan" \in Gates
      /\ CommandGates \subseteq Gates /\ "decide" \notin CommandGates
  BY DEF Gates, CommandGates
<1>3. results \in [Gates -> Result] /\ runs \in Seq(TestRun)
  BY DEF TypeOK
<1>4. verdict' \in {"passed", "passed_with_warnings", "failed"}
  BY <1>1 DEF Status
<1>5. TypeOK'
  BY <1>1, <1>4 DEF TypeOK
<1>6. /\ Truthful' /\ Silent' /\ Upcoming' /\ Reported' /\ RunsRecorded' /\ TestsResult'
      /\ Searched' /\ Refused' /\ Progress'
  <2>1. Truthful' /\ Silent' /\ Upcoming' /\ Reported' /\ Searched'
    BY <1>1 DEF Truthful, Silent, Upcoming, Turn, Reported, Searched, Clean
  <2>2. RunsRecorded' /\ TestsResult'
    BY <1>1 DEF RunsRecorded, TestsResult, AllPassed, Flaky
  <2>3. Refused' /\ Progress'
    BY <1>1, <1>2 DEF Refused, Progress, CommandGates
  <2>4. QED
    BY <2>1, <2>2, <2>3
<1>7. ASSUME NotFailed'
      PROVE  /\ \A g \in Gates : results[g].executed => Passed(g)
             /\ \A g \in Gates : ~results[g].executed => results[g].status # "blocked"
             /\ strict \/ verdict' = "passed" =>
                  /\ Unavailable = {} /\ ~results["tests"].flaky /\ verdict' = "passed"
  BY <1>1, <1>7 DEF NotFailed, Status, Failed, Blocked
<1>8. NoFailureHidden'
  <2> SUFFICES ASSUME NotFailed'
               PROVE  found \subseteq ReadAfterFailure /\ \A g \in Gates : exits[g] # "nonzero"
    BY <1>1 DEF NoFailureHidden
  <2>1. ASSUME NEW g \in Gates
        PROVE  ReportsOf(g) \cap found \subseteq ReadAfterFailure /\ exits[g] # "nonzero"
    <3>1. CASE results[g].executed
      BY <1>7, <3>1 DEF Passed, Truthful, Clean
    <3>2. CASE ~results[g].executed
      BY <1>1, <3>2 DEF Silent
    <3>3. QED
      BY <3>1, <3>2
  <2>2. QED
    BY <2>1 DEF Reported
<1>9. ASSUME NotFailed', strict \/ verdict' = "passed" PROVE TestsAgree'
  <2>1. Unavailable = {} /\ ~results["tests"].flaky
    BY <1>7, <1>9
  <2>2. results["tests"].executed
    BY <1>2, <1>7, <1>9, <2>1 DEF Unavailable, TestsResult
  <2>3. results["tests"].ok
    BY <1>2, <1>7, <1>9, <2>2 DEF Passed
  <2>4. Len(runs) = 3 /\ AllPassed /\ ~Flaky
    BY <2>1, <2>2, <2>3 DEF TestsResult
  <2>5. QED
    BY <1>1, <2>4 DEF TestsAgree, AllPassed, Flaky
<1>10. PassedIsEarned'
  <2> SUFFICES ASSUME verdict' = "passed", NEW g \in CommandGates \ {"iac_scan"}, exits[g] = "none"
               PROVE  results[g].status = "not_applicable"
    BY <1>1, <1>9 DEF PassedIsEarned, NotFailed
  <2>1. NotFailed'
    BY DEF NotFailed
  <2>2. ~results[g].executed
    BY <1>2, <1>7, <2>1 DEF Passed, Truthful, Clean
  <2>3. g \notin Unavailable /\ results[g].status # "blocked"
    BY <1>2, <1>7, <2>1, <2>2
  <2>4. QED
    BY <1>2, <2>2, <2>3 DEF Unavailable
<1>11. StrictIsComplete'
  <2> SUFFICES ASSUME strict, NotFailed'
               PROVE  verdict' = "passed" /\ TestsAgree' /\ unsearched \subseteq {"left_out"}
    BY <1>1 DEF StrictIsComplete
  <2>1. results["secret_scan"].executed
    BY <1>1 DEF Progress
  <2>2. QED
    BY <1>2, <1>7, <1>9, <2>1 DEF Passed, Searched
<1>12. NothingRunsWhenRefused'
  <2> SUFFICES ASSUME ~allowed PROVE ~NotFailed'
    BY <1>1, <1>6 DEF NothingRunsWhenRefused, Refused
  <2>1. ~results["tests"].executed /\ results["tests"].status = "blocked"
    BY <1>1, <1>2 DEF Refused
  <2>2. QED
    BY <1>2, <1>7, <2>1
<1>13. QED
  BY <1>5, <1>6, <1>8, <1>10, <1>11, <1>12 DEF Promises

LEMMA Initially == Init => EvidenceInv
<1> SUFFICES ASSUME Init PROVE EvidenceInv
  OBVIOUS
<1>1. NoResult \in Result /\ ~NoResult.executed /\ NoResult.status = ""
  BY ResultTypes DEF NoResult, NotRun, Reasons
<1>2. "tests" \in Gates /\ CommandGates \subseteq Gates
  BY DEF Gates, CommandGates
<1>3. TypeOK
  <2>1. runs \in Seq(TestRun) /\ Len(runs) <= 3
    BY DEF Init
  <2>2. results \in [Gates -> Result] /\ exits \in [Gates \cup Helpers -> Exits]
    BY <1>1 DEF Init, Exits
  <2>3. QED
    BY <2>1, <2>2 DEF Init, TypeOK
<1>4. Truthful /\ Silent /\ Upcoming /\ Reported /\ RunsRecorded /\ TestsResult /\ Searched
      /\ Progress
  BY <1>1, <1>2 DEF Init, Truthful, Silent, Upcoming, Reported, RunsRecorded, TestsResult,
     Searched, Progress, Clean
<1>5. Refused /\ Promises
  BY <1>2 DEF Init, Refused, CommandGates, Promises, NotFailed, NoFailureHidden,
     PassedIsEarned, StrictIsComplete, NothingRunsWhenRefused
<1>6. QED
  BY <1>3, <1>4, <1>5 DEF EvidenceInv

LEMMA EvidenceStep == EvidenceInv /\ [Next]_vars => EvidenceInv'
<1> SUFFICES ASSUME EvidenceInv, [Next]_vars PROVE EvidenceInv'
  OBVIOUS
<1>1. CASE Refuse \/ Kill
  <2>1. /\ verdict = "old" /\ verdict' = verdict /\ pc' \in {"refused", "killed"}
        /\ strict' = strict /\ allowed' = allowed /\ results' = results /\ runs' = runs
        /\ exits' = exits /\ found' = found /\ unsearched' = unsearched /\ sidecar' = sidecar
        /\ pc # "refused" /\ pc # "killed" /\ (pc' = "refused" => pc = "start")
    BY <1>1 DEF Refuse, Kill, evidence, Running, EvidenceInv, Progress
  <2>2. TypeOK'
    BY <2>1 DEF EvidenceInv, TypeOK
  <2>3. /\ Truthful' /\ Upcoming' /\ Reported' /\ RunsRecorded' /\ TestsResult' /\ Searched'
        /\ Progress'
    BY <2>1 DEF EvidenceInv, Truthful, Upcoming, Turn, Reported, RunsRecorded, TestsResult,
       Searched, Progress, Clean, AllPassed, Flaky
  <2>4. Silent'
    BY <2>1 DEF EvidenceInv, Silent, Progress
  <2>5. Refused' /\ Promises'
    BY <2>1 DEF EvidenceInv, Refused, CommandGates, Promises, NotFailed, NoFailureHidden,
       PassedIsEarned, StrictIsComplete, NothingRunsWhenRefused
  <2>6. QED
    BY <2>2, <2>3, <2>4, <2>5 DEF EvidenceInv
<1>2. CASE ScanContent
  BY <1>2, ScanContentKeeps
<1>3. CASE RunTests
  BY <1>3, RunTestsKeeps
<1>4. CASE \/ TestsUnavailable \/ FinishTests \/ Lint \/ Build \/ TypeCheck
           \/ DependencyScan \/ SastScan \/ IacScan \/ SecretScan
  BY <1>4, GatesKeep
<1>5. CASE Decide
  BY <1>5, DecideKeeps
<1>6. CASE UNCHANGED vars
  BY <1>6 DEF vars, evidence, EvidenceInv, TypeOK, Truthful, Silent, Upcoming, Reported,
     RunsRecorded, TestsResult, Searched, Refused, Progress, Clean, AllPassed, Flaky, Promises, NotFailed, NoFailureHidden,
     PassedIsEarned, StrictIsComplete, NothingRunsWhenRefused, TestsAgree
<1>7. QED
  BY <1>1, <1>2, <1>3, <1>4, <1>5, <1>6 DEF Next

LEMMA EvidenceHolds == Spec => []EvidenceInv
  BY Initially, EvidenceStep, PTL DEF Spec

-----------------------------------------------------------------------------
\* Whatever the gates do, a run that is not reported as failed had no check with a
\* nonzero exit status in any of the nine gates, and no tool reported anything but one
\* whose report is not read when it exits with 0 (_determine_status, _gate_passed).
THEOREM FailuresAreReported == Spec => []NoFailureHidden
<1>1. EvidenceInv => NoFailureHidden
  BY DEF EvidenceInv, Promises
<1>2. QED
  BY <1>1, EvidenceHolds, PTL

\* "passed" is only ever given for three agreeing test runs and gates that ran.
THEOREM PassIsEarned == Spec => []PassedIsEarned
<1>1. EvidenceInv => PassedIsEarned
  BY DEF EvidenceInv, Promises
<1>2. QED
  BY <1>1, EvidenceHolds, PTL

\* In strict mode a run that is not failed is passed outright: its tests ended alike
\* three times, and the secret scan skipped none of the files it was given.  It is
\* not given the files that _project_files leaves out (verification.py:115).
THEOREM StrictLeavesNothingOpen == Spec => []StrictIsComplete
<1>1. EvidenceInv => StrictIsComplete
  BY DEF EvidenceInv, Promises
<1>2. QED
  BY <1>1, EvidenceHolds, PTL

\* A refusal of the trust gate is final: nothing runs, and the status is failed.
THEOREM RefusalIsFinal == Spec => []NothingRunsWhenRefused
<1>1. EvidenceInv => NothingRunsWhenRefused
  BY DEF EvidenceInv, Promises
<1>2. QED
  BY <1>1, EvidenceHolds, PTL

\* The type invariant of the verification phase.
THEOREM VerificationTypeCorrect == Spec => []TypeOK
<1>1. EvidenceInv => TypeOK
  BY DEF EvidenceInv
<1>2. QED
  BY <1>1, EvidenceHolds, PTL
=============================================================================
