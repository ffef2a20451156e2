--------------------------- MODULE MCVerification ---------------------------
(* Bound of Verification for TLC. *)
EXTENDS Verification, FiniteSets

\* Gates that did not end clean: without a command, failed, flaky, with a report, with
\* a helper that failed or did not run, or with files left unsearched.
Troubled(g) ==
  \/ g \in CommandGates /\ results[g].status # ""
  \/ results[g].executed /\ (~Passed(g) \/ results[g].flaky)
  \/ ReportsOf(g) \cap found # {}
  \/ g = "tests" /\ results[g].executed /\ exits["coverage"] # "zero"
  \/ g = "iac_scan" /\ exits["terraform_init"] = "nonzero"
  \/ g = "secret_scan" /\ unsearched # {}

\* At most two of the nine gates are troubled.  The status distinguishes four classes
\* of gates and looks at two of them at a time.  Of the test runs only the third may
\* differ from the others: the code asks whether any two differ.
FewTroubles ==
  /\ Cardinality({g \in Gates : Troubled(g)}) <= 2 \/ ~allowed
  /\ Len(runs) >= 2 => runs[1] = runs[2]
=============================================================================
