----------------------------- MODULE MCRollback -----------------------------
(* Instances of Rollback for TLC: the scenarios of MCExecution. *)
EXTENDS Rollback, MCExecution

\* The user has changed at most one path before the first execution.
FewTrees ==
  {t \in AllTrees :
     Cardinality({p \in Paths : t[p] # IF p \in Committed THEN "head" ELSE "absent"}) <= 1}
=============================================================================
