-------------------------- MODULE DependencyOrder ---------------------------
(***************************************************************************)
(* What putting things in the order of their dependencies promises: they   *)
(* are listed one by one, each once, each after the listed things it       *)
(* depends on -- save that nothing can be promised where following the     *)
(* dependencies of a thing leads into a cycle -- and in the end all are    *)
(* listed.  The runtime does it twice, for packages and for backlog items. *)
(***************************************************************************)
EXTENDS Naturals, Sequences

VARIABLES nodes,   \* what is to be put in order
          needs,   \* the dependencies of each, which may name others besides
          order    \* the list so far

vars == <<nodes, needs, order>>

Listed == {order[k] : k \in 1..Len(order)}

\* A chain of dependencies among the nodes that starts at x and never ends.
Endless(x) ==
  \E S \in SUBSET nodes : x \in S /\ \A s \in S : needs[s] \cap S # {}

MayBeNext(x) ==
  /\ x \in nodes \ Listed
  /\ \A d \in needs[x] \cap nodes : d \in Listed \/ Endless(d)

Init == nodes = {} /\ order = <<>>

\* The nodes and their dependencies become known.
Pose == nodes = {} /\ order = <<>> /\ order' = <<>>

AppendNext ==
  \E x \in nodes :
    /\ MayBeNext(x)
    /\ order' = Append(order, x)
    /\ UNCHANGED <<nodes, needs>>

Next == Pose \/ AppendNext

Spec == Init /\ [][Next]_vars
=============================================================================
