---------------------------- MODULE MCWorkspace -----------------------------
(* Monorepos for TLC: directory 2 is inside directory 1, 3 and 4 are apart. *)
EXTENDS Workspace

MCInside == {<<"in1", 1>>, <<"in2", 1>>, <<"in2", 2>>, <<"in3", 3>>, <<"in4", 4>>}

Nowhere == [p \in Patterns |-> {}]
Declared(dirs) == [Nowhere EXCEPT !["declared"] = dirs]
Spread == [Nowhere EXCEPT !["declared"] = {3, 4}, !["packages/*"] = {1}, !["libs/*"] = {4},
                          !["apps/*"] = {3}, !["crates/*"] = {1, 3}]

Repo(manifests, matching, name, uses) ==
  [manifests |-> manifests, matching |-> matching, name |-> name, uses |-> uses]

InOrder == <<1, 2, 3, 4>>
Reverse4 == <<4, 3, 2, 1>>
Twins == <<1, 2, 2, 3>>

\* The packages 1, 3 and 4 with every dependency graph over their names.
Uses(f) == [d \in Dirs |-> IF d \in DOMAIN f THEN f[d] ELSE {}]
GraphRepos ==
  {Repo({"npm"}, Declared({1, 3, 4}), InOrder, Uses(f)) :
     f \in [{1, 3, 4} -> SUBSET {1, 3, 4}]}

\* Nested packages, packages of one name, names against the order of the paths.
Layouts ==
  {Repo({"pnpm"}, Declared(dirs), name, Uses([d \in {1, 3} |-> {name[3]} \ {name[d]}])) :
     dirs \in {{1, 2, 3}, {2, 3, 4}}, name \in {InOrder, Reverse4, Twins}}

ManifestRepos ==
  {Repo(m, Spread, InOrder, Uses([d \in {1} |-> {3, 4}])) : m \in SUBSET Manifests}

\* An item may depend on each one before it.
PlanOf(scopes, risky) ==
  [k \in 1..Len(scopes) |-> [scope |-> scopes[k], dependencies |-> 1..(k - 1),
                             risky |-> k \in risky]]

Scopes == {<<>>, <<"top">>, <<"in1">>, <<"top", "in3">>, <<"in3", "in2">>, <<"in4">>}
Plans == {PlanOf(<<a, b, c>>, r) : a \in Scopes, b \in Scopes, c \in Scopes, r \in {{}, {1}, {2}}}
LongPlan == PlanOf(<<<<"in4">>, <<"in3">>, <<"top">>, <<"in1">>, <<"in3">>>>, {})

Requests ==
  {[kind |-> k, name |-> n, dir |-> d] :
     k \in {"none", "changed", "name", "path"}, n \in {1}, d \in {1}}
  \cup {[kind |-> "name", name |-> 3, dir |-> 1], [kind |-> "path", name |-> 1, dir |-> 3]}
Changed == [kind |-> "changed", name |-> 1, dir |-> 1]


InFamily(repos, plans, requests, statuses) ==
  [repos |-> repos, plans |-> plans, requests |-> requests, statuses |-> statuses]
Statuses(places) == {[fails |-> FALSE, places |-> p] : p \in places}

PlanFamily == InFamily(Layouts, Plans, Requests, Statuses({{"in3", "in1"}}))

MCFamilies ==
  {InFamily(GraphRepos, {LongPlan}, {Changed},
            Statuses({{"in1", "in3", "in4"}, {"in3", "in4"}, {"in1", "in3"}})),
   PlanFamily,
   InFamily(Layouts, {LongPlan}, {Changed}, Status),
   InFamily(ManifestRepos, {LongPlan}, Requests, Statuses({{"in3"}}))}

PathFamilies ==
  {[PlanFamily EXCEPT !.requests = {r \in Requests : r.kind = "path"}]}
=============================================================================
