----------------------------- MODULE Workspace ------------------------------
(***************************************************************************)
(* Monorepos: the package graph (src/runtime/workspace.py) and the part of *)
(* the execution phase that restricts a run to packages (src/runtime/      *)
(* execution.py, execute from detect_workspace on): which packages a run   *)
(* is restricted to, the order of the packages, the order of the items,    *)
(* and the directory each item's handler works in.                         *)
(*                                                                         *)
(* Directories that may be packages are 1..Len(...) in the order of their  *)
(* paths, package names are numbers in alphabetical order, so that a list  *)
(* that the code keeps sorted is a set here.  A place is what git status   *)
(* or an item's scope may name, a file or a directory; it lies inside some *)
(* package directories, of which one may be inside another.                *)
(***************************************************************************)
EXTENDS Integers, Sequences, FiniteSets

CONSTANTS Dirs,        \* directories that may be packages, as numbers
          Names,       \* package names, as numbers
          Places,      \* what git status and items may name
          Inside,      \* <<place, directory>>: the place is or is under it
          Families     \* repositories with plans and requests, see Family

Patterns == {"declared", "packages/*", "libs/*", "apps/*", "crates/*"}
Manifests == {"pnpm", "bare pnpm", "npm", "lerna", "nx", "turbo", "cargo", "bare cargo", "go"}

\* manifests: workspace manifests at the root, "bare" ones without patterns;
\* matching: the directories a pattern matches; name and uses: what the manifest
\* of a package directory says.
Repository == [manifests : SUBSET Manifests, matching : [Patterns -> SUBSET Dirs],
               name : [Dirs -> Names], uses : [Dirs -> SUBSET Names]]

\* An item of the plan: the places of its scope, what it depends on by its
\* position in the plan, and whether it is left out once it is its turn: its risk
\* exceeds the tolerance, or --max-files has been reached (execution.py:2000, 2009).
Item == [scope : Seq(Places), dependencies : SUBSET Nat, risky : BOOLEAN]

\* --workspace NAME, --workspace PATH, --changed-packages, or nothing.
Request == [kind : {"none", "name", "path", "changed"}, name : Names, dir : Dirs]

\* The places git status lists, a rename by its new one; or it fails.
Status == [fails : BOOLEAN, places : SUBSET Places]

\* Every combination of these.
Family == [repos : SUBSET Repository, plans : SUBSET Seq(Item),
           requests : SUBSET Request, statuses : SUBSET Status]

ASSUME WorkspaceAssumption ==
  /\ Dirs \subseteq Nat \ {0} /\ IsFiniteSet(Dirs) /\ Names \subseteq Nat \ {0}
  /\ Inside \subseteq Places \X Dirs
  /\ Families \subseteq Family

VARIABLES
  repo,       \* the repository
  plan,       \* the selected items, in the order of the plan
  request,    \* --workspace and --changed-packages
  status,     \* what git status says
  pc,         \* where execute() stands
  packages,   \* the package directories, {} without a workspace
  graph,      \* internal dependencies by name
  scope,      \* scoped_names, {} without scoping
  remaining,  \* `remaining` of dependency_order
  round,      \* names still to be visited in this round
  progressed, \* has this round listed a name
  ordered,    \* `ordered` of dependency_order
  items,      \* what is left of ordered_items, as positions in the plan
  skipped,    \* out_of_scope
  workDir,    \* self._work_dir: a package directory, or 0 for the root
  current,    \* current_pkg, 0 for None
  done        \* history: <<item, directory its handler worked in>>

input == <<repo, plan, request, status>>
sorting == <<remaining, round, progressed, ordered>>
working == <<workDir, current, done>>
vars == <<input, pc, packages, graph, scope, sorting, items, skipped, working>>

-----------------------------------------------------------------------------
(* detect_workspace *)

Has(m) == repo.manifests \cap m # {}

PatternsBeforeCargo ==
  (IF Has({"bare pnpm"}) THEN {"packages/*"} ELSE {})
  \cup (IF Has({"pnpm", "npm", "lerna"}) THEN {"declared"} ELSE {})
  \cup (IF Has({"nx"}) THEN {"packages/*", "libs/*"} ELSE {})
  \cup (IF Has({"turbo"}) THEN {"apps/*", "packages/*"} ELSE {})

\* A Cargo workspace without members falls back only if nothing else is there.
WorkspacePatterns ==
  PatternsBeforeCargo
  \cup (IF Has({"cargo", "go"}) THEN {"declared"} ELSE {})
  \cup (IF Has({"bare cargo"}) /\ PatternsBeforeCargo = {} THEN {"crates/*"} ELSE {})

PackageDirs == UNION {repo.matching[p] : p \in WorkspacePatterns}

NameOf(d) == repo.name[d]

\* graph[name] = deps, in path order: of packages of one name the last counts.
UsesOf(n) ==
  LET named == {e \in PackageDirs : NameOf(e) = n}
      d     == CHOOSE e \in named : \A f \in named : f <= e
  IN  repo.uses[d]

\* Faults a property must notice are kept beside the definition they alter, under
\* its name and what they get wrong.

UsesOutside(names) == [n \in names |-> UsesOf(n)]

\* Only dependencies on packages of the workspace are kept.
InternalUses(names) == [n \in names |-> UsesOf(n) \cap names]

DetectWorkspace ==
  /\ pc = "detect"
  /\ packages' = PackageDirs
  /\ graph' = InternalUses({NameOf(d) : d \in PackageDirs})
  /\ pc' = "scope"
  /\ UNCHANGED <<input, scope, sorting, items, skipped, working>>

-----------------------------------------------------------------------------
(* Which packages the run is restricted to. *)

PackageNames == {NameOf(d) : d \in packages}

Holding(place) == {d \in packages : <<place, d>> \in Inside}

ChangedNamesAnyway == {NameOf(d) : d \in UNION {Holding(f) : f \in status.places}}

\* changed_packages: nothing can be said when git status fails, nothing has
\* changed, or something has changed outside the packages.
ChangedNames ==
  IF status.fails \/ \E f \in status.places : Holding(f) = {} THEN {}
  ELSE {NameOf(d) : d \in UNION {Holding(f) : f \in status.places}}

\* --workspace is compared with package names; a path is none.
RequestedNames ==
  CASE request.kind = "changed" -> ChangedNames
    [] request.kind = "name"    -> {request.name} \cap PackageNames
    [] OTHER                         -> {}

\* Without a package to restrict it to, the run is not restricted.
Scope ==
  /\ pc = "scope"
  /\ scope' = RequestedNames
  /\ IF RequestedNames # {}
     THEN pc' = "sort" /\ UNCHANGED items
     ELSE pc' = "items" /\ items' = 1..Len(plan)
  /\ remaining' = RequestedNames /\ round' = RequestedNames /\ progressed' = FALSE
  /\ UNCHANGED <<input, packages, graph, ordered, skipped, working>>

-----------------------------------------------------------------------------
(* dependency_order *)

IsFirst(n, S) == n \in S /\ \A m \in S : n <= m
Smallest(S) == CHOOSE n \in S : IsFirst(n, S)

ReadyInRound(n) == graph[n] \cap round = {}
Ready(n) == graph[n] \cap remaining = {}

VisitName ==
  /\ pc = "sort"
  /\ \E n \in round :
       /\ IsFirst(n, round)
       /\ round' = round \ {n}
       /\ ordered' = IF Ready(n) THEN Append(ordered, n) ELSE ordered
       /\ remaining' = IF Ready(n) THEN remaining \ {n} ELSE remaining
       /\ progressed' = (progressed \/ Ready(n))
  /\ UNCHANGED <<input, pc, packages, graph, scope, items, skipped, working>>

NextRoundAnyway ==
  /\ pc = "sort" /\ round = {} /\ remaining # {}
  /\ round' = remaining /\ progressed' = FALSE
  /\ UNCHANGED <<input, pc, packages, graph, scope, remaining, ordered, items, skipped,
                 working>>

\* The next round, unless this one listed nothing.
NextRound ==
  /\ pc = "sort" /\ round = {} /\ remaining # {}
  /\ round' = IF progressed THEN remaining ELSE {}
  /\ pc' = IF progressed THEN "sort" ELSE "cycle"
  /\ progressed' = FALSE
  /\ UNCHANGED <<input, packages, graph, scope, remaining, ordered, items, skipped, working>>

\* ordered.extend(sorted(remaining)): a cycle is broken by name.
BreakCycle ==
  /\ pc = "cycle"
  /\ \E n \in remaining : /\ IsFirst(n, remaining)
                          /\ ordered' = Append(ordered, n)
                          /\ remaining' = remaining \ {n}
  /\ UNCHANGED <<input, pc, packages, graph, scope, round, progressed, items, skipped,
                 working>>

-----------------------------------------------------------------------------
(* The items of the run. *)

\* _item_package: the first place that lies in a package, and the first package,
\* in path order, that it lies in; 0 for none.
ItemPackage(i) ==
  LET files == plan[i].scope
      inPackage == {k \in 1..Len(files) : Holding(files[k]) # {}}
  IN  IF inPackage = {} THEN 0 ELSE NameOf(Smallest(Holding(files[Smallest(inPackage)])))

InPackageOfScope(i) == ItemPackage(i) \in scope
InScope(i) == ItemPackage(i) \in scope \cup {0}

OrderItems ==
  /\ pc \in {"sort", "cycle"} /\ remaining = {} /\ round = {}
  /\ items' = {i \in 1..Len(plan) : InScope(i)}
  /\ skipped' = {i \in 1..Len(plan) : ItemPackage(i) \notin scope \cup {0}}
  /\ pc' = "items"
  /\ UNCHANGED <<input, packages, graph, scope, sorting, working>>

BeforeByName(i, j) ==
  IF ItemPackage(i) = ItemPackage(j) THEN i <= j ELSE ItemPackage(i) < ItemPackage(j)

\* ordered_items: in the order of the plan if the run is not restricted;
\* otherwise the items of the packages, package by package, then those of none.
Before(i, j) ==
  LET p == ItemPackage(i)
      q == ItemPackage(j)
  IN  IF scope = {} \/ p = q THEN i <= j
      ELSE /\ p # 0
           /\ q = 0 \/ \E l \in 1..Len(ordered) : \E k \in 1..(l - 1) :
                         ordered[k] = p /\ ordered[l] = q

IsNext(i) == i \in items /\ \A j \in items : Before(i, j)

\* package_dirs: of packages of one name the last counts.
PackageDir(name) ==
  CHOOSE d \in packages : NameOf(d) = name /\ \A e \in packages : NameOf(e) = name => e <= d

DirForKept(name) == IF name \in scope THEN PackageDir(name) ELSE workDir
DirFor(name) == IF name \in scope THEN PackageDir(name) ELSE 0

\* The work directory is switched when the item is of another package than the
\* one before it.
RunItem ==
  /\ pc = "items"
  /\ \E i \in items :
       /\ IsNext(i) /\ ~plan[i].risky
       /\ IF scope # {} /\ ItemPackage(i) # current
          THEN workDir' = DirFor(ItemPackage(i)) /\ current' = ItemPackage(i)
          ELSE UNCHANGED <<workDir, current>>
       /\ done' = Append(done, <<i, workDir'>>)
       /\ items' = items \ {i}
  /\ UNCHANGED <<input, pc, packages, graph, scope, sorting, skipped>>

\* `continue` before the work directory is looked at.
LeaveToAgent ==
  /\ pc = "items"
  /\ \E i \in items : /\ IsNext(i) /\ plan[i].risky
                      /\ skipped' = skipped \cup {i}
                      /\ items' = items \ {i}
  /\ UNCHANGED <<input, pc, packages, graph, scope, sorting, working>>

Finish ==
  /\ pc = "items" /\ items = {}
  /\ pc' = "done"
  /\ UNCHANGED <<input, packages, graph, scope, sorting, items, skipped, working>>

Init ==
  /\ \E f \in Families : /\ repo \in f.repos /\ plan \in f.plans
                         /\ request \in f.requests /\ status \in f.statuses
  /\ pc = "detect"
  /\ packages = {} /\ graph = <<>> /\ scope = {}
  /\ remaining = {} /\ round = {} /\ progressed = FALSE /\ ordered = <<>>
  /\ items = {} /\ skipped = {} /\ workDir = 0 /\ current = 0
  /\ done = <<>>

Next ==
  \/ DetectWorkspace \/ Scope \/ VisitName \/ NextRound \/ BreakCycle \/ OrderItems
  \/ RunItem \/ LeaveToAgent \/ Finish

\* One thread that waits for nothing.
Spec == Init /\ [][Next]_vars /\ WF_vars(Next)

-----------------------------------------------------------------------------
(* Properties. *)

\* Type invariant of the package graph and of a run restricted to packages.
TypeOK ==
  /\ repo \in Repository /\ plan \in Seq(Item) /\ request \in Request
  /\ status \in Status
  /\ pc \in {"detect", "scope", "sort", "cycle", "items", "done"}
  /\ packages \in {{}, PackageDirs}
  /\ scope \cup remaining \cup round \subseteq PackageNames
  /\ pc \notin {"detect", "scope"} => graph \in [PackageNames -> SUBSET PackageNames]
  /\ progressed \in BOOLEAN /\ ordered \in Seq(scope)
  /\ items \cup skipped \subseteq 1..Len(plan)
  /\ workDir \in packages \cup {0} /\ current \in PackageNames \cup {0}
  /\ done \in Seq((1..Len(plan)) \X (packages \cup {0}))

\* The packages of a run are put in the order of their dependencies.
Ordering == INSTANCE DependencyOrder
  WITH nodes <- IF pc \in {"detect", "scope"} THEN {} ELSE scope,
       needs <- graph, order <- ordered

\* dependency_order, in rounds over what remains and with its way out of a
\* cycle, does what putting things in the order of their dependencies promises.
PackageOrder == Ordering!Spec

\* Whatever the package graph, the run comes to its end: dependency_order never
\* goes round for ever.
RunEnds == <>(pc = "done")

Ran == {done[k][1] : k \in 1..Len(done)}
PositionOf(i) == CHOOSE k \in 1..Len(done) : done[k][1] = i

\* No item is lost or run twice when the plan is split over packages and put
\* together again: each is run once, or skipped because it is too risky or of a
\* package the run is not restricted to.
NoItemLost ==
  pc = "done" =>
    /\ Len(done) = Cardinality(Ran) /\ Ran \cap skipped = {}
    /\ Ran \cup skipped = 1..Len(plan)
    /\ \A i \in skipped :
         \/ plan[i].risky
         \/ scope # {} /\ \E k \in 1..Len(plan[i].scope) :
                            Holding(plan[i].scope[k]) # {}

UniqueNames == \A d, e \in packages : NameOf(d) = NameOf(e) => d = e

PlacesOf(i) == {plan[i].scope[k] : k \in 1..Len(plan[i].scope)}

\* README.md:78 "scoped remediation files land inside the package directory":
\* although the work directory is only switched between items, a handler works
\* in a package directory just when it should.  No two packages share a name.
LandsInPackage ==
  scope # {} /\ UniqueNames =>
    \A k \in 1..Len(done) :
      IF \E f \in PlacesOf(done[k][1]) : Holding(f) # {}
      THEN \E f \in PlacesOf(done[k][1]) : done[k][2] \in Holding(f)
      ELSE done[k][2] = 0

\* A run restricted to changed packages keeps out of packages without changes,
\* and what has changed lies in the packages it is restricted to.
ChangedOnly ==
  request.kind = "changed" /\ scope # {} /\ UniqueNames =>
    /\ \A k \in 1..Len(done) :
         done[k][2] # 0 => \E f \in status.places : done[k][2] \in Holding(f)
    /\ \A f \in status.places : \E d \in Holding(f) : NameOf(d) \in scope

\* An item runs after the item it depends on, also when the plan is put in the
\* order of the packages -- unless that order is against it: it is an item of a
\* package and the other one of none, or its package does not depend on the
\* other's, or does so in a cycle.
DependencyFirst ==
  \A i \in Ran : \A j \in plan[i].dependencies \cap (1..(i - 1)) :
    (/\ pc = "done" /\ j \in Ran
     /\ \/ scope = {} \/ ItemPackage(i) \in {0, ItemPackage(j)}
        \/ /\ ItemPackage(j) \in graph[ItemPackage(i)]
           /\ ~Ordering!Endless(ItemPackage(j)))
    => PositionOf(j) < PositionOf(i)

\* README.md:82 "execute --target /path/to/repo --workspace packages/my-pkg": a
\* run asked for the package at a path works in no other package.
RestrictedToPackage ==
  request.kind = "path" /\ request.dir \in packages =>
    \A i \in Ran : ItemPackage(i) \in {0, NameOf(request.dir)}
=============================================================================
