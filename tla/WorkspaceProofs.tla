-------------------------- MODULE WorkspaceProofs ---------------------------
(***************************************************************************)
(* dependency_order does what DependencyOrder promises, for every package  *)
(* graph, every set of packages a run is restricted to and any number of   *)
(* rounds; and the run over the items does what Workspace promises for     *)
(* every plan: no item is lost, each is worked on in its package and after *)
(* the items it depends on, and a run restricted to changed packages       *)
(* leaves the others alone.                                                *)
(***************************************************************************)
EXTENDS Workspace, Induction, TLAPS

-----------------------------------------------------------------------------
(* What is known while the packages are put in order.  A round that has not  *)
(* listed anything has left what it passed over with needs that remain; so   *)
(* what remains when such a round ends can be followed for ever.             *)

Listed == {ordered[k] : k \in 1..Len(ordered)}

Once(s) == \A k, l \in 1..Len(s) : s[k] = s[l] => k = l

Posed == pc \notin {"detect", "scope"}

\* What is listed and what remains make up the scope.
Partition ==
  /\ ordered \in Seq(scope) /\ Once(ordered)
  /\ round \subseteq remaining /\ remaining \subseteq scope
  /\ ~Posed => ordered = <<>>
  /\ Posed => Listed = scope \ remaining

\* What this round has passed over waits for something that remains.
PassedOver ==
  pc = "sort" /\ ~progressed =>
    \A n \in remaining \ round : graph[n] \cap remaining # {}

\* What remained when no round could list anything more.
InCycle ==
  pc = "cycle" =>
    /\ round = {}
    /\ \E S \in SUBSET scope : remaining \subseteq S /\ \A n \in S : graph[n] \cap S # {}

\* From n on, dependencies can be followed for ever.
Endless(n) == \E S \in SUBSET scope : n \in S /\ \A s \in S : graph[s] \cap S # {}

\* A name is listed after the names it depends on, save those in a cycle.
UsesFirst ==
  Posed => \A l \in 1..Len(ordered) : \A d \in graph[ordered[l]] \cap scope :
             Endless(d) \/ \E k \in 1..(l - 1) : ordered[k] = d

OrderInv == Partition /\ PassedOver /\ InCycle /\ UsesFirst

\* Nothing is listed before the packages are detected.
LEMMA InitOrder == Init => OrderInv
BY DEF Init, sorting, working, OrderInv, Partition, PassedOver, InCycle, UsesFirst, Once,
   Listed, Posed

\* Listing one more name.
LEMMA ListOne ==
  ASSUME Partition, Posed, NEW n \in remaining, ordered' = Append(ordered, n),
         scope' = scope, remaining' = remaining \ {n}, Posed'
  PROVE  /\ ordered' \in Seq(scope') /\ remaining' \subseteq scope'
         /\ Listed' = scope' \ remaining' /\ Once(ordered')
         /\ \A k \in 1..Len(ordered) : ordered'[k] = ordered[k]
         /\ Len(ordered') = Len(ordered) + 1 /\ ordered'[Len(ordered) + 1] = n
<1>1. n \in scope /\ ordered \in Seq(scope) /\ Len(ordered) \in Nat
  BY DEF Partition
<1>2. /\ ordered' \in Seq(scope) /\ Len(ordered') = Len(ordered) + 1
      /\ \A k \in 1..Len(ordered) : ordered'[k] = ordered[k]
      /\ ordered'[Len(ordered) + 1] = n
  BY <1>1
<1>3. Listed' = Listed \cup {n}
  <2>1. ASSUME NEW x \in Listed' PROVE x \in Listed \cup {n}
    BY <1>1, <1>2, <2>1 DEF Listed
  <2>2. n \in Listed'
    BY <1>1, <1>2 DEF Listed
  <2>3. ASSUME NEW x \in Listed PROVE x \in Listed'
    <3>1. PICK k \in 1..Len(ordered) : ordered[k] = x
      BY <2>3 DEF Listed
    <3>2. k \in 1..Len(ordered') /\ ordered'[k] = x
      BY <1>1, <1>2, <3>1
    <3>3. QED
      BY <3>2 DEF Listed
  <2>4. QED
    BY <2>1, <2>2, <2>3
<1>4. n \notin Listed /\ Once(ordered)
  BY DEF Partition
<1>5. Once(ordered')
  <2> SUFFICES ASSUME NEW k \in 1..Len(ordered'), NEW l \in 1..Len(ordered'),
                      ordered'[k] = ordered'[l], k # l
               PROVE  FALSE
    BY DEF Once
  <2>1. \A x \in 1..Len(ordered) : ordered'[x] # n
    BY <1>2, <1>4 DEF Listed
  <2>2. k \in 1..Len(ordered) /\ l \in 1..Len(ordered)
    BY <1>1, <1>2, <2>1
  <2>3. QED
    BY <1>2, <1>4, <2>2 DEF Once
<1>6. QED
  BY <1>1, <1>2, <1>3, <1>5 DEF Partition

\* The names listed before it come before n, which is listed last.
LEMMA ListedFirst ==
  ASSUME OrderInv, Posed, Posed', NEW n \in remaining, UNCHANGED <<scope, graph>>,
         ordered' = Append(ordered, n), remaining' = remaining \ {n},
         \A d \in graph[n] \cap scope : d \in Listed \/ Endless(d)
  PROVE  UsesFirst'
<1>1. /\ Len(ordered) \in Nat /\ Len(ordered') = Len(ordered) + 1
      /\ \A k \in 1..Len(ordered) : ordered'[k] = ordered[k]
      /\ ordered'[Len(ordered) + 1] = n
  BY ListOne DEF OrderInv, Partition
<1>2. \A d : Endless(d)' = Endless(d)
  BY DEF Endless
<1>3. SUFFICES ASSUME NEW l \in 1..(Len(ordered) + 1), NEW d \in graph[ordered'[l]] \cap scope,
                      ~Endless(d)
               PROVE  \E k \in 1..(l - 1) : ordered'[k] = d
  BY <1>1, <1>2 DEF UsesFirst
<1>4. CASE l \in 1..Len(ordered)
  <2>1. PICK k \in 1..(l - 1) : ordered[k] = d
    BY <1>1, <1>3, <1>4 DEF OrderInv, UsesFirst
  <2>2. k \in 1..Len(ordered)
    BY <1>1, <1>4
  <2>3. QED
    BY <1>1, <2>1, <2>2
<1>5. CASE l = Len(ordered) + 1
  <2>1. PICK k \in 1..Len(ordered) : ordered[k] = d
    BY <1>1, <1>3, <1>5 DEF Listed
  <2>2. k \in 1..(l - 1)
    BY <1>1, <1>5
  <2>3. QED
    BY <1>1, <2>1, <2>2
<1>6. QED
  BY <1>1, <1>4, <1>5

\* A step of the run keeps OrderInv, and is a step of DependencyOrder or none.
LEMMA StepOrder ==
  ASSUME OrderInv, [Next]_vars
  PROVE  OrderInv' /\ [Ordering!Next]_(Ordering!vars)
<1> USE DEF input, sorting, working
<1> DEFINE Nodes == IF pc \in {"detect", "scope"} THEN {} ELSE scope
<1>1. ASSUME NEW n \in remaining, Posed, Posed', UNCHANGED <<scope, graph>>,
             ordered' = Append(ordered, n), remaining' = remaining \ {n},
             \A d \in graph[n] \cap scope : d \in Listed \/ Endless(d)
      PROVE  [Ordering!Next]_(Ordering!vars)
  <2>1. n \in Nodes \ Listed
    BY <1>1 DEF OrderInv, Partition, Posed
  <2>2. Ordering!MayBeNext(n)
    BY <1>1, <2>1 DEF Ordering!MayBeNext, Ordering!Listed, Ordering!Endless, Endless, Listed,
       Posed
  <2>3. Ordering!AppendNext
    BY <1>1, <2>1, <2>2 DEF Ordering!AppendNext, Posed
  <2>4. QED
    BY <2>3 DEF Ordering!Next
<1>2. ASSUME UNCHANGED <<scope, graph, ordered>>, Posed, Posed'
      PROVE  [Ordering!Next]_(Ordering!vars)
  BY <1>2 DEF Ordering!vars, Posed
<1>3. CASE DetectWorkspace \/ Scope
  <2>1. ~Posed /\ ordered = <<>> /\ ordered' = <<>>
    BY <1>3 DEF DetectWorkspace, Scope, OrderInv, Partition, Posed
  <2>2. Ordering!Next
    BY <2>1 DEF Ordering!Next, Ordering!Pose, Posed
  <2>3. OrderInv'
    <3>1. Listed' = {}
      BY <2>1 DEF Listed
    <3>2. CASE DetectWorkspace
      BY <2>1, <3>1, <3>2 DEF DetectWorkspace, OrderInv, Partition, PassedOver, InCycle,
         UsesFirst, Once, Posed
    <3>3. CASE Scope
      BY <2>1, <3>1, <3>3 DEF Scope, OrderInv, Partition, PassedOver, InCycle,
         UsesFirst, Once, Posed
    <3>4. QED
      BY <1>3, <3>2, <3>3
  <2>4. QED
    BY <2>2, <2>3
<1>4. CASE VisitName
  <2>1. PICK n \in round :
          /\ round' = round \ {n}
          /\ ordered' = IF Ready(n) THEN Append(ordered, n) ELSE ordered
          /\ remaining' = IF Ready(n) THEN remaining \ {n} ELSE remaining
          /\ progressed' = (progressed \/ Ready(n))
    BY <1>4 DEF VisitName
  <2>2. /\ pc = "sort" /\ pc' = "sort" /\ UNCHANGED <<scope, graph>> /\ Posed /\ Posed'
        /\ n \in remaining
    BY <1>4, <2>1 DEF VisitName, OrderInv, Partition, Posed
  <2>3. CASE Ready(n)
    <3>1. ordered' = Append(ordered, n) /\ remaining' = remaining \ {n} /\ progressed'
      BY <2>1, <2>3
    <3>2. \A d \in graph[n] \cap scope : d \in Listed
      BY <2>2, <2>3 DEF Ready, OrderInv, Partition
    <3>3. Partition'
      BY <2>1, <2>2, <3>1, ListOne DEF OrderInv, Partition
    <3>4. [Ordering!Next]_(Ordering!vars)
      BY <1>1, <2>2, <3>1, <3>2
    <3>5. PassedOver' /\ InCycle'
      BY <2>2, <3>1 DEF PassedOver, InCycle
    <3>6. UsesFirst'
      BY <2>2, <3>1, <3>2, ListedFirst
    <3>7. QED
      BY <3>3, <3>4, <3>5, <3>6 DEF OrderInv
  <2>4. CASE ~Ready(n)
    <3>1. UNCHANGED <<ordered, remaining>> /\ (progressed => progressed')
      BY <2>1, <2>4
    <3>2. Partition'
      BY <2>1, <2>2, <3>1 DEF OrderInv, Partition, Listed, Once
    <3>3. PassedOver'
      BY <2>1, <2>2, <2>4, <3>1 DEF OrderInv, PassedOver, Ready
    <3>4. UsesFirst'
      BY <2>2, <3>1 DEF OrderInv, UsesFirst, Endless
    <3>5. QED
      BY <1>2, <2>2, <3>1, <3>2, <3>3, <3>4 DEF OrderInv, InCycle
  <2>5. QED
    BY <2>3, <2>4
<1>5. CASE NextRound
  <2>1. /\ pc = "sort" /\ pc' \in {"sort", "cycle"} /\ round = {}
        /\ UNCHANGED <<scope, graph, ordered, remaining>> /\ Posed /\ Posed'
        /\ round' = (IF progressed THEN remaining ELSE {}) /\ progressed' = FALSE
        /\ pc' = "cycle" => ~progressed
        /\ pc' = "sort" => progressed
    BY <1>5 DEF NextRound, Posed
  <2>2. Partition'
    BY <2>1 DEF OrderInv, Partition, Listed, Once
  <2>3. PassedOver'
    BY <2>1 DEF PassedOver
  <2>4. InCycle'
    <3>1. CASE pc' = "cycle"
      <4>1. \A n \in remaining : graph[n] \cap remaining # {}
        BY <2>1, <3>1 DEF OrderInv, PassedOver
      <4>2. remaining \in SUBSET scope
        BY DEF OrderInv, Partition
      <4>3. QED
        BY <2>1, <4>1, <4>2 DEF InCycle
    <3>2. QED
      BY <3>1 DEF InCycle
  <2>5. UsesFirst'
    BY <2>1 DEF OrderInv, UsesFirst, Endless
  <2>6. QED
    BY <1>2, <2>1, <2>2, <2>3, <2>4, <2>5 DEF OrderInv
<1>6. CASE BreakCycle
  <2>1. PICK n \in remaining : ordered' = Append(ordered, n) /\ remaining' = remaining \ {n}
    BY <1>6 DEF BreakCycle
  <2>2. pc = "cycle" /\ pc' = "cycle" /\ UNCHANGED <<scope, graph, round>> /\ Posed /\ Posed'
    BY <1>6 DEF BreakCycle, Posed
  <2>3. PICK S \in SUBSET scope : remaining \subseteq S /\ \A x \in S : graph[x] \cap S # {}
    BY <2>2 DEF OrderInv, InCycle
  <2>4. \A d \in graph[n] \cap scope : d \in Listed \/ Endless(d)
    <3>1. ASSUME NEW d \in scope, d \notin Listed PROVE Endless(d)
      <4>1. d \in S
        BY <2>2, <2>3, <3>1 DEF OrderInv, Partition
      <4>2. QED
        BY <2>2, <2>3, <4>1 DEF Endless
    <3>2. QED
      BY <3>1
  <2>5. [Ordering!Next]_(Ordering!vars)
    BY <1>1, <2>1, <2>2, <2>4
  <2>6. InCycle'
    BY <2>1, <2>2, <2>3 DEF OrderInv, InCycle
  <2>7. Partition'
    <3>1. round' \subseteq remaining'
      BY <2>2 DEF OrderInv, InCycle
    <3>2. QED
      BY <2>1, <2>2, <3>1, ListOne DEF OrderInv, Partition
  <2>8. UsesFirst'
    BY <2>1, <2>2, <2>4, ListedFirst
  <2>9. QED
    BY <2>2, <2>5, <2>6, <2>7, <2>8 DEF OrderInv, PassedOver
<1>7. CASE OrderItems
  BY <1>2, <1>7 DEF OrderItems, OrderInv, Partition, PassedOver, InCycle, UsesFirst,
     Endless, Once, Listed, Posed
<1>8. CASE RunItem \/ LeaveToAgent \/ Finish
  BY <1>2, <1>8 DEF RunItem, LeaveToAgent, Finish, OrderInv, Partition, PassedOver, InCycle,
     UsesFirst, Endless, Once, Listed, Posed
<1>9. CASE UNCHANGED vars
  BY <1>2, <1>9 DEF vars, OrderInv, Partition, PassedOver, InCycle, UsesFirst,
     Endless, Once, Listed, Posed, Ordering!vars
<1>10. QED
  BY <1>3, <1>4, <1>5, <1>6, <1>7, <1>8, <1>9 DEF Next

\* The rounds of dependency_order, with their way out of a cycle, implement
\* DependencyOrder: a package comes after each package of the run it depends on, unless
\* following that one's dependencies leads into a cycle.
THEOREM PackagesInOrder == Spec => PackageOrder
<1>1. Init => Ordering!Init
  BY DEF Init, sorting, Ordering!Init
<1>2. OrderInv /\ [Next]_vars => OrderInv' /\ [Ordering!Next]_(Ordering!vars)
  BY StepOrder
<1>3. QED
  BY InitOrder, <1>1, <1>2, PTL DEF Spec, PackageOrder, Ordering!Spec

-----------------------------------------------------------------------------
(* Packages and the items in them.                                           *)

\* The packages of a workspace are directories of the repository, and there are
\* finitely many (_expand_globs of workspace.py).
LEMMA PackagesFinite ==
  ASSUME TypeOK
  PROVE  /\ PackageDirs \subseteq Dirs /\ packages \subseteq Dirs /\ IsFiniteSet(packages)
         /\ \A S \in SUBSET packages : S \subseteq Nat /\ IsFiniteSet(S)
         /\ \A d \in Dirs : NameOf(d) \in Names
<1>1. WorkspacePatterns \subseteq Patterns
  BY DEF WorkspacePatterns, PatternsBeforeCargo, Patterns
<1>2. repo.matching \in [Patterns -> SUBSET Dirs] /\ repo.name \in [Dirs -> Names]
  BY DEF TypeOK, Repository
<1>3. PackageDirs \subseteq Dirs /\ packages \subseteq Dirs
  BY <1>1, <1>2 DEF TypeOK, PackageDirs
<1>4. IsFiniteSet(Dirs) /\ Dirs \subseteq Nat
  BY WorkspaceAssumption
<1>5. \A S \in SUBSET Dirs : IsFiniteSet(S)
  BY <1>4, FS_Subset
<1>6. QED
  BY <1>2, <1>3, <1>4, <1>5 DEF NameOf

\* Package names are names, none of them that of no package.
LEMMA PackageNamesType == ASSUME TypeOK PROVE PackageNames \subseteq Names /\ 0 \notin PackageNames
BY PackagesFinite, WorkspaceAssumption DEF PackageNames

\* The smallest of a set of numbers is one of them.
LEMMA SmallestFound == ASSUME NEW S, S \subseteq Nat, S # {} PROVE Smallest(S) \in S
BY LeastNumber DEF Smallest, IsFirst

\* package_dirs has a directory for every package name (execute() of execution.py).
LEMMA PackageDirFound ==
  ASSUME TypeOK, NEW n \in PackageNames
  PROVE  PackageDir(n) \in packages /\ NameOf(PackageDir(n)) = n
<1> DEFINE T == {d \in packages : NameOf(d) = n}
<1>1. T # {}
  BY DEF PackageNames
<1>2. T \in SUBSET packages
  OBVIOUS
<1>3. T \subseteq Nat /\ IsFiniteSet(T)
  BY <1>2, PackagesFinite
<1>4. PICK d \in T : \A e \in T : e <= d
  <2> HIDE DEF T
  <2>1. QED
    BY <1>1, <1>3, GreatestNumber
<1>5. d \in packages /\ NameOf(d) = n /\ \A e \in packages : NameOf(e) = n => e <= d
  BY <1>4
<1>6. QED
  BY <1>5 DEF PackageDir

\* _item_package finds a package that holds one of the item's places, if any does.
LEMMA ItemPackageFound ==
  ASSUME TypeOK, NEW i \in 1..Len(plan)
  PROVE  \/ ItemPackage(i) = 0 /\ \A f \in PlacesOf(i) : Holding(f) = {}
         \/ /\ ItemPackage(i) \in PackageNames
            /\ \E f \in PlacesOf(i) : \E d \in Holding(f) : ItemPackage(i) = NameOf(d)
<1> DEFINE fs == plan[i].scope
           inPackage == {k \in 1..Len(fs) : Holding(fs[k]) # {}}
<1>1. ItemPackage(i) = IF inPackage = {} THEN 0
                       ELSE NameOf(Smallest(Holding(fs[Smallest(inPackage)])))
  BY DEF ItemPackage
<1>2. CASE inPackage = {}
  BY <1>1, <1>2 DEF PlacesOf
<1>3. CASE inPackage # {}
  <2>1. inPackage \subseteq Nat
    OBVIOUS
  <2>2. Smallest(inPackage) \in inPackage
    <3> HIDE DEF inPackage
    <3>1. QED
      BY <1>3, <2>1, SmallestFound
  <2> DEFINE f == fs[Smallest(inPackage)]
  <2>3. f \in PlacesOf(i) /\ Holding(f) # {}
    BY <2>2 DEF PlacesOf
  <2>4. Holding(f) \in SUBSET packages
    BY DEF Holding
  <2>5. Smallest(Holding(f)) \in Holding(f)
    BY <2>3, <2>4, PackagesFinite, SmallestFound
  <2>6. ItemPackage(i) = NameOf(Smallest(Holding(f)))
    BY <1>1, <1>3
  <2> HIDE DEF f
  <2>7. QED
    BY <2>3, <2>4, <2>5, <2>6 DEF PackageNames
<1>4. QED
  BY <1>2, <1>3

\* ItemPackage and PackageDir of a repository r with the packages P.
PackageOf(r, P, places) ==
  LET within(k)  == {d \in P : <<places[k], d>> \in Inside}
      inPackage == {k \in 1..Len(places) : within(k) # {}}
  IN  IF inPackage = {} THEN 0 ELSE r.name[Smallest(within(Smallest(inPackage)))]

DirectoryOf(r, P, n) ==
  CHOOSE d \in P : r.name[d] = n /\ \A e \in P : r.name[e] = n => e <= d

\* The packages do not change during the run, nor does what is made of them.
LEMMA PackagesKept ==
  ASSUME UNCHANGED input, packages' = packages
  PROVE  /\ plan' = plan /\ PackageNames' = PackageNames /\ PackageDirs' = PackageDirs
         /\ RequestedNames' = RequestedNames
         /\ \A i : ItemPackage(i)' = ItemPackage(i)
<1>1. plan' = plan /\ repo' = repo /\ request' = request /\ status' = status
  BY DEF input
<1>2. /\ \A f : Holding(f)' = Holding(f)
      /\ \A d : NameOf(d)' = NameOf(d)
      /\ PackageDirs' = PackageDirs
  BY <1>1 DEF Holding, NameOf, PackageDirs, WorkspacePatterns, PatternsBeforeCargo, Has
<1>3. PackageNames' = PackageNames
  BY <1>2 DEF PackageNames
<1>4. \A i : ItemPackage(i)' = ItemPackage(i)
  <2>1. \A i : ItemPackage(i) = PackageOf(repo, packages, plan[i].scope)
    BY DEF ItemPackage, PackageOf, Holding, NameOf
  <2>2. \A i : ItemPackage(i)' = PackageOf(repo', packages', plan'[i].scope)
    BY DEF ItemPackage, PackageOf, Holding, NameOf
  <2>3. QED
    BY <1>1, <2>1, <2>2
<1>5. RequestedNames' = RequestedNames
  BY <1>1, <1>2, <1>3 DEF RequestedNames, ChangedNames
<1>6. QED
  BY <1>1, <1>2, <1>3, <1>4, <1>5

\* Which item goes first does not change while the items run.
LEMMA OrderKept ==
  ASSUME UNCHANGED input, packages' = packages, scope' = scope, ordered' = ordered
  PROVE  /\ \A i, j : Before(i, j)' = Before(i, j)
         /\ \A n : DirFor(n)' = DirFor(n)
<1>1. \A i, j : Before(i, j)' = Before(i, j)
  BY PackagesKept DEF Before
<1>2. \A n : PackageDir(n) = DirectoryOf(repo, packages, n)
  BY DEF PackageDir, DirectoryOf, NameOf
<1>3. \A n : PackageDir(n)' = DirectoryOf(repo', packages', n)
  BY DEF PackageDir, DirectoryOf, NameOf
<1>4. repo' = repo
  BY DEF input
<1>5. QED
  BY <1>1, <1>2, <1>3, <1>4 DEF DirFor

\* What a run is restricted to are packages.
LEMMA RequestedType == RequestedNames \subseteq PackageNames
BY DEF RequestedNames, ChangedNames, PackageNames, Holding

-----------------------------------------------------------------------------
(* The items of a run: what is done, what is left and what is skipped.       *)

Running == pc \in {"items", "done"}

\* The packages and their graph are those of the repository.
Detected ==
  pc # "detect" => /\ packages = PackageDirs
                   /\ graph \in [PackageNames -> SUBSET PackageNames]

\* Nothing is handled before the items are in order.
NotYet == ~Running => /\ items = {} /\ skipped = {} /\ done = <<>>
                      /\ current = 0 /\ workDir = 0

\* Each item is done, left or skipped, and only one of these.
Split ==
  Running => /\ Ran \cup items \cup skipped = 1..Len(plan)
             /\ Ran \cap items = {} /\ Ran \cap skipped = {} /\ items \cap skipped = {}
             /\ pc = "done" => items = {}

\* No item is handled twice.
RanOnce == \A k, l \in 1..Len(done) : done[k][1] = done[l][1] => k = l

\* An item is skipped for its risk or for being of another package.
SkippedWhy ==
  \A i \in skipped : \/ plan[i].risky
                     \/ scope # {} /\ ItemPackage(i) \notin scope \cup {0}

\* What a restricted run handles is of its packages, or of none.
OfTheRun == scope # {} => \A i \in Ran \cup items : ItemPackage(i) \in scope \cup {0}

\* The work directory is that of the package it was last switched to, and every
\* item ran in the directory of its package.
InPlace ==
  scope # {} => /\ workDir = DirFor(current)
                /\ \A k \in 1..Len(done) : done[k][2] = DirFor(ItemPackage(done[k][1]))

\* Items are handled in their order, and what is left comes later.
InTurn ==
  /\ \A k, l \in 1..Len(done) : k < l => Before(done[k][1], done[l][1])
  /\ \A k \in 1..Len(done), i \in items : Before(done[k][1], i)

\* A run is restricted to what was asked for, and then its packages are ordered.
Restricted ==
  /\ Posed => scope = RequestedNames
  /\ ~Posed => scope = {}
  /\ pc \in {"sort", "cycle"} => scope # {}
  /\ Running => remaining = {}

RunInv == /\ TypeOK /\ OrderInv /\ Detected /\ NotYet /\ Split /\ RanOnce /\ SkippedWhy
          /\ OfTheRun /\ InPlace /\ InTurn /\ Restricted

\* Before the run there is nothing to keep in order.
LEMMA InitRun == Init => RunInv
<1> SUFFICES ASSUME Init PROVE RunInv
  OBVIOUS
<1>1. TypeOK
  <2>1. PICK f \in Families : /\ repo \in f.repos /\ plan \in f.plans
                              /\ request \in f.requests /\ status \in f.statuses
    BY DEF Init
  <2>2. f \in Family
    BY <2>1, WorkspaceAssumption
  <2>3. repo \in Repository /\ plan \in Seq(Item) /\ request \in Request /\ status \in Status
    BY <2>1, <2>2 DEF Family
  <2>4. ordered \in Seq(scope) /\ done \in Seq((1..Len(plan)) \X (packages \cup {0}))
    BY DEF Init
  <2>5. packages = {} /\ scope = {} /\ remaining = {} /\ round = {} /\ progressed = FALSE
        /\ items = {} /\ skipped = {} /\ workDir = 0 /\ current = 0 /\ pc = "detect"
    BY DEF Init
  <2>6. QED
    BY <2>3, <2>4, <2>5 DEF TypeOK
<1>2. NotYet /\ Detected /\ Restricted
  BY DEF Init, NotYet, Detected, Restricted, Running, Posed
<1>3. Ran = {} /\ items = {} /\ skipped = {} /\ scope = {} /\ Len(done) = 0
  BY DEF Init, Ran
<1>4. Split /\ RanOnce /\ SkippedWhy /\ OfTheRun /\ InPlace /\ InTurn
  BY <1>3 DEF Init, Split, RanOnce, SkippedWhy, OfTheRun, InPlace, InTurn, Running
<1>5. QED
  BY <1>1, <1>2, <1>4, InitOrder DEF RunInv

\* Until the items are in order, none is touched.
LEMMA StepBefore ==
  ASSUME RunInv, DetectWorkspace \/ VisitName \/ NextRound \/ BreakCycle
  PROVE  RunInv'
<1>1. /\ UNCHANGED <<input, scope, items, skipped, workDir, current, done>>
      /\ ~Running /\ ~Running'
  BY DEF DetectWorkspace, VisitName, NextRound, BreakCycle, working, Running
<1>2. items = {} /\ skipped = {} /\ done = <<>> /\ current = 0 /\ workDir = 0
  BY <1>1 DEF RunInv, NotYet
<1>3. OrderInv'
  BY StepOrder DEF RunInv, Next
<1>4. NotYet' /\ Ran' = {} /\ Len(done') = 0
  BY <1>1, <1>2 DEF NotYet, Ran
<1>5. Detected' /\ packages' \in {{}, PackageDirs'}
  <2>1. CASE DetectWorkspace
    <3>1. packages' = PackageDirs' /\ \A d : NameOf(d)' = NameOf(d)
      <4>1. repo' = repo
        BY <1>1 DEF input
      <4>2. WorkspacePatterns' = WorkspacePatterns
        BY <4>1 DEF WorkspacePatterns, PatternsBeforeCargo, Has
      <4>3. QED
        BY <2>1, <4>1, <4>2 DEF DetectWorkspace, PackageDirs, NameOf
    <3>2. PackageNames' = {NameOf(d) : d \in PackageDirs}
      BY <2>1, <3>1 DEF DetectWorkspace, PackageNames
    <3>3. graph' = [n \in PackageNames' |-> UsesOf(n) \cap PackageNames']
      BY <2>1, <3>2 DEF DetectWorkspace, InternalUses
    <3>4. QED
      BY <3>1, <3>3 DEF Detected
  <2>2. CASE VisitName \/ NextRound \/ BreakCycle
    <3>1. packages' = packages /\ graph' = graph /\ pc # "detect"
      BY <2>2 DEF VisitName, NextRound, BreakCycle
    <3>2. QED
      BY <1>1, <3>1, PackagesKept DEF RunInv, Detected, TypeOK
  <2>3. QED
    BY <2>1, <2>2
<1>6. Restricted'
  <2>1. CASE DetectWorkspace
    BY <1>1, <2>1 DEF DetectWorkspace, RunInv, Restricted, Posed, Running
  <2>2. CASE VisitName \/ NextRound \/ BreakCycle
    <3>1. packages' = packages /\ pc \in {"sort", "cycle"} /\ pc' \in {"sort", "cycle"}
      BY <2>2 DEF VisitName, NextRound, BreakCycle
    <3>2. QED
      BY <1>1, <3>1, PackagesKept DEF RunInv, Restricted, Posed, Running
  <2>3. QED
    BY <2>1, <2>2
<1>7. TypeOK'
  <2>1. repo' \in Repository /\ plan' \in Seq(Item) /\ request' \in Request /\ status' \in Status
    BY <1>1 DEF RunInv, TypeOK, input
  <2>2. scope' \subseteq PackageNames'
    <3>1. RequestedNames' \subseteq PackageNames'
      BY DEF RequestedNames, ChangedNames, PackageNames, Holding
    <3>2. QED
      BY <1>6, <3>1 DEF Restricted
  <2>3. ordered' \in Seq(scope') /\ remaining' \subseteq scope' /\ round' \subseteq scope'
    BY <1>3 DEF OrderInv, Partition
  <2>4. progressed' \in BOOLEAN /\ pc' \in {"scope", "sort", "cycle"}
    BY DEF DetectWorkspace, VisitName, NextRound, BreakCycle, sorting, RunInv, TypeOK
  <2>5. QED
    BY <1>1, <1>2, <1>5, <2>1, <2>2, <2>3, <2>4 DEF TypeOK, Detected
<1>8. Split' /\ RanOnce' /\ SkippedWhy' /\ OfTheRun' /\ InTurn'
  BY <1>1, <1>2, <1>4 DEF Split, RanOnce, SkippedWhy, OfTheRun, InTurn
<1>9. InPlace'
  <2>1. 0 \notin scope'
    BY <1>1, PackageNamesType DEF RunInv, TypeOK
  <2>2. QED
    BY <1>1, <1>2, <1>4, <2>1 DEF InPlace, DirFor
<1>10. QED
  BY <1>3, <1>4, <1>5, <1>6, <1>7, <1>8, <1>9 DEF RunInv

\* What the run is restricted to is settled, and an unrestricted run has its items.
LEMMA StepScope == ASSUME RunInv, Scope PROVE RunInv'
<1>1. /\ pc = "scope" /\ UNCHANGED <<input, packages, graph, skipped, workDir, current, done>>
      /\ scope' = RequestedNames
      /\ \/ RequestedNames # {} /\ pc' = "sort" /\ items' = items
         \/ RequestedNames = {} /\ pc' = "items" /\ items' = 1..Len(plan)
      /\ remaining' = RequestedNames /\ progressed' = FALSE
  BY DEF Scope, working
<1>2. items = {} /\ skipped = {} /\ done = <<>> /\ current = 0 /\ workDir = 0
  BY <1>1 DEF RunInv, NotYet, Running
<1>3. OrderInv'
  BY StepOrder DEF RunInv, Next
<1>4. Ran' = {} /\ Len(done') = 0
  BY <1>1, <1>2 DEF Ran
<1>5. Detected' /\ Restricted' /\ NotYet'
  BY <1>1, <1>2, PackagesKept DEF RunInv, Detected, Restricted, NotYet, Posed, Running
<1>6. TypeOK'
  <2>1. ordered' \in Seq(scope') /\ remaining' \subseteq scope' /\ round' \subseteq scope'
    BY <1>3 DEF OrderInv, Partition
  <2>2. scope' \subseteq PackageNames'
    BY <1>1, RequestedType, PackagesKept
  <2>3. QED
    BY <1>1, <1>2, <1>5, <2>1, <2>2, PackagesKept DEF RunInv, TypeOK, Detected, input
<1>7. Split'
  BY <1>1, <1>2, <1>4, PackagesKept DEF Split, Running
<1>8. RanOnce' /\ SkippedWhy' /\ OfTheRun' /\ InTurn'
  BY <1>1, <1>2, <1>4 DEF RanOnce, SkippedWhy, OfTheRun, InTurn
<1>9. InPlace'
  <2>1. 0 \notin scope'
    BY <1>1, RequestedType, PackageNamesType DEF RunInv
  <2>2. QED
    BY <1>1, <1>2, <1>4, <2>1 DEF InPlace, DirFor
<1>10. QED
  BY <1>3, <1>5, <1>6, <1>7, <1>8, <1>9 DEF RunInv

\* The plan is split into the items of the run and the others.
LEMMA StepOrderItems == ASSUME RunInv, OrderItems PROVE RunInv'
<1>1. /\ pc \in {"sort", "cycle"} /\ pc' = "items" /\ remaining = {} /\ round = {}
      /\ UNCHANGED <<input, packages, graph, scope, remaining, round, progressed, ordered,
                     workDir, current, done>>
      /\ items' = {i \in 1..Len(plan) : ItemPackage(i) \in scope \cup {0}}
      /\ skipped' = {i \in 1..Len(plan) : ItemPackage(i) \notin scope \cup {0}}
  BY DEF OrderItems, sorting, working, InScope
<1>2. items = {} /\ skipped = {} /\ done = <<>> /\ current = 0 /\ workDir = 0 /\ scope # {}
  BY <1>1 DEF RunInv, NotYet, Running, Restricted
<1>3. OrderInv'
  BY StepOrder DEF RunInv, Next
<1>4. Ran' = {} /\ Len(done') = 0
  BY <1>1, <1>2 DEF Ran
<1>5. Detected' /\ Restricted' /\ NotYet'
  BY <1>1, PackagesKept DEF RunInv, Detected, Restricted, NotYet, Posed, Running
<1>6. TypeOK'
  BY <1>1, PackagesKept DEF RunInv, TypeOK, input
<1>7. Split'
  BY <1>1, <1>4, PackagesKept DEF Split, Running
<1>8. RanOnce' /\ SkippedWhy' /\ OfTheRun' /\ InTurn'
  BY <1>1, <1>2, <1>4, PackagesKept DEF RanOnce, SkippedWhy, OfTheRun, InTurn
<1>9. InPlace'
  <2>1. 0 \notin scope'
    BY <1>1, PackageNamesType DEF RunInv, TypeOK
  <2>2. QED
    BY <1>1, <1>2, <1>4, <2>1 DEF InPlace, DirFor
<1>10. QED
  BY <1>3, <1>5, <1>6, <1>7, <1>8, <1>9 DEF RunInv

\* The directory an item's handler works in is a package of the scope or the root.
LEMMA DirForType == ASSUME TypeOK, NEW n PROVE DirFor(n) \in packages \cup {0}
BY PackageDirFound DEF DirFor, TypeOK

\* An item is handled in the directory of its package.
LEMMA StepRunItem == ASSUME RunInv, RunItem PROVE RunInv'
<1>1. PICK i \in items :
        /\ IsNext(i)
        /\ IF scope # {} /\ ItemPackage(i) # current
           THEN workDir' = DirFor(ItemPackage(i)) /\ current' = ItemPackage(i)
           ELSE UNCHANGED <<workDir, current>>
        /\ done' = Append(done, <<i, workDir'>>)
        /\ items' = items \ {i}
  BY DEF RunItem
<1>2. /\ pc = "items" /\ pc' = "items"
      /\ UNCHANGED <<input, packages, graph, scope, remaining, round, progressed, ordered, skipped>>
  BY DEF RunItem, sorting
<1>3. /\ TypeOK /\ i \in 1..Len(plan) /\ i \notin Ran /\ i \notin skipped
      /\ Running /\ Running' /\ Posed /\ Posed'
  BY <1>1, <1>2 DEF RunInv, TypeOK, Split, Running, Posed
<1>4. /\ scope # {} => workDir' = DirFor(ItemPackage(i)) /\ current' = ItemPackage(i)
      /\ workDir' \in packages \cup {0} /\ current' \in PackageNames \cup {0}
  BY <1>1, <1>3, DirForType, ItemPackageFound DEF RunInv, InPlace, TypeOK
<1> DEFINE n == Len(done)
<1>5. /\ n \in Nat /\ Len(done') = n + 1 /\ \A k \in 1..n : done'[k] = done[k]
      /\ done'[n + 1] = <<i, workDir'>> /\ done'[n + 1][1] = i /\ done'[n + 1][2] = workDir'
      /\ done' \in Seq((1..Len(plan)) \X (packages \cup {0}))
  BY <1>1, <1>3, <1>4 DEF TypeOK
<1> HIDE DEF n
<1>6. \A k \in 1..(n + 1) : k \in 1..n \/ k = n + 1
  BY <1>5
<1>7. Ran' = Ran \cup {i}
  <2>1. ASSUME NEW x \in Ran' PROVE x \in Ran \cup {i}
    BY <1>5, <1>6, <2>1 DEF Ran, n
  <2>2. i \in Ran'
    BY <1>5 DEF Ran
  <2>3. ASSUME NEW x \in Ran PROVE x \in Ran'
    <3>1. PICK k \in 1..n : done[k][1] = x
      BY <2>3 DEF Ran, n
    <3>2. k \in 1..Len(done') /\ done'[k][1] = x
      BY <1>5, <3>1
    <3>3. QED
      BY <3>2 DEF Ran
  <2>4. QED
    BY <2>1, <2>2, <2>3
<1>8. OrderInv'
  BY StepOrder DEF RunInv, Next
<1>9. Detected' /\ Restricted' /\ NotYet'
  BY <1>2, <1>3, PackagesKept DEF RunInv, Detected, Restricted, NotYet
<1>10. TypeOK'
  BY <1>1, <1>2, <1>4, <1>5, PackagesKept DEF RunInv, TypeOK, input
<1>11. Split'
  BY <1>1, <1>2, <1>3, <1>7, PackagesKept DEF RunInv, Split
<1>12. RanOnce'
  <2>1. \A k \in 1..n : done'[k][1] = done[k][1] /\ done[k][1] \in Ran
    BY <1>5 DEF Ran, n
  <2>2. \A k \in 1..n : done'[k][1] # i
    BY <1>3, <2>1
  <2>3. \A k, l \in 1..n : done'[k][1] = done'[l][1] => k = l
    BY <2>1 DEF RunInv, RanOnce, n
  <2>4. QED
    BY <1>5, <1>6, <2>2, <2>3 DEF RanOnce
<1>13. SkippedWhy' /\ OfTheRun'
  BY <1>1, <1>2, <1>7, PackagesKept DEF RunInv, SkippedWhy, OfTheRun
<1>14. InPlace'
  <2> SUFFICES ASSUME scope # {}
               PROVE  /\ workDir' = DirFor(current)'
                      /\ \A k \in 1..(n + 1) : done'[k][2] = DirFor(ItemPackage(done'[k][1]))
    <3>1. \A x : DirFor(x)' = DirFor(x)
      BY <1>2, OrderKept
    <3>2. \A x : ItemPackage(x)' = ItemPackage(x)
      BY <1>2, PackagesKept
    <3>3. QED
      BY <1>2, <1>5, <3>1, <3>2 DEF InPlace
  <2>1. workDir' = DirFor(ItemPackage(i)) /\ current' = ItemPackage(i)
    BY <1>4
  <2>2. \A x : DirFor(x)' = DirFor(x)
    BY <1>2, OrderKept
  <2>3. \A k \in 1..n : done'[k][2] = DirFor(ItemPackage(done'[k][1]))
    BY <1>5 DEF RunInv, InPlace, n
  <2>4. QED
    BY <1>5, <1>6, <2>1, <2>2, <2>3
<1>15. InTurn'
  <2>1. \A x, y : Before(x, y)' = Before(x, y)
    BY <1>2, OrderKept
  <2>2. \A k, l \in 1..n : k < l => Before(done'[k][1], done'[l][1])
    BY <1>5 DEF RunInv, InTurn, n
  <2>3. \A k \in 1..n, j \in items : Before(done'[k][1], j)
    BY <1>5 DEF RunInv, InTurn, n
  <2>4. \A j \in items : Before(i, j)
    BY <1>1 DEF IsNext
  <2>5. \A k, l \in 1..(n + 1) : k < l => Before(done'[k][1], done'[l][1])
    <3> SUFFICES ASSUME NEW k \in 1..(n + 1), NEW l \in 1..(n + 1), k < l
                 PROVE  Before(done'[k][1], done'[l][1])
      OBVIOUS
    <3>1. k \in 1..n
      BY <1>5
    <3>2. CASE l \in 1..n
      BY <2>2, <3>1, <3>2
    <3>3. CASE l = n + 1
      BY <1>1, <1>5, <2>3, <3>1, <3>3
    <3>4. QED
      BY <1>6, <3>2, <3>3
  <2>6. \A k \in 1..(n + 1), j \in items' : Before(done'[k][1], j)
    BY <1>1, <1>5, <1>6, <2>3, <2>4
  <2>7. QED
    BY <1>5, <2>1, <2>5, <2>6 DEF InTurn
<1>16. QED
  BY <1>8, <1>9, <1>10, <1>11, <1>12, <1>13, <1>14, <1>15 DEF RunInv

\* The steps that run nothing.
LEMMA StepRest == ASSUME RunInv, LeaveToAgent \/ Finish \/ UNCHANGED vars PROVE RunInv'
<1>1. UNCHANGED <<input, packages, graph, scope, remaining, round, progressed, ordered,
                  workDir, current, done>>
  BY DEF LeaveToAgent, Finish, vars, sorting, working
<1>2. /\ Posed' = Posed /\ Running' = Running /\ (pc \notin {"items", "done"} => pc' = pc)
      /\ pc' = "detect" <=> pc = "detect"
  BY DEF LeaveToAgent, Finish, vars, Posed, Running
<1>3. \/ \E i \in items : /\ plan[i].risky /\ skipped' = skipped \cup {i} /\ items' = items \ {i}
                          /\ pc = "items" /\ pc' = "items"
      \/ UNCHANGED <<items, skipped>> /\ (pc' # pc => pc' = "done" /\ items = {})
  BY DEF LeaveToAgent, Finish, vars
<1>4. OrderInv'
  BY StepOrder DEF RunInv, Next
<1>5. Detected' /\ Restricted'
  BY <1>1, <1>2, PackagesKept DEF RunInv, Detected, Restricted, Running
<1>6. NotYet'
  BY <1>1, <1>2, <1>3 DEF RunInv, NotYet, Running
<1>7. TypeOK'
  <2>1. items' \cup skipped' \subseteq items \cup skipped
    BY <1>3
  <2>2. pc' \in {"detect", "scope", "sort", "cycle", "items", "done"}
    BY <1>3 DEF RunInv, TypeOK
  <2>3. pc' \notin {"detect", "scope"} => pc \notin {"detect", "scope"}
    BY <1>2 DEF Posed
  <2>4. QED
    BY <1>1, <2>1, <2>2, <2>3, PackagesKept DEF RunInv, TypeOK, input
<1>8. Ran' = Ran
  BY <1>1 DEF Ran
<1>9. Split'
  BY <1>1, <1>2, <1>3, <1>8, PackagesKept DEF RunInv, Split
<1>10. RanOnce' /\ SkippedWhy' /\ OfTheRun'
  <2>1. plan' = plan /\ scope' = scope /\ \A i : ItemPackage(i)' = ItemPackage(i)
    BY <1>1, PackagesKept
  <2>2. items' \subseteq items /\ \A i \in skipped' : i \in skipped \/ plan[i].risky
    BY <1>3
  <2>3. SkippedWhy'
    <3> SUFFICES ASSUME NEW i \in skipped'
                 PROVE  \/ plan[i].risky
                        \/ scope # {} /\ ItemPackage(i) \notin scope \cup {0}
      BY <2>1, Zenon DEF SkippedWhy
    <3>1. CASE i \in skipped
      BY <3>1 DEF RunInv, SkippedWhy
    <3>2. CASE plan[i].risky
      BY <3>2
    <3>3. QED
      BY <2>2, <3>1, <3>2
  <2>4. OfTheRun'
    BY <1>8, <2>1, <2>2 DEF RunInv, OfTheRun
  <2>5. QED
    BY <1>1, <2>3, <2>4 DEF RunInv, RanOnce
<1>11. InPlace' /\ InTurn'
  <2>1. /\ \A x : DirFor(x)' = DirFor(x) /\ ItemPackage(x)' = ItemPackage(x)
        /\ \A x, y : Before(x, y)' = Before(x, y)
    BY <1>1, OrderKept, PackagesKept
  <2>2. items' \subseteq items
    BY <1>3
  <2>3. QED
    BY <1>1, <2>1, <2>2 DEF RunInv, InPlace, InTurn
<1>12. QED
  BY <1>4, <1>5, <1>6, <1>7, <1>9, <1>10, <1>11 DEF RunInv

\* Every state of a run has the invariant.
LEMMA RunInvariant == Spec => []RunInv
<1>1. RunInv /\ [Next]_vars => RunInv'
  BY StepBefore, StepScope, StepOrderItems, StepRunItem, StepRest DEF Next
<1>2. QED
  BY <1>1, InitRun, PTL DEF Spec

\* The package graph and the run over it are well typed for every repository,
\* plan and request (detect_workspace of workspace.py, execute() of execution.py).
THEOREM WorkspaceTypeCorrect == Spec => []TypeOK
<1>1. RunInv => TypeOK
  BY DEF RunInv
<1>2. QED
  BY <1>1, RunInvariant, PTL

\* Splitting the plan over the packages and putting it together again loses no
\* item and repeats none, for every plan and every package graph (execute() of
\* execution.py: pkg_items, root_items, out_of_scope).
THEOREM EveryItemAccounted == Spec => []NoItemLost
<1>1. RunInv => NoItemLost
  <2> SUFFICES ASSUME RunInv, pc = "done"
               PROVE  /\ Len(done) = Cardinality(Ran) /\ Ran \cap skipped = {}
                      /\ Ran \cup skipped = 1..Len(plan)
                      /\ \A i \in skipped :
                           \/ plan[i].risky
                           \/ scope # {} /\ \E k \in 1..Len(plan[i].scope) :
                                              Holding(plan[i].scope[k]) # {}
    BY DEF NoItemLost
  <2>1. Ran \cap skipped = {} /\ Ran \cup skipped = 1..Len(plan)
    BY DEF RunInv, Split, Running
  <2>2. Len(done) = Cardinality(Ran)
    <3> DEFINE f == [k \in 1..Len(done) |-> done[k][1]]
    <3>1. Len(done) \in Nat
      BY DEF RunInv, TypeOK
    <3>2. f \in Bijection(1..Len(done), Ran)
      BY DEF Bijection, Injection, Surjection, IsInjective, Ran, RunInv, RanOnce
    <3>3. ExistsBijection(1..Len(done), Ran)
      BY <3>2 DEF ExistsBijection
    <3>4. QED
      BY <3>1, <3>3, FS_CountingElements
  <2>3. ASSUME NEW i \in skipped, ~plan[i].risky
        PROVE  scope # {} /\ \E k \in 1..Len(plan[i].scope) : Holding(plan[i].scope[k]) # {}
    <3>1. scope # {} /\ ItemPackage(i) # 0
      BY <2>3 DEF RunInv, SkippedWhy
    <3>2. PICK f \in PlacesOf(i) : Holding(f) # {}
      BY <2>1, <2>3, <3>1, ItemPackageFound DEF RunInv
    <3>3. QED
      BY <3>1, <3>2 DEF PlacesOf
  <2>4. QED
    BY <2>1, <2>2, <2>3
<1>2. QED
  BY <1>1, RunInvariant, PTL

\* Where an item of a restricted run has been handled.
LEMMA HandledIn ==
  ASSUME RunInv, scope # {}, UniqueNames, NEW k \in 1..Len(done)
  PROVE  /\ done[k][1] \in 1..Len(plan)
         /\ \/ /\ ItemPackage(done[k][1]) = 0 /\ done[k][2] = 0
               /\ \A f \in PlacesOf(done[k][1]) : Holding(f) = {}
            \/ /\ NameOf(done[k][2]) \in scope /\ done[k][2] # 0
               /\ \E f \in PlacesOf(done[k][1]) : done[k][2] \in Holding(f)
<1> DEFINE i == done[k][1]
<1>1. TypeOK /\ i \in Ran /\ Ran \subseteq 1..Len(plan) /\ 0 \notin scope
  <2>1. TypeOK /\ done \in Seq((1..Len(plan)) \X (packages \cup {0}))
    BY DEF RunInv, TypeOK
  <2>2. \A l \in 1..Len(done) : done[l][1] \in 1..Len(plan)
    BY <2>1
  <2>3. 0 \notin scope
    BY <2>1, PackageNamesType DEF TypeOK
  <2>4. QED
    BY <2>1, <2>2, <2>3 DEF Ran
<1>2. done[k][2] = DirFor(ItemPackage(i)) /\ ItemPackage(i) \in scope \cup {0}
  BY <1>1 DEF RunInv, InPlace, OfTheRun
<1>3. CASE ItemPackage(i) = 0
  <2>1. \A f \in PlacesOf(i) : Holding(f) = {}
    BY <1>1, <1>3, ItemPackageFound, PackageNamesType
  <2>2. QED
    BY <1>1, <1>2, <1>3, <2>1 DEF DirFor
<1>4. CASE ItemPackage(i) # 0
  <2>1. PICK f \in PlacesOf(i) : \E d \in Holding(f) : ItemPackage(i) = NameOf(d)
    BY <1>1, <1>4, ItemPackageFound
  <2>2. PICK d \in Holding(f) : ItemPackage(i) = NameOf(d)
    BY <2>1
  <2>3. ItemPackage(i) \in scope /\ done[k][2] = PackageDir(ItemPackage(i))
    BY <1>2, <1>4 DEF DirFor
  <2>4. ItemPackage(i) \in PackageNames
    BY <1>1, <2>3 DEF TypeOK
  <2>5. done[k][2] \in packages /\ NameOf(done[k][2]) = ItemPackage(i)
    BY <1>1, <2>3, <2>4, PackageDirFound
  <2>6. done[k][2] = d
    BY <2>2, <2>5 DEF UniqueNames, Holding
  <2>7. done[k][2] # 0
    BY <1>1, <2>5, PackagesFinite, WorkspaceAssumption
  <2>8. QED
    BY <1>1, <2>2, <2>3, <2>5, <2>6, <2>7
<1>5. QED
  BY <1>3, <1>4

\* A handler of a restricted run works in a package that holds one of its item's
\* places, and at the root if no package does, although the work directory is
\* only switched between items (execute() of execution.py).
THEOREM RemediationInPackage == Spec => []LandsInPackage
<1>1. RunInv => LandsInPackage
  BY HandledIn DEF LandsInPackage
<1>2. QED
  BY <1>1, RunInvariant, PTL

\* A run restricted to changed packages works in no package without a change and
\* leaves no changed package out (changed_packages of workspace.py).
THEOREM OnlyChangedPackages == Spec => []ChangedOnly
<1>1. RunInv => ChangedOnly
  <2> SUFFICES ASSUME RunInv, request.kind = "changed", scope # {}, UniqueNames
               PROVE  /\ \A k \in 1..Len(done) : done[k][2] # 0 =>
                           \E f \in status.places : done[k][2] \in Holding(f)
                      /\ \A f \in status.places : \E d \in Holding(f) : NameOf(d) \in scope
    BY DEF ChangedOnly
  <2>1. scope = ChangedNames
    BY DEF RunInv, Restricted, RequestedNames
  <2>2. /\ \A f \in status.places : Holding(f) # {}
        /\ scope = {NameOf(d) : d \in UNION {Holding(f) : f \in status.places}}
    BY <2>1 DEF ChangedNames
  <2>3. ASSUME NEW k \in 1..Len(done), done[k][2] # 0
        PROVE  \E f \in status.places : done[k][2] \in Holding(f)
    <3>1. NameOf(done[k][2]) \in scope /\ done[k][2] \in packages
      BY <2>3, HandledIn DEF Holding
    <3>2. PICK f \in status.places : \E d \in Holding(f) : NameOf(d) = NameOf(done[k][2])
      BY <2>2, <3>1
    <3>3. PICK d \in Holding(f) : NameOf(d) = NameOf(done[k][2])
      BY <3>2
    <3>4. d = done[k][2]
      BY <3>1, <3>3 DEF UniqueNames, Holding
    <3>5. QED
      BY <3>3, <3>4
  <2>4. ASSUME NEW f \in status.places PROVE \E d \in Holding(f) : NameOf(d) \in scope
    <3>1. PICK d \in Holding(f) : TRUE
      BY <2>2
    <3>2. NameOf(d) \in scope
      BY <2>2
    <3>3. QED
      BY <3>2
  <2>5. QED
    BY <2>3, <2>4
<1>2. QED
  BY <1>1, RunInvariant, PTL

\* Of two items that are done, only one comes before the other.
LEMMA BeforeStrict ==
  ASSUME RunInv, NEW i \in Ran, NEW j \in Ran, i # j, Before(i, j)
  PROVE  ~Before(j, i)
<1>1. i \in Nat /\ j \in Nat
  BY DEF RunInv, TypeOK, Ran
<1>2. ordered \in Seq(scope) /\ Once(ordered)
  BY DEF RunInv, OrderInv, Partition
<1> DEFINE p == ItemPackage(i)
           q == ItemPackage(j)
<1>3. CASE scope = {} \/ p = q
  BY <1>1, <1>3 DEF Before
<1>4. CASE scope # {} /\ p # q
  <2>1. p # 0
    BY <1>4 DEF Before
  <2>2. CASE q = 0
    BY <1>4, <2>2 DEF Before
  <2>3. CASE q # 0
    <3> HIDE DEF p, q
    <3>1. PICK l \in 1..Len(ordered) : \E k \in 1..(l - 1) : ordered[k] = p /\ ordered[l] = q
      BY <1>4, <2>3 DEF Before, p, q
    <3>2. PICK k \in 1..(l - 1) : ordered[k] = p /\ ordered[l] = q
      BY <3>1
    <3>3. ASSUME NEW m \in 1..Len(ordered), NEW n \in 1..(m - 1), ordered[n] = q, ordered[m] = p
          PROVE  FALSE
      <4>1. Len(ordered) \in Nat
        BY <1>2
      <4>2. k \in 1..Len(ordered) /\ n \in 1..Len(ordered)
        BY <4>1
      <4>3. n = l /\ m = k
        BY <1>2, <3>2, <3>3, <4>2 DEF Once
      <4>4. QED
        BY <4>1, <4>3
    <3>4. QED
      BY <1>4, <2>1, <3>3 DEF Before, p, q
  <2>4. QED
    BY <2>2, <2>3
<1>5. QED
  BY <1>3, <1>4

\* An item runs after the item it depends on, also when the plan is put in the
\* order of the packages, unless that order is against it (dependency_order of
\* workspace.py, execute() of execution.py).
THEOREM DependenciesRunFirst == Spec => []DependencyFirst
<1>1. RunInv => DependencyFirst
  <2> SUFFICES ASSUME RunInv, NEW i \in Ran, NEW j \in Ran, pc = "done",
                      j \in plan[i].dependencies \cap (1..(i - 1)),
                      \/ scope = {} \/ ItemPackage(i) \in {0, ItemPackage(j)}
                      \/ /\ ItemPackage(j) \in graph[ItemPackage(i)]
                         /\ ~Ordering!Endless(ItemPackage(j))
               PROVE  PositionOf(j) < PositionOf(i)
    BY DEF DependencyFirst
  <2> DEFINE p == ItemPackage(i)
             q == ItemPackage(j)
  <2>1. TypeOK /\ Posed /\ Running /\ ordered \in Seq(scope) /\ i \in Nat /\ j \in Nat /\ j < i
    BY DEF RunInv, OrderInv, Partition, TypeOK, Posed, Running, Ran
  <2>2. Before(j, i)
    <3>1. CASE scope = {} \/ p = q
      BY <2>1, <3>1 DEF Before
    <3>2. CASE scope # {} /\ p # q /\ p = 0
      BY <3>2 DEF Before
    <3>3. CASE scope # {} /\ p # q /\ p # 0
      <4>1. q \in graph[p] /\ ~Endless(q)
        BY <2>1, <3>3 DEF Ordering!Endless, Endless, Posed
      <4>2. p \in scope /\ q \in scope \cup {0} /\ scope \subseteq PackageNames
        BY <2>1, <3>3 DEF RunInv, OfTheRun, TypeOK
      <4>3. q \in scope
        BY <2>1, <4>1, <4>2, PackageNamesType DEF TypeOK, Posed
      <4>4. PICK l \in 1..Len(ordered) : ordered[l] = p
        BY <2>1, <4>2 DEF RunInv, OrderInv, Partition, Listed, Restricted
      <4>5. PICK k \in 1..(l - 1) : ordered[k] = q
        BY <2>1, <4>1, <4>3, <4>4 DEF RunInv, OrderInv, UsesFirst
      <4>6. q # 0
        BY <2>1, <4>2, <4>3, PackageNamesType
      <4>7. QED
        BY <3>3, <4>4, <4>5, <4>6 DEF Before
    <3>4. QED
      BY <3>1, <3>2, <3>3
  <2>3. PICK k \in 1..Len(done) : done[k][1] = i
    BY DEF Ran
  <2>4. PICK l \in 1..Len(done) : done[l][1] = j
    BY DEF Ran
  <2>5. PositionOf(i) = k /\ PositionOf(j) = l
    BY <2>3, <2>4 DEF PositionOf, RunInv, RanOnce
  <2>6. ~(k < l) /\ k # l
    <3>1. ~Before(i, j)
      BY <2>1, <2>2, BeforeStrict
    <3>2. QED
      BY <2>1, <2>3, <2>4, <3>1 DEF RunInv, InTurn
  <2>7. QED
    BY <2>1, <2>5, <2>6 DEF TypeOK
<1>2. QED
  BY <1>1, RunInvariant, PTL
=============================================================================
