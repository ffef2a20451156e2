-------------------------- MODULE ExecutionProofs ---------------------------
(***************************************************************************)
(* What Execution promises for every plan, working tree and file limit:    *)
(* its types, that the records stay within the limit, that an item         *)
(* reported COMPLETE has a record, that -- where no file has the name of a *)
(* coverage file -- what the user had changed is left alone, and that --   *)
(* where Git shows the files of a handler one by one -- every file written *)
(* has its rollback operation.                                             *)
(***************************************************************************)
EXTENDS Execution, Induction, FiniteSetTheorems, TLAPS

-----------------------------------------------------------------------------
(* Lists. *)

\* Putting a list behind another.
LEMMA Joined ==
  ASSUME NEW S, NEW s \in Seq(S), NEW n \in Nat, NEW f \in [1..n -> S]
  PROVE  /\ s \o f \in Seq(S)
         /\ Len(s \o f) = Len(s) + n
         /\ \A k \in 1..Len(s) : (s \o f)[k] = s[k]
         /\ \A k \in 1..n : (s \o f)[Len(s) + k] = f[k]
         /\ \A k \in 1..(Len(s) + n) :
              \/ k \in 1..Len(s) /\ (s \o f)[k] = s[k]
              \/ k - Len(s) \in 1..n /\ (s \o f)[k] = f[k - Len(s)]
<1>1. f \in Seq(S) /\ Len(f) = n
  OBVIOUS
<1>2. QED
  BY <1>1

\* The paths of a list of records.
LEMMA ListedFinite ==
  ASSUME NEW s \in Seq(Change)
  PROVE  /\ IsFiniteSet({s[k].path : k \in 1..Len(s)})
         /\ Cardinality({s[k].path : k \in 1..Len(s)}) \in Nat
<1> DEFINE T == {s[k].path : k \in 1..Len(s)}
<1> DEFINE f == [k \in 1..Len(s) |-> s[k].path]
<1>1. f \in Surjection(1..Len(s), T)
  BY DEF Surjection
<1>2. IsFiniteSet(1..Len(s))
  BY FS_Interval
<1>3. IsFiniteSet(T)
  BY <1>1, <1>2, FS_Surjection
<1>4. QED
  BY <1>3, FS_CardinalityType

\* n more records name their paths, at most n of them.
LEMMA JoinedPaths ==
  ASSUME NEW s \in Seq(Change), NEW n \in Nat, NEW f \in [1..n -> Change]
  PROVE  /\ {(s \o f)[k].path : k \in 1..Len(s \o f)}
              = {s[k].path : k \in 1..Len(s)} \cup {f[k].path : k \in 1..n}
         /\ Cardinality({(s \o f)[k].path : k \in 1..Len(s \o f)})
              <= Cardinality({s[k].path : k \in 1..Len(s)}) + n
<1> DEFINE A == {s[k].path : k \in 1..Len(s)}
           B == {f[k].path : k \in 1..n}
           T == {(s \o f)[k].path : k \in 1..Len(s \o f)}
           g == [k \in 1..n |-> f[k].path]
<1>1. IsFiniteSet(1..n) /\ Cardinality(1..n) = n
  BY FS_Interval
<1>2. g \in Surjection(1..n, B)
  BY DEF Surjection
<1>3. IsFiniteSet(B) /\ Cardinality(B) <= n
  BY <1>1, <1>2, FS_Surjection
<1>4. IsFiniteSet(A) /\ Cardinality(A) \in Nat
  BY ListedFinite
<1>5. /\ IsFiniteSet(A \cup B)
      /\ Cardinality(A \cup B) = Cardinality(A) + Cardinality(B) - Cardinality(A \cap B)
  BY <1>3, <1>4, FS_Union
<1>6. Cardinality(B) \in Nat
  BY <1>3, FS_CardinalityType
<1>7. Cardinality(A \cap B) \in Nat
  BY <1>4, FS_Subset, FS_CardinalityType
<1>8. T = A \cup B
  <2>1. Len(s \o f) = Len(s) + n /\ Len(s) \in Nat
    BY Joined
  <2>2. ASSUME NEW k \in 1..Len(s \o f) PROVE (s \o f)[k].path \in A \cup B
    BY <2>1, Joined
  <2>3. ASSUME NEW k \in 1..Len(s) PROVE s[k].path \in T
    <3>1. k \in 1..Len(s \o f) /\ (s \o f)[k] = s[k]
      BY <2>1, Joined
    <3>2. QED
      BY <3>1
  <2>4. ASSUME NEW k \in 1..n PROVE f[k].path \in T
    <3>1. Len(s) + k \in 1..Len(s \o f) /\ (s \o f)[Len(s) + k] = f[k]
      BY <2>1, Joined
    <3>2. QED
      BY <3>1
  <2>5. QED
    BY <2>2, <2>3, <2>4
<1> HIDE DEF A, B, T
<1>9. Cardinality(A \cup B) <= Cardinality(A) + n
  BY <1>3, <1>4, <1>5, <1>6, <1>7
<1>10. QED
  BY <1>8, <1>9 DEF A, B, T

-----------------------------------------------------------------------------
(* Type correctness.  A handler works on an item, and writes a target of it. *)

HandlerOnItem ==
  /\ pc \in {"exists", "write", "checkpoint", "blocked"} => at \in Items
  /\ pc = "write" => target < Len(Plan[at].targets)

TypeInv == TypeOK /\ HandlerOnItem

\* A planned item and its targets.
LEMMA ItemType ==
  ASSUME NEW i \in Items
  PROVE  /\ Plan[i] \in PlanItem
         /\ Plan[i].targets \in Seq(Paths) /\ Len(Plan[i].targets) \in Nat
         /\ i + 1 \in 1..(Len(Plan) + 1)
         /\ i \in 0..Len(Plan)
<1>1. Plan \in Seq(PlanItem) /\ Len(Plan) \in Nat
  BY ExecutionAssumption
<1>2. Plan[i] \in PlanItem /\ i + 1 \in 1..(Len(Plan) + 1) /\ i \in 0..Len(Plan)
  BY <1>1 DEF Items
<1>3. Plan[i].targets \in Seq(Paths)
  BY <1>2 DEF PlanItem
<1>4. QED
  BY <1>2, <1>3

\* A run starts well typed.
LEMMA InitTypes == Init => TypeInv
<1> SUFFICES ASSUME Init PROVE TypeInv
  OBVIOUS
<1>1. tree \in [Paths -> Content] /\ index \subseteq Committed
  BY ExecutionAssumption DEF Init
<1>2. 1 \in 1..(Len(Plan) + 1)
  BY ExecutionAssumption
<1>3. 0 \in 0..(IF at \in Items THEN Len(Plan[at].targets) ELSE 0)
  BY ItemType
<1>4. completion \in [Items -> Dispositions \cup {"none"}]
  BY DEF Init
<1>5. QED
  BY <1>1, <1>2, <1>3, <1>4 DEF Init, TypeInv, TypeOK, HandlerOnItem

\* Git names paths of the tree and the directories of Dirs.
LEMMA StatusType ==
  ASSUME TypeOK
  PROVE  StatusEntries \subseteq [path : Paths \cup Dirs, type : {"create", "modify", "delete"}]
BY ExecutionAssumption DEF TypeOK, StatusEntries, TrackedEntries, UntrackedEntries, EntryOf

\* What the scan finds is finite and names files.
LEMMA NetNewType ==
  ASSUME TypeOK
  PROVE  /\ NetNew \subseteq [path : Paths, type : {"create", "modify", "delete"}]
         /\ IsFiniteSet(NetNew)
<1> DEFINE Types == {"create", "modify", "delete"}
           E == [path : Paths, type : Types]
           f == [e \in Paths \X Types |-> [path |-> e[1], type |-> e[2]]]
<1>1. NetNew \subseteq E
  BY StatusType DEF NetNew
<1>2. f \in Surjection(Paths \X Types, E)
  <2>1. f \in [Paths \X Types -> E]
    OBVIOUS
  <2>2. ASSUME NEW e \in E PROVE \E x \in Paths \X Types : f[x] = e
    <3>1. <<e.path, e.type>> \in Paths \X Types /\ f[<<e.path, e.type>>] = e
      OBVIOUS
    <3>2. QED
      BY <3>1
  <2>3. QED
    BY <2>1, <2>2 DEF Surjection
<1>3. IsFiniteSet(Types)
  <2>1. IsFiniteSet({"create"}) /\ IsFiniteSet({"modify"}) /\ IsFiniteSet({"delete"})
    BY FS_Singleton
  <2>2. IsFiniteSet({"create"} \cup {"modify"})
    BY <2>1, FS_Union
  <2>3. IsFiniteSet(({"create"} \cup {"modify"}) \cup {"delete"})
    BY <2>1, <2>2, FS_Union
  <2>4. Types = ({"create"} \cup {"modify"}) \cup {"delete"}
    OBVIOUS
  <2>5. QED
    BY <2>3, <2>4
<1>4. IsFiniteSet(Paths \X Types)
  BY <1>3, ExecutionAssumption, FS_Product
<1>5. IsFiniteSet(E)
  BY <1>2, <1>4, FS_Surjection
<1>6. QED
  BY <1>1, <1>5, FS_Subset

\* Putting a finite set in some order.
LEMMA SetInOrder ==
  ASSUME NEW S, IsFiniteSet(S)
  PROVE  /\ Cardinality(S) \in Nat
         /\ SetToSeq(S) \in [1..Cardinality(S) -> S]
         /\ Len(SetToSeq(S)) = Cardinality(S)
         /\ \A x \in S : \E k \in 1..Cardinality(S) : SetToSeq(S)[k] = x
<1>1. Cardinality(S) \in Nat /\ ExistsBijection(1..Cardinality(S), S)
  BY FS_CardinalityType
<1>2. \E f \in [1..Cardinality(S) -> S] : IsInjective(f)
  BY <1>1 DEF ExistsBijection, Bijection, Injection
<1>3. SetToSeq(S) \in [1..Cardinality(S) -> S] /\ IsInjective(SetToSeq(S))
  BY <1>2 DEF SetToSeq
<1>4. SetToSeq(S) \in Injection(1..Cardinality(S), S)
  BY <1>3 DEF Injection
<1>5. Cardinality(1..Cardinality(S)) = Cardinality(S)
  BY <1>1, FS_Interval
<1>6. SetToSeq(S) \in Surjection(1..Cardinality(S), S)
  BY <1>4, <1>5, FS_Injection
<1>7. \A x \in S : \E k \in 1..Cardinality(S) : SetToSeq(S)[k] = x
  BY <1>6 DEF Surjection
<1>8. QED
  BY <1>1, <1>3, <1>7

\* The files recorded once the first n records of an item are in.
RecordedWith(n) == ChangedFiles \cup {itemChanges[j] : j \in 1..n}

\* They are finitely many, more with every record.
LEMMA RecordedWithFinite ==
  ASSUME TypeInv, NEW n \in 0..Len(itemChanges)
  PROVE  /\ IsFiniteSet(RecordedWith(n)) /\ Cardinality(RecordedWith(n)) \in Nat
         /\ \A m \in 0..n : Cardinality(RecordedWith(m)) <= Cardinality(RecordedWith(n))
         /\ n > 0 => Cardinality(RecordedWith(n)) <= Cardinality(RecordedWith(n - 1)) + 1
         /\ RecordedWith(0) = ChangedFiles
<1> DEFINE T == {itemChanges[j] : j \in 1..n}
           g == [j \in 1..n |-> itemChanges[j]]
<1>1. n \in Nat /\ changes \in Seq(Change) /\ itemChanges \in Seq(Paths)
  BY DEF TypeInv, TypeOK
<1>2. IsFiniteSet(T)
  <2>1. g \in Surjection(1..n, T)
    BY DEF Surjection
  <2>2. IsFiniteSet(1..n)
    BY <1>1, FS_Interval
  <2>3. QED
    BY <2>1, <2>2, FS_Surjection
<1>3. IsFiniteSet(ChangedFiles)
  BY <1>1, ListedFinite DEF ChangedFiles
<1>4. IsFiniteSet(RecordedWith(n))
  BY <1>2, <1>3, FS_Union DEF RecordedWith
<1>5. ASSUME NEW m \in 0..n PROVE Cardinality(RecordedWith(m)) <= Cardinality(RecordedWith(n))
  <2>1. RecordedWith(m) \subseteq RecordedWith(n)
    BY <1>1 DEF RecordedWith
  <2>2. QED
    BY <1>4, <2>1, FS_Subset
<1>6. ASSUME n > 0
      PROVE  Cardinality(RecordedWith(n)) <= Cardinality(RecordedWith(n - 1)) + 1
  <2>1. RecordedWith(n) = RecordedWith(n - 1) \cup {itemChanges[n]}
    BY <1>1, <1>6 DEF RecordedWith
  <2>2. IsFiniteSet(RecordedWith(n - 1))
    BY <1>4, <2>1, FS_Subset
  <2>3. Cardinality(RecordedWith(n - 1)) \in Nat
    BY <2>2, FS_CardinalityType
  <2>4. \/ Cardinality(RecordedWith(n)) = Cardinality(RecordedWith(n - 1))
        \/ Cardinality(RecordedWith(n)) = Cardinality(RecordedWith(n - 1)) + 1
    BY <2>1, <2>2, FS_AddElement
  <2>5. QED
    BY <2>3, <2>4
<1>7. RecordedWith(0) = ChangedFiles
  BY DEF RecordedWith
<1>8. QED
  BY <1>4, <1>5, <1>6, <1>7, FS_CardinalityType

\* The records of an item are those of the first files its handler has written:
\* all of them, or as many as the limit allows.
LEMMA RecordedType ==
  ASSUME TypeInv, at \in Items
  PROVE  \E n \in 0..Len(itemChanges) :
           /\ Recorded = changes \o [k \in 1..n |-> [path |-> itemChanges[k],
                                                     type |-> "create", item |-> at]]
           /\ n = Len(itemChanges) \/ Cardinality(RecordedWith(n)) >= MaxFiles
           /\ Cardinality(ChangedFiles) < MaxFiles =>
                /\ Cardinality(RecordedWith(n)) <= MaxFiles
                /\ itemChanges # <<>> => n > 0
           /\ [k \in 1..n |-> [path |-> itemChanges[k], type |-> "create", item |-> at]]
                \in [1..n -> Change]
           /\ Recorded \in Seq(Change)
<1> DEFINE L == Len(itemChanges)
           Full == {m \in 0..L : m = L \/ Cardinality(RecordedWith(m)) >= MaxFiles}
<1>1. changes \in Seq(Change) /\ itemChanges \in Seq(Paths) /\ L \in Nat
  BY DEF TypeInv, TypeOK
<1>2. MaxFiles \in Nat /\ \A m \in 0..L : Cardinality(RecordedWith(m)) \in Nat
  BY RecordedWithFinite, ExecutionAssumption
<1>3. PICK n \in Full : \A m \in Full : n <= m
  <2>1. Full \subseteq Nat /\ L \in Full
    BY <1>1
  <2>2. QED
    BY <2>1, LeastNumber
<1> DEFINE f == [k \in 1..n |-> [path |-> itemChanges[k], type |-> "create", item |-> at]]
           ahead(k) == ChangedFiles \cup {itemChanges[j] : j \in 1..(k - 1)}
           kept == {k \in 1..L : Cardinality(ahead(k)) < MaxFiles}
<1>4. n \in 0..L
  BY <1>3
<1>5. \A k \in 1..L : ahead(k) = RecordedWith(k - 1)
  BY DEF RecordedWith
<1>6. kept = 1..n
  <2> HIDE DEF ahead
  <2>1. ASSUME NEW k \in 1..L, k <= n PROVE Cardinality(ahead(k)) < MaxFiles
    <3>1. k - 1 \in 0..L /\ k - 1 \notin Full
      BY <1>1, <1>3, <1>4, <2>1
    <3>2. Cardinality(RecordedWith(k - 1)) \in Nat /\ ahead(k) = RecordedWith(k - 1)
      BY <1>2, <1>5, <3>1
    <3>3. ~(Cardinality(RecordedWith(k - 1)) >= MaxFiles)
      BY <3>1
    <3>4. QED
      BY <1>2, <3>2, <3>3
  <2>2. ASSUME NEW k \in 1..L, k > n PROVE ~(Cardinality(ahead(k)) < MaxFiles)
    <3>1. n # L /\ k - 1 \in 0..L /\ n \in 0..(k - 1)
      BY <1>1, <1>4, <2>2
    <3>2. Cardinality(RecordedWith(n)) >= MaxFiles
      BY <1>3, <3>1
    <3>3. Cardinality(RecordedWith(n)) <= Cardinality(RecordedWith(k - 1))
      BY <3>1, RecordedWithFinite
    <3>4. /\ Cardinality(RecordedWith(n)) \in Nat /\ Cardinality(RecordedWith(k - 1)) \in Nat
          /\ ahead(k) = RecordedWith(k - 1)
      BY <1>2, <1>4, <1>5, <3>1
    <3>5. QED
      BY <1>2, <3>2, <3>3, <3>4
  <2>3. QED
    BY <1>1, <1>4, <2>1, <2>2
<1>7. f \in [1..n -> Change]
  <2>1. ASSUME NEW k \in 1..n PROVE itemChanges[k] \in Paths
    BY <1>1, <1>4
  <2>2. at \in 0..Len(Plan)
    BY ItemType
  <2>3. QED
    BY <2>1, <2>2 DEF Change
<1>8. Recorded = changes \o f
  <2>1. Recorded = changes \o [k \in kept |-> [path |-> itemChanges[k], type |-> "create",
                                               item |-> at]]
    BY DEF Recorded
  <2> HIDE DEF kept
  <2>2. QED
    BY <1>6, <2>1
<1>9. Recorded \in Seq(Change)
  <2> HIDE DEF f
  <2>1. n \in Nat
    BY <1>1, <1>4
  <2>2. QED
    BY <1>1, <1>7, <1>8, <2>1, Joined
<1>10. ASSUME Cardinality(ChangedFiles) < MaxFiles
       PROVE  Cardinality(RecordedWith(n)) <= MaxFiles /\ (itemChanges # <<>> => n > 0)
  <2>1. CASE n = 0
    <3>1. RecordedWith(0) = ChangedFiles
      BY <1>4, <2>1, RecordedWithFinite
    <3>2. L = 0
      BY <1>2, <1>3, <1>10, <2>1, <3>1
    <3>3. QED
      BY <1>1, <1>2, <1>10, <2>1, <3>1, <3>2
  <2>2. CASE n > 0
    <3>1. n - 1 \in 0..L /\ n - 1 \notin Full
      BY <1>1, <1>3, <1>4, <2>2
    <3>2. Cardinality(RecordedWith(n - 1)) < MaxFiles
      BY <1>2, <3>1
    <3>3. Cardinality(RecordedWith(n)) <= Cardinality(RecordedWith(n - 1)) + 1
      BY <1>4, <2>2, RecordedWithFinite
    <3>4. QED
      BY <1>2, <1>4, <2>2, <3>1, <3>2, <3>3
  <2>3. QED
    BY <1>1, <1>4, <2>1, <2>2
<1>11. n = L \/ Cardinality(RecordedWith(n)) >= MaxFiles
  BY <1>3
<1> HIDE DEF f
<1>12. QED
  BY <1>4, <1>7, <1>8, <1>9, <1>10, <1>11 DEF f

\* What the scan adds to the records.
LEMMA ScanType ==
  ASSUME TypeInv, ScanGit
  PROVE  \E n \in Nat : \E f \in [1..n -> Change] :
           /\ changes' = changes \o f
           /\ Cardinality(ChangedFiles) + n <= MaxFiles
<1>1. PICK S \in SUBSET NetNew :
        /\ \/ S = NetNew /\ Cardinality(ChangedFiles) + Cardinality(NetNew) <= MaxFiles
           \/ /\ Cardinality(ChangedFiles) + Cardinality(NetNew) > MaxFiles
              /\ Cardinality(ChangedFiles) + Cardinality(S) = MaxFiles
        /\ changes' = changes \o [k \in 1..Len(SetToSeq(S)) |->
              [path |-> SetToSeq(S)[k].path, type |-> SetToSeq(S)[k].type, item |-> 0]]
  BY DEF ScanGit
<1>2. IsFiniteSet(S) /\ S \subseteq [path : Paths, type : {"create", "modify", "delete"}]
  BY NetNewType, FS_Subset DEF TypeInv
<1>3. /\ Cardinality(S) \in Nat /\ Len(SetToSeq(S)) = Cardinality(S)
      /\ SetToSeq(S) \in [1..Cardinality(S) -> S]
  BY <1>2, SetInOrder
<1> DEFINE f == [k \in 1..Cardinality(S) |->
              [path |-> SetToSeq(S)[k].path, type |-> SetToSeq(S)[k].type, item |-> 0]]
<1>4. f \in [1..Cardinality(S) -> Change]
  <2>1. 0 \in 0..Len(Plan)
    BY ExecutionAssumption
  <2>2. ASSUME NEW k \in 1..Cardinality(S)
        PROVE  SetToSeq(S)[k] \in [path : Paths, type : {"create", "modify", "delete"}]
    BY <1>2, <1>3
  <2>3. QED
    BY <2>1, <2>2 DEF Change
<1>5. changes' = changes \o f /\ Cardinality(ChangedFiles) + Cardinality(S) <= MaxFiles
  <2>1. Cardinality(ChangedFiles) \in Nat
    BY ListedFinite DEF ChangedFiles, TypeInv, TypeOK
  <2>2. QED
    BY <1>1, <1>3, <2>1, ExecutionAssumption
<1>6. QED
  BY <1>3, <1>4, <1>5

\* Going on to the next item.
LEMMA NextItemType ==
  ASSUME TypeInv, at \in Items, NextItem
  PROVE  /\ at' \in 1..(Len(Plan) + 1) /\ itemChanges' \in Seq(Paths)
         /\ target' \in 0..(IF at' \in Items THEN Len(Plan[at'].targets) ELSE 0)
         /\ pc' = "item"
BY ItemType DEF NextItem

\* A command of the repository changes the tree and nothing else.
LEMMA CommandType ==
  ASSUME TypeInv, NEW S \in SUBSET ToolPaths, RunsCommand(S)
  PROVE  /\ tree' \in [Paths -> Content] /\ ran' \subseteq Paths
         /\ UNCHANGED <<before, written, edited>>
BY ExecutionAssumption DEF TypeInv, TypeOK, RunsCommand, Content

\* Every step of the run keeps the types.
LEMMA StepTypes == ASSUME TypeInv, [Next]_vars PROVE TypeInv'
<1> USE DEF TypeInv, TypeOK, HandlerOnItem, baseline, handler, records, saved, history
<1>1. CASE CheckEscalation
  BY <1>1 DEF CheckEscalation
<1>2. CASE CaptureBaselinePaths
  <2>1. StatusPaths \subseteq Paths \cup Dirs
    BY StatusType DEF StatusPaths
  <2>2. QED
    BY <1>2, <2>1 DEF CaptureBaselinePaths
<1>3. CASE CaptureContentBaseline
  <2>1. DirtyPaths \subseteq Paths \cup Dirs
    BY StatusType DEF DirtyPaths, StatusPaths
  <2>2. QED
    BY <1>3, <2>1 DEF CaptureContentBaseline
<1>4. CASE CollectCoverage
  <2>1. /\ tree' \in [Paths -> Content] /\ ran' \subseteq Paths
        /\ UNCHANGED <<before, written, edited>>
    BY <1>4, ExecutionAssumption DEF CollectCoverage, Content
  <2>2. QED
    BY <1>4, <2>1 DEF CollectCoverage
<1>5. ASSUME at \in Items, AgentOnly
      PROVE  recs' \subseteq Items \X Dispositions
             /\ completion' \in [Items -> Dispositions \cup {"none"}]
  BY <1>5 DEF AgentOnly, Dispositions
<1>6. CASE SkipItem
  BY <1>5, <1>6, NextItemType DEF SkipItem
<1>7. CASE StartHandler
  BY <1>7 DEF StartHandler
<1>8. CASE CheckExists
  <2>1. at \in Items /\ Len(Plan[at].targets) \in Nat
    BY <1>8, ItemType DEF CheckExists
  <2>2. QED
    BY <1>8, <2>1 DEF CheckExists
<1>9. CASE RefuseDirty
  BY <1>5, <1>9, NextItemType DEF RefuseDirty
<1>10. CASE WriteTarget
  <2> DEFINE p == Plan[at].targets[target + 1]
  <2>1. at \in Items /\ target \in Nat /\ target + 1 \in 1..Len(Plan[at].targets)
    BY <1>10, ItemType DEF WriteTarget
  <2>2. p \in Paths
    BY <2>1, ItemType
  <2>3. /\ tree' = [tree EXCEPT ![p] = "rup"]
        /\ backups' = (IF Present(p) THEN backups \cup {<<p, tree[p]>>} ELSE backups)
        /\ itemChanges' = Append(itemChanges, p) /\ written' = written \cup {p}
    BY <1>10 DEF WriteTarget
  <2> HIDE DEF p
  <2>4. /\ tree' \in [Paths -> Content] /\ backups' \subseteq Paths \X Content
        /\ itemChanges' \in Seq(Paths) /\ written' \subseteq Paths
    BY <2>2, <2>3 DEF Content
  <2>5. QED
    BY <1>10, <2>1, <2>4 DEF WriteTarget
<1>11. CASE FinishItem
  <2>1. at \in Items
    BY <1>11 DEF FinishItem
  <2>2. changes' \in Seq(Change)
    BY <1>11, <2>1, RecordedType DEF FinishItem
  <2>3. Recommended \in Dispositions
    BY <2>1, ItemType DEF PlanItem, Recommended
  <2>4. HandlerRecs \subseteq Items \X Dispositions /\ Resolved \in Dispositions
    BY <2>1, <2>3 DEF HandlerRecs, Resolved, ResolveCompletion, Dispositions
  <2>5. /\ tree' \in [Paths -> Content] /\ ran' \subseteq Paths
        /\ UNCHANGED <<before, written, edited>>
    BY <1>11, CommandType DEF FinishItem
  <2>6. /\ recs' \subseteq Items \X Dispositions
        /\ completion' \in [Items -> Dispositions \cup {"none"}]
    <3>1. /\ recs' = HandlerRecs \/ recs' = HandlerRecs \cup {<<at, "PARTIAL">>}
          /\ \/ completion' = [completion EXCEPT ![at] = Resolved]
             \/ completion' = [completion EXCEPT ![at] = "PARTIAL"]
      BY <1>11 DEF FinishItem
    <3>2. "PARTIAL" \in Dispositions
      BY DEF Dispositions
    <3>3. QED
      BY <2>1, <2>4, <3>1, <3>2
  <2>7. NextItem /\ UNCHANGED <<index, override, gatesAllowed, baseline, backups, saved>>
    BY <1>11 DEF FinishItem
  <2>8. QED
    BY <2>1, <2>2, <2>5, <2>6, <2>7, NextItemType
<1>12. CASE LocalVerification
  <2>1. /\ tree' \in [Paths -> Content] /\ ran' \subseteq Paths
        /\ UNCHANGED <<before, written, edited>>
    BY <1>12, CommandType DEF LocalVerification
  <2>2. QED
    BY <1>12, <2>1 DEF LocalVerification
<1>13. CASE ScanGit
  <2>1. PICK n \in Nat : \E f \in [1..n -> Change] : changes' = changes \o f
    BY <1>13, ScanType
  <2>2. PICK f \in [1..n -> Change] : changes' = changes \o f
    BY <2>1
  <2>3. changes \in Seq(Change)
    OBVIOUS
  <2> HIDE DEF TypeInv, TypeOK, HandlerOnItem
  <2>4. changes \o f \in Seq(Change)
    BY <2>3, Joined
  <2>5. changes' \in Seq(Change)
    BY <2>2, <2>4
  <2> USE DEF TypeInv, TypeOK, HandlerOnItem
  <2>6. QED
    BY <1>13, <2>5 DEF ScanGit
<1>14. CASE SaveExecution
  BY <1>14 DEF SaveExecution
<1>15. CASE SaveState
  <2>1. ASSUME NEW c \in Change PROVE OperationFor(c) \in Operation
    <3>1. BackupOf(c.path) \in Content
      BY DEF BackupOf, Content
    <3>2. QED
      BY <3>1 DEF OperationFor, Operation, Change
  <2>2. operations' \in Seq(Operation)
    BY <1>15, <2>1 DEF SaveState
  <2>3. QED
    BY <1>15, <2>2 DEF SaveState
<1>16. CASE Crash
  BY <1>16 DEF Crash
<1>17. ASSUME NEW p \in Paths, UserEdit(p) PROVE TypeInv'
  <2>1. tree' \in [Paths -> Content] /\ edited' \subseteq Paths
    BY <1>17 DEF UserEdit, Content
  <2>2. QED
    BY <1>17, <2>1 DEF UserEdit
<1>18. CASE UNCHANGED vars
  BY <1>18 DEF vars
<1>19. QED
  BY <1>1, <1>2, <1>3, <1>4, <1>6, <1>7, <1>8, <1>9, <1>10, <1>11, <1>12, <1>13, <1>14,
     <1>15, <1>16, <1>17, <1>18 DEF Next, Run

\* Type correctness of the execution phase, for every plan, tree and limit.
THEOREM ExecutionTypeCorrect == Spec => []TypeOK
<1>1. TypeInv /\ [Next]_vars => TypeInv'
  BY StepTypes
<1>2. TypeInv => TypeOK
  BY DEF TypeInv
<1>3. QED
  BY InitTypes, <1>1, <1>2, PTL DEF Spec

-----------------------------------------------------------------------------
(* The user's changes.  That they are kept does not follow from itself: what *)
(* protects a changed file of HEAD is that it was noted down as dirty, and   *)
(* what protects one Git does not track, or shows only by its directory, is  *)
(* that it is there when a handler looks.  Nothing protects a coverage file. *)

Disturbed == edited \cup ran

\* Every changed file of HEAD is among the dirty paths of the run.
DirtyNoted ==
  pc \in {"coverage", "item", "exists", "write", "checkpoint", "blocked"} =>
    \A p \in Committed \ Disturbed : DirtyBefore(p) => p \in dirty

\* A handler writes what was not there.
WritesAbsent ==
  pc = "write" => LET p == Plan[at].targets[target + 1]
                  IN  Present(p) => p \in Disturbed

\* A run does not touch Git's index.
IndexKept == \A p \in Committed \ Disturbed : p \in index <=> p \notin Staged

KeptInv == TypeInv /\ IndexKept /\ BaselineKept /\ DirtyNoted /\ WritesAbsent

\* The user's changes are there when the run starts.
LEMMA InitKept == Init => KeptInv
BY InitTypes DEF Init, KeptInv, IndexKept, BaselineKept, DirtyNoted, WritesAbsent

\* A step that changes no file but those it counts as disturbed.
LEMMA KeptBySparing ==
  ASSUME KeptInv, UNCHANGED before, Disturbed \subseteq Disturbed',
         \A p \in Paths \ Disturbed' : tree'[p] = tree[p]
  PROVE  /\ BaselineKept'
         /\ (/\ dirty' = dirty
             /\ pc \in {"coverage", "item", "exists", "write", "checkpoint", "blocked"})
            => DirtyNoted'
<1>1. \A p : DirtyBefore(p)' <=> DirtyBefore(p)
  BY DEF DirtyBefore
<1>2. BaselineKept'
  BY <1>1 DEF KeptInv, BaselineKept, Disturbed
<1>3. QED
  BY <1>1, <1>2 DEF KeptInv, DirtyNoted

\* git status shows every changed file of HEAD when the baseline is captured.
LEMMA ChangedIsShown ==
  ASSUME KeptInv, NEW p \in Committed \ Disturbed, DirtyBefore(p)
  PROVE  p \in DirtyPaths
<1>1. p \in Paths /\ tree[p] = before[p]
  BY ExecutionAssumption DEF KeptInv, BaselineKept, Disturbed
<1>2. p \notin index \/ ~Present(p) \/ (p \in index /\ Present(p) /\ tree[p] # "head")
  BY <1>1, ExecutionAssumption DEF KeptInv, IndexKept, DirtyBefore, Present
<1>3. \E e \in TrackedEntries : e.path = p
  <2>1. CASE p \notin index \/ ~Present(p)
    <3>1. [path |-> p, type |-> "delete"] \in TrackedEntries
      BY <2>1 DEF TrackedEntries
    <3>2. QED
      BY <3>1
  <2>2. CASE p \in index /\ Present(p) /\ tree[p] # "head"
    <3>1. [path |-> p, type |-> "modify"] \in TrackedEntries
      BY <2>2 DEF TrackedEntries
    <3>2. QED
      BY <3>1
  <2>3. QED
    BY <1>2, <2>1, <2>2
<1>4. QED
  BY <1>3 DEF DirtyPaths, StatusPaths, StatusEntries

\* A handler overwrites no change of the user's.
LEMMA WriteSpares ==
  ASSUME KeptInv, pc = "write", NEW p \in Paths \ Disturbed,
         p = Plan[at].targets[target + 1], p \notin dirty
  PROVE  ~DirtyBefore(p)
<1>1. ~Present(p)
  BY DEF KeptInv, WritesAbsent
<1>2. ASSUME DirtyBefore(p) PROVE FALSE
  <2>1. tree[p] = before[p]
    BY <1>2 DEF KeptInv, BaselineKept, Disturbed
  <2>2. p \in Committed
    BY <1>1, <1>2, <2>1, ExecutionAssumption DEF DirtyBefore, Present
  <2>3. QED
    BY <1>2, <2>2 DEF KeptInv, DirtyNoted
<1>3. QED
  BY <1>2

\* No step touches the index, or forgets who has changed a path.
LEMMA IndexUntouched ==
  ASSUME [Next]_vars
  PROVE  index' = index /\ edited \subseteq edited' /\ ran \subseteq ran'
<1>1. index' = index
  BY DEF history, Next, Run, vars, CheckEscalation, CaptureBaselinePaths, CaptureContentBaseline,
     CollectCoverage, SkipItem, StartHandler, CheckExists, RefuseDirty, WriteTarget, FinishItem,
     LocalVerification, ScanGit, SaveExecution, SaveState, Crash, UserEdit
<1>2. edited \subseteq edited' /\ ran \subseteq ran'
  BY DEF history, Next, Run, vars, CheckEscalation, CaptureBaselinePaths, CaptureContentBaseline,
     CollectCoverage, SkipItem, StartHandler, CheckExists, RefuseDirty, WriteTarget, FinishItem,
     LocalVerification, ScanGit, SaveExecution, SaveState, Crash, UserEdit, RunsCommand
<1>3. QED
  BY <1>1, <1>2

\* Every step spares them, where no file has the name of a coverage file.
LEMMA StepKept ==
  ASSUME CoverageFiles = {}, KeptInv, [Next]_vars
  PROVE  KeptInv'
<1> USE DEF baseline, handler, records, saved, history
<1>1. TypeInv'
  BY StepTypes DEF KeptInv
<1>2. IndexKept'
  BY IndexUntouched DEF KeptInv, IndexKept, Disturbed
<1>3. ASSUME UNCHANGED <<tree, history>> PROVE BaselineKept'
  BY <1>3, KeptBySparing DEF Disturbed
<1>4. ASSUME UNCHANGED <<tree, history, dirty>>,
             pc \in {"coverage", "item", "exists", "write", "checkpoint", "blocked"}
      PROVE  DirtyNoted'
  BY <1>4, KeptBySparing DEF Disturbed
<1>5. CASE CheckEscalation
  BY <1>1, <1>2, <1>3, <1>5 DEF CheckEscalation, KeptInv, DirtyNoted, WritesAbsent
<1>6. CASE CaptureBaselinePaths
  BY <1>1, <1>2, <1>3, <1>6 DEF CaptureBaselinePaths, KeptInv, DirtyNoted, WritesAbsent
<1>7. CASE CaptureContentBaseline
  <2>1. UNCHANGED <<tree, history>> /\ dirty' = DirtyPaths /\ pc' # "write"
    BY <1>7 DEF CaptureContentBaseline
  <2>2. DirtyNoted'
    <3>1. ASSUME NEW p \in Committed \ Disturbed', DirtyBefore(p)' PROVE p \in dirty'
      <4>1. p \in Committed \ Disturbed /\ DirtyBefore(p)
        BY <2>1, <3>1 DEF Disturbed, DirtyBefore
      <4>2. QED
        BY <2>1, <4>1, ChangedIsShown
    <3>2. QED
      BY <3>1 DEF DirtyNoted
  <2>3. QED
    BY <1>1, <1>2, <1>3, <2>1, <2>2 DEF KeptInv, WritesAbsent
<1>8. CASE CollectCoverage
  <2>1. /\ UNCHANGED before /\ Disturbed \subseteq Disturbed' /\ pc = "coverage" /\ pc' = "item"
        /\ dirty' = dirty
        /\ \A p \in Paths \ Disturbed' : tree'[p] = tree[p]
    BY <1>8 DEF CollectCoverage, Disturbed
  <2>2. BaselineKept' /\ DirtyNoted'
    BY <2>1, KeptBySparing
  <2>3. QED
    BY <1>1, <1>2, <2>1, <2>2 DEF KeptInv, WritesAbsent
<1>9. CASE SkipItem
  BY <1>1, <1>2, <1>3, <1>4, <1>9 DEF SkipItem, NextItem, KeptInv, WritesAbsent
<1>10. CASE StartHandler
  BY <1>1, <1>2, <1>3, <1>4, <1>10 DEF StartHandler, KeptInv, WritesAbsent
<1>11. CASE CheckExists
  <2>1. UNCHANGED <<tree, history, dirty, at>> /\ pc = "exists"
    BY <1>11 DEF CheckExists
  <2>2. WritesAbsent'
    BY <1>11, <2>1 DEF CheckExists, WritesAbsent, Present
  <2>3. QED
    BY <1>1, <1>2, <1>3, <1>4, <2>1, <2>2 DEF KeptInv
<1>12. CASE RefuseDirty
  BY <1>1, <1>2, <1>3, <1>4, <1>12 DEF RefuseDirty, NextItem, KeptInv, WritesAbsent
<1>13. CASE WriteTarget
  <2> DEFINE t == Plan[at].targets[target + 1]
  <2>1. /\ pc = "write" /\ pc' = "exists" /\ t \notin dirty /\ tree' = [tree EXCEPT ![t] = "rup"]
        /\ UNCHANGED <<before, edited, ran, dirty>>
    BY <1>13 DEF WriteTarget
  <2>2. \A p : DirtyBefore(p)' <=> DirtyBefore(p)
    BY <2>1 DEF DirtyBefore
  <2>3. BaselineKept'
    <3>1. ASSUME NEW p \in Paths \ (edited' \cup ran'), DirtyBefore(p)'
          PROVE  tree'[p] = before'[p]
      <4>1. p \in Paths \ Disturbed /\ DirtyBefore(p) /\ tree[p] = before[p]
        BY <2>1, <2>2, <3>1 DEF Disturbed, KeptInv, BaselineKept
      <4>2. p # t
        BY <2>1, <4>1, WriteSpares
      <4>3. tree'[p] = tree[p]
        BY <2>1, <4>1, <4>2 DEF KeptInv, TypeInv, TypeOK
      <4>4. QED
        BY <2>1, <4>1, <4>3
    <3>2. QED
      BY <3>1 DEF BaselineKept
  <2>4. DirtyNoted'
    BY <2>1, <2>2 DEF KeptInv, DirtyNoted, Disturbed
  <2>5. QED
    BY <1>1, <1>2, <2>1, <2>3, <2>4 DEF KeptInv, WritesAbsent
<1>14. CASE FinishItem
  <2>1. /\ UNCHANGED before /\ Disturbed \subseteq Disturbed' /\ dirty' = dirty
        /\ pc \in {"checkpoint", "blocked"} /\ pc' = "item"
        /\ \A p \in Paths \ Disturbed' : tree'[p] = tree[p]
    BY <1>14 DEF FinishItem, NextItem, RunsCommand, Disturbed
  <2>2. BaselineKept' /\ DirtyNoted'
    BY <2>1, KeptBySparing
  <2>3. QED
    BY <1>1, <1>2, <2>1, <2>2 DEF KeptInv, WritesAbsent
<1>15. CASE LocalVerification
  <2>1. /\ UNCHANGED before /\ Disturbed \subseteq Disturbed' /\ pc' = "scan"
        /\ \A p \in Paths \ Disturbed' : tree'[p] = tree[p]
    BY <1>15 DEF LocalVerification, RunsCommand, Disturbed
  <2>2. BaselineKept'
    BY <2>1, KeptBySparing
  <2>3. QED
    BY <1>1, <1>2, <2>1, <2>2 DEF KeptInv, DirtyNoted, WritesAbsent
<1>16. CASE ScanGit
  BY <1>1, <1>2, <1>3, <1>16 DEF ScanGit, KeptInv, DirtyNoted, WritesAbsent
<1>17. CASE SaveExecution
  BY <1>1, <1>2, <1>3, <1>17 DEF SaveExecution, KeptInv, DirtyNoted, WritesAbsent
<1>18. CASE SaveState
  BY <1>1, <1>2, <1>3, <1>18 DEF SaveState, KeptInv, DirtyNoted, WritesAbsent
<1>19. CASE Crash
  BY <1>1, <1>2, <1>3, <1>19 DEF Crash, KeptInv, DirtyNoted, WritesAbsent
<1>20. ASSUME NEW q \in Paths, UserEdit(q) PROVE KeptInv'
  <2>1. /\ UNCHANGED <<pc, at, target, dirty, before>> /\ Disturbed' = Disturbed \cup {q}
    BY <1>20 DEF UserEdit, Disturbed
  <2>2. \A p \in Paths : p # q => tree'[p] = tree[p]
    BY <1>20 DEF UserEdit, KeptInv, TypeInv, TypeOK
  <2>3. BaselineKept' /\ DirtyNoted'
    <3>1. BaselineKept'
      BY <2>1, <2>2, KeptBySparing
    <3>2. DirtyNoted'
      BY <2>1 DEF KeptInv, DirtyNoted, DirtyBefore
    <3>3. QED
      BY <3>1, <3>2
  <2>4. WritesAbsent'
    <3>1. CASE pc = "write"
      <4>1. Plan[at].targets[target + 1] \in Paths
        BY <3>1, ItemType DEF KeptInv, TypeInv, TypeOK, HandlerOnItem
      <4>2. QED
        BY <2>1, <2>2, <3>1, <4>1 DEF KeptInv, WritesAbsent, Present
    <3>2. QED
      BY <2>1, <3>1 DEF WritesAbsent
  <2>5. QED
    BY <1>1, <1>2, <2>3, <2>4 DEF KeptInv
<1>21. CASE UNCHANGED vars
  <2>1. UNCHANGED <<tree, history, dirty, pc, at, target>>
    BY <1>21 DEF vars
  <2>2. QED
    BY <1>1, <1>2, <1>3, <2>1 DEF KeptInv, DirtyNoted, WritesAbsent, Disturbed, DirtyBefore, Present
<1>22. QED
  BY <1>5, <1>6, <1>7, <1>8, <1>9, <1>10, <1>11, <1>12, <1>13, <1>14, <1>15, <1>16, <1>17,
     <1>18, <1>19, <1>20, <1>21 DEF Next, Run

\* Where no file has the name of a coverage file, whatever the user edits, the
\* repository's commands write and wherever the phase is killed, what the user had
\* changed before the run stays as it was.  (With such a file it does not: run
\* execution_coverage.)
THEOREM UserChangesKept ==
  ASSUME CoverageFiles = {} PROVE Spec => []BaselineKept
<1>1. KeptInv /\ [Next]_vars => KeptInv'
  BY StepKept
<1>2. KeptInv => BaselineKept
  BY DEF KeptInv
<1>3. QED
  BY InitKept, <1>1, <1>2, PTL DEF Spec

-----------------------------------------------------------------------------
(* The file limit, and what COMPLETE rests on. *)

\* A handler starts only below the limit, and nothing is recorded while it runs.
RoomLeft ==
  pc \in {"exists", "write", "checkpoint", "blocked"} => Cardinality(ChangedFiles) < MaxFiles

\* A complete item has a record, and the records are those that are saved.
CompleteRecorded ==
  \A i \in Items : completion[i] = "COMPLETE" =>
    \E k \in 1..Len(changes) : changes[k].item = i

RecordsSaved == pc \in {"save_state", "done"} => execution = changes

LimitInv == TypeInv /\ RecordedWithinLimit /\ RoomLeft /\ CompleteRecorded /\ RecordsSaved

\* Nothing is recorded yet.
LEMMA InitLimit == Init => LimitInv
<1> SUFFICES ASSUME Init PROVE LimitInv
  OBVIOUS
<1>1. ChangedFiles = {}
  BY DEF Init, ChangedFiles
<1>2. RecordedWithinLimit
  BY <1>1, FS_EmptySet, ExecutionAssumption DEF RecordedWithinLimit
<1>3. QED
  BY <1>2, InitTypes DEF Init, LimitInv, RoomLeft, CompleteRecorded, RecordsSaved

\* Recording n changes where there is room for them.
LEMMA RecordingKeeps ==
  ASSUME LimitInv, NEW n \in Nat, NEW f \in [1..n -> Change], changes' = changes \o f,
         \/ Cardinality(ChangedFiles) + n <= MaxFiles
         \/ Cardinality(ChangedFiles \cup {f[k].path : k \in 1..n}) <= MaxFiles
  PROVE  /\ RecordedWithinLimit'
         /\ ChangedFiles' = ChangedFiles \cup {f[k].path : k \in 1..n}
         /\ Len(changes') = Len(changes) + n
         /\ \A k \in 1..Len(changes) : changes'[k] = changes[k]
         /\ \A k \in 1..n : changes'[Len(changes) + k] = f[k]
<1>1. changes \in Seq(Change)
  BY DEF LimitInv, TypeInv, TypeOK
<1>2. /\ changes \o f \in Seq(Change) /\ Len(changes \o f) = Len(changes) + n
      /\ \A k \in 1..Len(changes) : (changes \o f)[k] = changes[k]
      /\ \A k \in 1..n : (changes \o f)[Len(changes) + k] = f[k]
  <2>1. changes \o f \in Seq(Change)
    BY <1>1, Joined
  <2>2. Len(changes \o f) = Len(changes) + n
    BY <1>1, Joined
  <2>3. \A k \in 1..Len(changes) : (changes \o f)[k] = changes[k]
    BY <1>1, Joined
  <2>4. \A k \in 1..n : (changes \o f)[Len(changes) + k] = f[k]
    BY <1>1, Joined
  <2>5. QED
    BY <2>1, <2>2, <2>3, <2>4
<1>3. /\ ChangedFiles' = ChangedFiles \cup {f[k].path : k \in 1..n}
      /\ Cardinality(ChangedFiles') <= Cardinality(ChangedFiles) + n
  <2>1. /\ ChangedFiles' = {(changes \o f)[k].path : k \in 1..Len(changes \o f)}
        /\ ChangedFiles = {changes[k].path : k \in 1..Len(changes)}
    BY DEF ChangedFiles
  <2>2. {(changes \o f)[k].path : k \in 1..Len(changes \o f)}
          = {changes[k].path : k \in 1..Len(changes)} \cup {f[k].path : k \in 1..n}
    BY <1>1, JoinedPaths
  <2>3. Cardinality({(changes \o f)[k].path : k \in 1..Len(changes \o f)})
          <= Cardinality({changes[k].path : k \in 1..Len(changes)}) + n
    BY <1>1, JoinedPaths
  <2>4. QED
    BY <2>1, <2>2, <2>3
<1>4. Cardinality(ChangedFiles) \in Nat /\ Cardinality(ChangedFiles') \in Nat
  BY <1>1, <1>2, ListedFinite DEF ChangedFiles
<1>5. Cardinality(ChangedFiles') <= MaxFiles
  BY <1>3, <1>4, ExecutionAssumption
<1>6. QED
  BY <1>2, <1>3, <1>5 DEF RecordedWithinLimit

\* Every step of the run respects the limit.
LEMMA StepLimit == ASSUME LimitInv, [Next]_vars PROVE LimitInv'
<1> USE DEF baseline, handler, records, saved, history
<1>1. TypeInv'
  BY StepTypes DEF LimitInv
<1>2. ASSUME UNCHANGED changes PROVE RecordedWithinLimit' /\ UNCHANGED ChangedFiles
  BY <1>2 DEF LimitInv, RecordedWithinLimit, ChangedFiles
<1>3. ASSUME UNCHANGED <<changes, completion>> PROVE CompleteRecorded'
  BY <1>3 DEF LimitInv, CompleteRecorded
<1>4. ASSUME UNCHANGED changes, AgentOnly, at \in Items PROVE CompleteRecorded'
  BY <1>4 DEF AgentOnly, LimitInv, CompleteRecorded, TypeInv, TypeOK
<1>5. ASSUME UNCHANGED records,
             pc' \in {"refused", "baseline", "capture", "coverage", "item", "scan", "killed"}
      PROVE  LimitInv'
  BY <1>1, <1>2, <1>3, <1>5 DEF LimitInv, RoomLeft, RecordsSaved
<1>6. CASE CheckEscalation \/ CaptureBaselinePaths \/ CaptureContentBaseline \/ CollectCoverage
           \/ LocalVerification \/ Crash
  BY <1>5, <1>6 DEF CheckEscalation, CaptureBaselinePaths, CaptureContentBaseline,
     CollectCoverage, LocalVerification, Crash
<1>7. CASE SkipItem
  <2>1. UNCHANGED changes /\ AgentOnly /\ at \in Items /\ pc' = "item"
    BY <1>7 DEF SkipItem, NextItem
  <2>2. QED
    BY <1>1, <1>2, <1>4, <2>1 DEF LimitInv, RoomLeft, RecordsSaved
<1>8. CASE StartHandler
  <2>1. UNCHANGED records /\ Cardinality(ChangedFiles) < MaxFiles /\ pc' \in {"blocked", "exists"}
    <3>1. Cardinality(ChangedFiles) \in Nat
      BY ListedFinite DEF ChangedFiles, LimitInv, TypeInv, TypeOK
    <3>2. QED
      BY <1>8, <3>1, ExecutionAssumption DEF StartHandler, LimitReached
  <2>2. QED
    BY <1>1, <1>2, <1>3, <2>1 DEF LimitInv, RoomLeft, RecordsSaved
<1>9. CASE CheckExists
  <2>1. UNCHANGED records /\ pc = "exists" /\ pc' \in {"checkpoint", "exists", "write"}
    BY <1>9 DEF CheckExists
  <2>2. QED
    BY <1>1, <1>2, <1>3, <2>1 DEF LimitInv, RoomLeft, RecordsSaved
<1>10. CASE RefuseDirty
  <2>1. at \in Items
    BY <1>10 DEF RefuseDirty, LimitInv, TypeInv, HandlerOnItem
  <2>2. QED
    BY <1>1, <1>2, <1>4, <1>10, <2>1 DEF RefuseDirty, NextItem, LimitInv, RoomLeft, RecordsSaved
<1>11. CASE WriteTarget
  BY <1>1, <1>2, <1>3, <1>11 DEF WriteTarget, LimitInv, RoomLeft, RecordsSaved
<1>12. CASE FinishItem
  <2>1. at \in Items /\ Cardinality(ChangedFiles) < MaxFiles
    BY <1>12 DEF FinishItem, LimitInv, TypeInv, HandlerOnItem, RoomLeft
  <2>2. changes' = Recorded /\ pc' = "item"
    BY <1>12 DEF FinishItem, NextItem
  <2>3. PICK n \in 0..Len(itemChanges) :
          /\ Recorded = changes \o [k \in 1..n |-> [path |-> itemChanges[k],
                                                    type |-> "create", item |-> at]]
          /\ Cardinality(RecordedWith(n)) <= MaxFiles
          /\ itemChanges # <<>> => n > 0
          /\ [k \in 1..n |-> [path |-> itemChanges[k], type |-> "create", item |-> at]]
               \in [1..n -> Change]
    BY <2>1, RecordedType DEF LimitInv
  <2> DEFINE f == [k \in 1..n |-> [path |-> itemChanges[k], type |-> "create", item |-> at]]
  <2>4. n \in Nat /\ Len(changes) \in Nat
    BY DEF LimitInv, TypeInv, TypeOK
  <2>5. /\ RecordedWithinLimit'
        /\ Len(changes') = Len(changes) + n
        /\ \A k \in 1..Len(changes) : changes'[k] = changes[k]
        /\ \A k \in 1..n : changes'[Len(changes) + k] = f[k]
    <3>1. ChangedFiles \cup {f[k].path : k \in 1..n} = RecordedWith(n)
      BY DEF RecordedWith
    <3> HIDE DEF f
    <3>2. changes' = changes \o f /\ f \in [1..n -> Change]
      BY <2>2, <2>3 DEF f
    <3>3. QED
      BY <2>3, <2>4, <3>1, <3>2, RecordingKeeps
  <2>6. CompleteRecorded'
    <3> SUFFICES ASSUME NEW i \in Items, completion'[i] = "COMPLETE"
                 PROVE  \E k \in 1..Len(changes') : changes'[k].item = i
      BY DEF CompleteRecorded
    <3>1. completion' \in {[completion EXCEPT ![at] = Resolved],
                           [completion EXCEPT ![at] = "PARTIAL"]}
      BY <1>12 DEF FinishItem
    <3>2. CASE i = at
      <4>1. Resolved = "COMPLETE"
        BY <2>1, <3>1, <3>2 DEF LimitInv, TypeInv, TypeOK
      <4>2. itemChanges # <<>>
        <5>1. Recommended \in Dispositions
          BY <2>1, ItemType DEF PlanItem, Recommended
        <5>2. QED
          BY <4>1, <5>1 DEF Resolved, ResolveCompletion, Rank, Dispositions
      <4>3. n > 0
        BY <2>3, <4>2
      <4>4. Len(changes) + 1 \in 1..Len(changes') /\ changes'[Len(changes) + 1] = f[1]
        BY <2>4, <2>5, <4>3
      <4>5. f[1].item = at
        BY <2>4, <4>3
      <4>6. QED
        BY <3>2, <4>4, <4>5
    <3>3. CASE i # at
      <4>1. completion[i] = "COMPLETE"
        BY <3>1, <3>3 DEF LimitInv, TypeInv, TypeOK
      <4>2. PICK k \in 1..Len(changes) : changes[k].item = i
        BY <4>1 DEF LimitInv, CompleteRecorded
      <4>3. k \in 1..Len(changes') /\ changes'[k].item = i
        BY <2>4, <2>5, <4>2
      <4>4. QED
        BY <4>3
    <3>4. QED
      BY <3>2, <3>3
  <2>7. QED
    BY <1>1, <2>2, <2>5, <2>6 DEF LimitInv, RoomLeft, RecordsSaved
<1>13. CASE ScanGit
  <2>1. PICK n \in Nat : \E f \in [1..n -> Change] :
          changes' = changes \o f /\ Cardinality(ChangedFiles) + n <= MaxFiles
    BY <1>13, ScanType DEF LimitInv
  <2>2. PICK f \in [1..n -> Change] :
          changes' = changes \o f /\ Cardinality(ChangedFiles) + n <= MaxFiles
    BY <2>1
  <2>3. /\ RecordedWithinLimit' /\ Len(changes') = Len(changes) + n
        /\ \A k \in 1..Len(changes) : changes'[k] = changes[k]
    BY <2>2, RecordingKeeps
  <2>4. Len(changes) \in Nat /\ completion' = completion /\ pc' = "save_execution"
    BY <1>13 DEF ScanGit, LimitInv, TypeInv, TypeOK
  <2>5. CompleteRecorded'
    <3>1. 1..Len(changes) \subseteq 1..Len(changes')
      BY <2>3, <2>4
    <3>2. QED
      BY <2>3, <2>4, <3>1 DEF LimitInv, CompleteRecorded
  <2>6. QED
    BY <1>1, <2>3, <2>4, <2>5 DEF LimitInv, RoomLeft, RecordsSaved
<1>14. CASE SaveExecution
  BY <1>1, <1>2, <1>3, <1>14 DEF SaveExecution, LimitInv, RoomLeft, RecordsSaved
<1>15. CASE SaveState
  BY <1>1, <1>2, <1>3, <1>15 DEF SaveState, LimitInv, RoomLeft, RecordsSaved
<1>16. ASSUME NEW p \in Paths, UserEdit(p) PROVE LimitInv'
  BY <1>1, <1>2, <1>3, <1>16 DEF UserEdit, LimitInv, RoomLeft, RecordsSaved
<1>17. CASE UNCHANGED vars
  BY <1>1, <1>2, <1>3, <1>17 DEF vars, LimitInv, RoomLeft, RecordsSaved
<1>18. QED
  BY <1>6, <1>7, <1>8, <1>9, <1>10, <1>11, <1>12, <1>13, <1>14, <1>15, <1>16, <1>17
     DEF Next, Run

\* The handlers' records and the scan's together never exceed --max-files.
THEOREM RecordsStayWithinLimit == Spec => []RecordedWithinLimit
<1>1. LimitInv /\ [Next]_vars => LimitInv'
  BY StepLimit
<1>2. LimitInv => RecordedWithinLimit
  BY DEF LimitInv
<1>3. QED
  BY InitLimit, <1>1, <1>2, PTL DEF Spec

\* No item is reported COMPLETE whose records the limit has cut off.
THEOREM CompleteIsRecorded == Spec => []CompleteHasChange
<1>1. LimitInv /\ [Next]_vars => LimitInv'
  BY StepLimit
<1>2. LimitInv => CompleteHasChange
  BY DEF LimitInv, CompleteRecorded, RecordsSaved, CompleteHasChange
<1>3. QED
  BY InitLimit, <1>1, <1>2, PTL DEF Spec

-----------------------------------------------------------------------------
(* What the handlers wrote.  Until the run ends a written file is recorded,  *)
(* or its handler still holds the record, or the scan will find it, or the   *)
(* limit is reached.  The scan finds a file only where Git shows it as such: *)
(* in the root, or beside a file of the index.                               *)

ShownAsFile(p) == DirOf[p] = Root \/ \E q \in Committed \ Staged : DirOf[q] = DirOf[p]

\* A handler of several files can be refused between two of them, and then the
\* scan is all that records the first ones.
SeveralShown ==
  \A i \in Items : Len(Plan[i].targets) > 1 =>
    \A k \in 1..Len(Plan[i].targets) : ShownAsFile(Plan[i].targets[k])

IndexFixed == index = Committed \ Staged

Preparing == {"load", "baseline", "capture", "coverage"}
Handling == {"exists", "write", "checkpoint", "blocked"}

\* The two captures agree on what the user leaves alone, and both hold the staged
\* deletions.
BaselineCaptured ==
  /\ pc = "capture" => \A p \in Paths \ edited : p \in baselinePaths => p \in StatusPaths
  /\ pc \notin {"load", "refused", "baseline", "capture", "killed"} =>
       \A p \in Paths \ edited : p \in baselinePaths => p \in dirty
  /\ pc \notin {"load", "refused", "baseline", "killed"} =>
       Committed \ index \subseteq baselinePaths

\* What a handler has written are targets it has dealt with.
TargetsWritten ==
  \A k \in 1..Len(itemChanges) :
    at \in Items /\ \E j \in 1..target : itemChanges[k] = Plan[at].targets[j]

InHand(p) == pc \in Handling /\ \E k \in 1..Len(itemChanges) : itemChanges[k] = p
ToBeFound(p) == EntryOf(p) = p /\ pc \in Handling \cup {"item", "scan"}
Accounted(p) == p \in ChangedFiles \/ LimitReached \/ InHand(p) \/ ToBeFound(p)

\* A written file is there, unlike HEAD's.
Standing(p) == Present(p) /\ tree[p] # "head" /\ p \notin dirty

WrittenAccounted ==
  pc # "killed" => \A p \in written \ edited : Standing(p) /\ Accounted(p)

NothingWritten == pc \in Preparing \cup {"refused"} => written = {}

OperationsSaved == pc = "done" => OperatedOn = ChangedFiles

WritesInv ==
  /\ LimitInv /\ IndexFixed /\ BaselineCaptured /\ TargetsWritten /\ WrittenAccounted
  /\ NothingWritten /\ OperationsSaved

\* Nothing is written yet.
LEMMA InitWrites == Init => WritesInv
<1> SUFFICES ASSUME Init PROVE WritesInv
  OBVIOUS
<1>1. LimitInv
  BY InitLimit
<1>2. itemChanges = <<>> /\ written = {} /\ pc = "load" /\ index = Committed \ Staged
  BY DEF Init
<1>3. QED
  BY <1>1, <1>2 DEF WritesInv, IndexFixed, BaselineCaptured, TargetsWritten, WrittenAccounted,
     NothingWritten, OperationsSaved

\* A path is an entry of git status if it differs from HEAD's, or Git does not
\* track it and shows it as a file.
LEMMA StatusOfPath ==
  ASSUME TypeOK, NEW p \in Paths
  PROVE  p \in StatusPaths <=>
           \/ p \in Committed /\ (p \notin index \/ ~Present(p) \/ tree[p] # "head")
           \/ p \notin index /\ Present(p) /\ EntryOf(p) = p
<1>1. ASSUME NEW q \in Paths, EntryOf(q) = p PROVE q = p
  BY <1>1, ExecutionAssumption DEF EntryOf
<1>2. p \in StatusPaths <=> \E e \in StatusEntries : e.path = p
  BY DEF StatusPaths
<1>3. (\E e \in TrackedEntries : e.path = p) <=>
        p \in Committed /\ (p \notin index \/ ~Present(p) \/ tree[p] # "head")
  <2>1. ASSUME NEW e \in TrackedEntries, e.path = p
        PROVE  p \in Committed /\ (p \notin index \/ ~Present(p) \/ tree[p] # "head")
    BY <2>1 DEF TrackedEntries
  <2>2. ASSUME p \in Committed, p \notin index \/ ~Present(p)
        PROVE  \E e \in TrackedEntries : e.path = p
    <3>1. [path |-> p, type |-> "delete"] \in TrackedEntries
      BY <2>2 DEF TrackedEntries
    <3>2. QED
      BY <3>1
  <2>3. ASSUME p \in Committed \cap index, Present(p), tree[p] # "head"
        PROVE  \E e \in TrackedEntries : e.path = p
    <3>1. [path |-> p, type |-> "modify"] \in TrackedEntries
      BY <2>3 DEF TrackedEntries
    <3>2. QED
      BY <3>1
  <2>4. QED
    BY <2>1, <2>2, <2>3
<1>4. (\E e \in UntrackedEntries : e.path = p) <=> p \notin index /\ Present(p) /\ EntryOf(p) = p
  <2>1. ASSUME NEW e \in UntrackedEntries, e.path = p
        PROVE  p \notin index /\ Present(p) /\ EntryOf(p) = p
    <3>1. PICK q \in Paths \ index : Present(q) /\ e = [path |-> EntryOf(q), type |-> "create"]
      BY DEF UntrackedEntries
    <3>2. q = p
      BY <1>1, <2>1, <3>1
    <3>3. QED
      BY <2>1, <3>1, <3>2
  <2>2. ASSUME p \notin index, Present(p), EntryOf(p) = p
        PROVE  \E e \in UntrackedEntries : e.path = p
    <3>1. [path |-> p, type |-> "create"] \in UntrackedEntries
      BY <2>2 DEF UntrackedEntries
    <3>2. QED
      BY <3>1
  <2>3. QED
    BY <2>1, <2>2
<1>5. QED
  BY <1>2, <1>3, <1>4 DEF StatusEntries

\* Git goes on showing a path that nobody touches.
LEMMA StatusStays ==
  ASSUME TypeOK, index' = index, NEW p \in Paths, tree'[p] = tree[p], p \in StatusPaths
  PROVE  p \in StatusPaths'
<1>1. PICK e \in StatusEntries : e.path = p
  BY DEF StatusPaths
<1>2. CASE e \in TrackedEntries
  <2>1. e \in TrackedEntries'
    BY <1>1, <1>2 DEF TrackedEntries, Present
  <2>2. QED
    BY <1>1, <2>1 DEF StatusPaths, StatusEntries
<1>3. CASE e \in UntrackedEntries
  <2>1. PICK q \in Paths \ index : Present(q) /\ e = [path |-> EntryOf(q), type |-> "create"]
    BY <1>3 DEF UntrackedEntries
  <2>2. q = p
    BY <1>1, <2>1, ExecutionAssumption DEF EntryOf
  <2>3. e = [path |-> EntryOf(p)', type |-> "create"] /\ p \in Paths \ index' /\ Present(p)'
    BY <2>1, <2>2 DEF EntryOf, Present
  <2>4. e \in UntrackedEntries'
    BY <2>3 DEF UntrackedEntries
  <2>5. QED
    BY <1>1, <2>4 DEF StatusPaths, StatusEntries
<1>4. QED
  BY <1>1, <1>2, <1>3 DEF StatusEntries

\* Once recorded stays recorded, once reached stays reached.
LEMMA RecordsStay ==
  ASSUME TypeInv, TypeInv', ChangedFiles \subseteq ChangedFiles', LimitReached
  PROVE  LimitReached'
<1>1. changes \in Seq(Change) /\ changes' \in Seq(Change)
  BY DEF TypeInv, TypeOK
<1>2. /\ IsFiniteSet(ChangedFiles') /\ Cardinality(ChangedFiles') \in Nat
      /\ Cardinality(ChangedFiles) \in Nat
  BY <1>1, ListedFinite DEF ChangedFiles
<1>3. Cardinality(ChangedFiles) <= Cardinality(ChangedFiles')
  BY <1>2, FS_Subset
<1>4. QED
  BY <1>2, <1>3, ExecutionAssumption DEF LimitReached

\* A step that writes nothing and keeps what it knows of the written files.
LEMMA WrittenStay ==
  ASSUME WritesInv, TypeInv', pc # "killed", UNCHANGED <<index, dirty, written>>,
         edited \subseteq edited', ChangedFiles \subseteq ChangedFiles',
         \A p \in Paths \ edited' : tree'[p] = tree[p] \/ tree'[p] = "tool",
         \A p \in written \ edited' :
           InHand(p) \/ ToBeFound(p) => Accounted(p)'
  PROVE  WrittenAccounted'
<1>1. TypeInv
  BY DEF WritesInv, LimitInv
<1> SUFFICES ASSUME NEW p \in written' \ edited' PROVE Standing(p)' /\ Accounted(p)'
  BY DEF WrittenAccounted
<1>2. p \in written \ edited /\ p \in Paths /\ p \notin edited'
  BY <1>1 DEF TypeInv, TypeOK
<1>3. Standing(p) /\ Accounted(p)
  BY <1>2 DEF WritesInv, WrittenAccounted
<1>4. Standing(p)'
  BY <1>2, <1>3 DEF Standing, Present
<1>5. LimitReached => LimitReached'
  BY <1>1, RecordsStay
<1>6. QED
  BY <1>2, <1>3, <1>4, <1>5 DEF Accounted

\* What the scan records: all it finds, or as much as fills the limit.
LEMMA ScanRecords ==
  ASSUME TypeInv, ScanGit
  PROVE  \E S \in SUBSET NetNew :
           /\ IsFiniteSet(S)
           /\ ChangedFiles' = ChangedFiles \cup {e.path : e \in S}
           /\ S = NetNew \/ Cardinality(ChangedFiles) + Cardinality(S) = MaxFiles
<1>1. PICK S \in SUBSET NetNew :
        /\ \/ S = NetNew /\ Cardinality(ChangedFiles) + Cardinality(NetNew) <= MaxFiles
           \/ /\ Cardinality(ChangedFiles) + Cardinality(NetNew) > MaxFiles
              /\ Cardinality(ChangedFiles) + Cardinality(S) = MaxFiles
        /\ changes' = changes \o [k \in 1..Len(SetToSeq(S)) |->
              [path |-> SetToSeq(S)[k].path, type |-> SetToSeq(S)[k].type, item |-> 0]]
  BY DEF ScanGit
<1>2. IsFiniteSet(S) /\ S \subseteq [path : Paths, type : {"create", "modify", "delete"}]
  BY NetNewType, FS_Subset DEF TypeInv
<1>3. /\ Cardinality(S) \in Nat /\ Len(SetToSeq(S)) = Cardinality(S)
      /\ SetToSeq(S) \in [1..Cardinality(S) -> S]
      /\ \A x \in S : \E k \in 1..Cardinality(S) : SetToSeq(S)[k] = x
  BY <1>2, SetInOrder
<1> DEFINE n == Cardinality(S)
           f == [k \in 1..n |->
              [path |-> SetToSeq(S)[k].path, type |-> SetToSeq(S)[k].type, item |-> 0]]
<1>4. f \in [1..n -> Change]
  <2>1. 0 \in 0..Len(Plan)
    BY ExecutionAssumption
  <2>2. ASSUME NEW k \in 1..n
        PROVE  SetToSeq(S)[k] \in [path : Paths, type : {"create", "modify", "delete"}]
    BY <1>2, <1>3
  <2>3. QED
    BY <2>1, <2>2 DEF Change
<1>5. {f[k].path : k \in 1..n} = {e.path : e \in S}
  <2>1. \A k \in 1..n : f[k].path = SetToSeq(S)[k].path
    OBVIOUS
  <2> HIDE DEF f
  <2>2. QED
    BY <1>3, <2>1
<1>6. changes' = changes \o f /\ changes \in Seq(Change)
  BY <1>1, <1>3 DEF TypeInv, TypeOK
<1> HIDE DEF f
<1>7. {(changes \o f)[k].path : k \in 1..Len(changes \o f)}
        = {changes[k].path : k \in 1..Len(changes)} \cup {f[k].path : k \in 1..n}
  BY <1>3, <1>4, <1>6, JoinedPaths
<1>8. ChangedFiles' = ChangedFiles \cup {e.path : e \in S}
  BY <1>5, <1>6, <1>7 DEF ChangedFiles
<1>9. QED
  BY <1>1, <1>2, <1>8

\* What the scan finds are different files, none of them recorded.
LEMMA NetNewDistinct ==
  ASSUME WritesInv, pc = "scan", NEW S \in SUBSET NetNew, IsFiniteSet(S)
  PROVE  Cardinality(ChangedFiles \cup {e.path : e \in S})
           = Cardinality(ChangedFiles) + Cardinality(S)
<1> DEFINE T == {e.path : e \in S}
           f == [e \in S |-> e.path]
<1>1. TypeInv /\ TypeOK
  BY DEF WritesInv, LimitInv, TypeInv
<1>2. Committed \ index \subseteq baselinePaths
  BY DEF WritesInv, BaselineCaptured
<1>3. \A e \in NetNew : e.path \notin baselinePaths /\ e.path \notin ChangedFiles
                        /\ e.path \in Paths /\ e.path \notin Dirs
  BY <1>1, NetNewType DEF NetNew
<1>4. ASSUME NEW e \in NetNew
      PROVE  \/ e = [path |-> e.path, type |-> "delete"] /\ e.path \in Committed
                /\ ~Present(e.path)
             \/ e = [path |-> e.path, type |-> "modify"] /\ e.path \in Committed
                /\ Present(e.path)
             \/ e = [path |-> e.path, type |-> "create"] /\ e.path \notin Committed
  <2>1. CASE e \in TrackedEntries
    BY <1>2, <1>3, <2>1 DEF TrackedEntries
  <2>2. CASE e \in UntrackedEntries
    <3>1. PICK q \in Paths \ index : e = [path |-> EntryOf(q), type |-> "create"]
      BY <2>2 DEF UntrackedEntries
    <3>2. e.path = q
      BY <1>3, <3>1, ExecutionAssumption DEF EntryOf
    <3>3. QED
      BY <1>2, <1>3, <3>1, <3>2
  <2>3. QED
    BY <2>1, <2>2 DEF NetNew, StatusEntries
<1>5. \A e, d \in S : e.path = d.path => e = d
  BY <1>4
<1>6. f \in Bijection(S, T)
  BY <1>5 DEF Bijection, Injection, Surjection, IsInjective
<1>7. IsFiniteSet(T) /\ Cardinality(T) = Cardinality(S)
  BY <1>6, FS_Bijection DEF ExistsBijection
<1>8. IsFiniteSet(ChangedFiles) /\ ChangedFiles \cap T = {}
  <2>1. IsFiniteSet(ChangedFiles)
    BY <1>1, ListedFinite DEF TypeOK, ChangedFiles
  <2>2. QED
    BY <1>3, <2>1
<1> HIDE DEF T
<1>9. Cardinality(ChangedFiles \cup T)
        = Cardinality(ChangedFiles) + Cardinality(T) - Cardinality(ChangedFiles \cap T)
  BY <1>7, <1>8, FS_Union
<1>10. /\ Cardinality(ChangedFiles \cap T) = 0 /\ Cardinality(ChangedFiles) \in Nat
       /\ Cardinality(T) \in Nat
  BY <1>7, <1>8, FS_EmptySet, FS_CardinalityType
<1>11. Cardinality(ChangedFiles \cup T) = Cardinality(ChangedFiles) + Cardinality(S)
  BY <1>7, <1>9, <1>10
<1>12. QED
  BY <1>11 DEF T

\* Steps that lead up to the items: nothing is written yet.
LEMMA StepPrepare ==
  ASSUME WritesInv, LimitInv',
         CheckEscalation \/ CaptureBaselinePaths \/ CaptureContentBaseline \/ CollectCoverage
  PROVE  WritesInv'
<1> USE DEF baseline, handler, records, saved, history
<1>1. TypeInv /\ TypeOK /\ written = {}
  BY DEF WritesInv, LimitInv, TypeInv, NothingWritten, Preparing, CheckEscalation,
     CaptureBaselinePaths, CaptureContentBaseline, CollectCoverage
<1>2. /\ written' = {} /\ UNCHANGED <<index, at, target, itemChanges, edited>>
      /\ pc' # "done" /\ pc' # "killed"
  BY <1>1 DEF CheckEscalation, CaptureBaselinePaths, CaptureContentBaseline, CollectCoverage
<1>3. /\ IndexFixed' /\ TargetsWritten' /\ WrittenAccounted' /\ NothingWritten'
      /\ OperationsSaved'
  BY <1>2 DEF WritesInv, IndexFixed, TargetsWritten, WrittenAccounted, NothingWritten,
     OperationsSaved
<1>4. BaselineCaptured'
  <2>1. CASE CheckEscalation
    BY <2>1 DEF CheckEscalation, BaselineCaptured
  <2>2. CASE CaptureBaselinePaths
    <3>1. /\ pc' = "capture" /\ baselinePaths' = StatusPaths /\ StatusPaths' = StatusPaths
          /\ index' = index
      BY <2>2 DEF CaptureBaselinePaths, StatusPaths, StatusEntries, TrackedEntries,
         UntrackedEntries, EntryOf, Present
    <3>2. Committed \ index \subseteq StatusPaths
      BY <1>1, StatusOfPath, ExecutionAssumption
    <3>3. QED
      BY <3>1, <3>2 DEF BaselineCaptured
  <2>3. CASE CaptureContentBaseline
    <3>1. /\ pc = "capture" /\ pc' \in {"coverage", "item"} /\ dirty' = StatusPaths
          /\ UNCHANGED <<baselinePaths, index, edited>>
      BY <2>3 DEF CaptureContentBaseline, DirtyPaths
    <3>2. QED
      BY <3>1 DEF WritesInv, BaselineCaptured
  <2>4. CASE CollectCoverage
    <3>1. pc = "coverage" /\ pc' = "item" /\ UNCHANGED <<baselinePaths, dirty, index, edited>>
      BY <2>4 DEF CollectCoverage
    <3>2. QED
      BY <3>1 DEF WritesInv, BaselineCaptured
  <2>5. QED
    BY <2>1, <2>2, <2>3, <2>4
<1>5. QED
  BY <1>3, <1>4 DEF WritesInv

\* After the captures, a step of the run leaves them alone.
LEMMA CapturesStay ==
  ASSUME WritesInv, UNCHANGED <<baselinePaths, dirty, index>>, edited \subseteq edited',
         pc \notin Preparing \cup {"refused", "killed"},
         pc' \notin Preparing \cup {"refused"}
  PROVE  BaselineCaptured' /\ NothingWritten' /\ IndexFixed'
<1>1. BaselineCaptured'
  BY DEF WritesInv, BaselineCaptured, Preparing
<1>2. NothingWritten' /\ IndexFixed'
  BY DEF WritesInv, NothingWritten, IndexFixed
<1>3. QED
  BY <1>1, <1>2

\* A handler that writes a target.
LEMMA StepWrite ==
  ASSUME WritesInv, LimitInv', WriteTarget
  PROVE  WritesInv'
<1> DEFINE t == Plan[at].targets[target + 1]
<1>1. TypeInv /\ TypeOK
  BY DEF WritesInv, LimitInv, TypeInv
<1>2. /\ pc = "write" /\ pc' = "exists" /\ t \notin dirty
      /\ tree' = [tree EXCEPT ![t] = "rup"]
      /\ itemChanges' = Append(itemChanges, t)
      /\ written' = written \cup {t} /\ target' = target + 1
      /\ UNCHANGED <<index, baselinePaths, dirty, at, changes, edited>>
  BY DEF WriteTarget, baseline, records
<1>3. at \in Items /\ target \in Nat /\ target + 1 \in 1..Len(Plan[at].targets)
  BY <1>1, <1>2, ItemType DEF TypeInv, TypeOK, HandlerOnItem
<1>4. t \in Paths
  BY <1>3, ItemType
<1>5. BaselineCaptured' /\ NothingWritten' /\ IndexFixed'
  BY <1>2, CapturesStay DEF Preparing
<1>6. /\ Len(itemChanges') = Len(itemChanges) + 1 /\ Len(itemChanges) \in Nat
      /\ itemChanges'[Len(itemChanges) + 1] = t
      /\ \A k \in 1..Len(itemChanges) : itemChanges'[k] = itemChanges[k]
  BY <1>1, <1>2, <1>4 DEF TypeOK
<1>7. TargetsWritten'
  <2> SUFFICES ASSUME NEW k \in 1..Len(itemChanges')
               PROVE  \E j \in 1..target' : itemChanges'[k] = Plan[at].targets[j]
    BY <1>2, <1>3 DEF TargetsWritten
  <2>1. CASE k = Len(itemChanges) + 1
    BY <1>2, <1>3, <1>6, <2>1
  <2>2. CASE k \in 1..Len(itemChanges)
    <3>1. PICK j \in 1..target : itemChanges[k] = Plan[at].targets[j]
      BY <2>2 DEF WritesInv, TargetsWritten
    <3>2. j \in 1..target' /\ itemChanges'[k] = Plan[at].targets[j]
      BY <1>2, <1>3, <1>6, <2>2, <3>1
    <3>3. QED
      BY <3>2
  <2>3. QED
    BY <1>6, <2>1, <2>2
<1>8. WrittenAccounted'
  <2> HIDE DEF t
  <2> SUFFICES ASSUME NEW p \in written' \ edited' PROVE Standing(p)' /\ Accounted(p)'
    BY DEF WrittenAccounted
  <2>1. CASE p = t
    <3>1. Standing(p)'
      BY <1>1, <1>2, <1>4, <2>1 DEF Standing, Present, TypeOK
    <3>2. Len(itemChanges) + 1 \in 1..Len(itemChanges')
      BY <1>6
    <3>3. InHand(p)'
      BY <1>2, <1>6, <2>1, <3>2 DEF InHand, Handling
    <3>4. QED
      BY <3>1, <3>3 DEF Accounted
  <2>2. CASE p # t
    <3>1. p \in written \ edited /\ p \in Paths
      BY <1>1, <1>2, <2>2 DEF TypeOK
    <3>2. Standing(p) /\ Accounted(p)
      BY <1>2, <3>1 DEF WritesInv, WrittenAccounted
    <3>3. Standing(p)'
      BY <1>1, <1>2, <2>2, <3>1, <3>2 DEF Standing, Present, TypeOK
    <3>4. ChangedFiles' = ChangedFiles /\ (LimitReached => LimitReached')
      BY <1>2 DEF ChangedFiles, LimitReached
    <3>5. InHand(p) => InHand(p)'
      <4>1. 1..Len(itemChanges) \subseteq 1..Len(itemChanges')
        BY <1>6
      <4>2. QED
        BY <1>2, <1>6, <4>1 DEF InHand, Handling
    <3>6. ToBeFound(p) => ToBeFound(p)'
      BY <1>2 DEF ToBeFound, EntryOf, Handling
    <3>7. QED
      BY <3>2, <3>3, <3>4, <3>5, <3>6 DEF Accounted
  <2>3. QED
    BY <2>1, <2>2
<1>9. OperationsSaved'
  BY <1>2 DEF OperationsSaved
<1>10. QED
  BY <1>5, <1>7, <1>8, <1>9 DEF WritesInv

\* A refused handler: only a handler of several files has written any by then, and
\* those the scan will find.
LEMMA StepRefuseDirty ==
  ASSUME SeveralShown, WritesInv, LimitInv', RefuseDirty
  PROVE  WritesInv'
<1>1. TypeInv /\ TypeOK /\ TypeInv'
  BY DEF WritesInv, LimitInv, TypeInv
<1>2. /\ pc = "write" /\ pc' = "item" /\ itemChanges' = <<>>
      /\ UNCHANGED <<tree, index, baselinePaths, dirty, changes, written, edited>>
  BY DEF RefuseDirty, NextItem, baseline, history
<1>3. BaselineCaptured' /\ NothingWritten' /\ IndexFixed'
  BY <1>2, CapturesStay DEF Preparing
<1>4. TargetsWritten' /\ OperationsSaved'
  BY <1>2 DEF TargetsWritten, OperationsSaved
<1>5. ASSUME NEW p \in written \ edited, InHand(p) PROVE EntryOf(p) = p
  <2>1. PICK k \in 1..Len(itemChanges) : itemChanges[k] = p
    BY <1>5 DEF InHand
  <2>2. at \in Items
    BY <2>1 DEF WritesInv, TargetsWritten
  <2>3. PICK j \in 1..target : p = Plan[at].targets[j]
    BY <2>1 DEF WritesInv, TargetsWritten
  <2>4. /\ target \in Nat /\ target < Len(Plan[at].targets)
        /\ Len(Plan[at].targets) \in Nat
    BY <1>1, <1>2, <2>2, ItemType DEF TypeInv, TypeOK, HandlerOnItem
  <2>5. Len(Plan[at].targets) > 1 /\ j \in 1..Len(Plan[at].targets)
    BY <2>3, <2>4
  <2>6. ShownAsFile(p)
    BY <2>2, <2>3, <2>5 DEF SeveralShown
  <2>7. QED
    BY <2>6 DEF ShownAsFile, EntryOf, WritesInv, IndexFixed
<1>6. ASSUME NEW p \in written \ edited', InHand(p) \/ ToBeFound(p) PROVE Accounted(p)'
  <2>1. EntryOf(p) = p
    BY <1>2, <1>5, <1>6 DEF ToBeFound
  <2>2. ToBeFound(p)'
    BY <1>2, <2>1 DEF ToBeFound, EntryOf
  <2>3. QED
    BY <2>2 DEF Accounted
<1>7. WrittenAccounted'
  <2>1. ChangedFiles' = ChangedFiles
    BY <1>2 DEF ChangedFiles
  <2>2. QED
    BY <1>1, <1>2, <1>6, <2>1, WrittenStay
<1>8. QED
  BY <1>3, <1>4, <1>7 DEF WritesInv

\* A handler that ends: what it has written is recorded, or the limit is reached.
LEMMA StepFinish ==
  ASSUME WritesInv, LimitInv', FinishItem
  PROVE  WritesInv'
<1>1. TypeInv /\ TypeOK /\ TypeInv'
  BY DEF WritesInv, LimitInv, TypeInv
<1>2. /\ pc \in {"checkpoint", "blocked"} /\ pc' = "item" /\ itemChanges' = <<>>
      /\ changes' = Recorded
      /\ UNCHANGED <<index, baselinePaths, dirty, written, edited>>
  BY DEF FinishItem, NextItem, RunsCommand, baseline, history
<1>3. at \in Items
  BY <1>1, <1>2 DEF TypeInv, HandlerOnItem
<1>4. \A p \in Paths : tree'[p] = tree[p] \/ tree'[p] = "tool"
  BY DEF FinishItem, RunsCommand, history
<1>5. BaselineCaptured' /\ NothingWritten' /\ IndexFixed'
  BY <1>2, CapturesStay DEF Preparing
<1>6. TargetsWritten' /\ OperationsSaved'
  BY <1>2 DEF TargetsWritten, OperationsSaved
<1>7. PICK n \in 0..Len(itemChanges) :
        /\ Recorded = changes \o [k \in 1..n |-> [path |-> itemChanges[k],
                                                  type |-> "create", item |-> at]]
        /\ n = Len(itemChanges) \/ Cardinality(RecordedWith(n)) >= MaxFiles
        /\ [k \in 1..n |-> [path |-> itemChanges[k], type |-> "create", item |-> at]]
             \in [1..n -> Change]
  BY <1>1, <1>3, RecordedType
<1>8. ChangedFiles' = RecordedWith(n)
  <2> DEFINE f == [k \in 1..n |-> [path |-> itemChanges[k], type |-> "create", item |-> at]]
  <2>1. {f[k].path : k \in 1..n} = {itemChanges[k] : k \in 1..n}
    OBVIOUS
  <2>2. changes' = changes \o f /\ f \in [1..n -> Change] /\ changes \in Seq(Change) /\ n \in Nat
    BY <1>1, <1>2, <1>7 DEF TypeOK
  <2> HIDE DEF f
  <2>3. {(changes \o f)[k].path : k \in 1..Len(changes \o f)}
          = {changes[k].path : k \in 1..Len(changes)} \cup {f[k].path : k \in 1..n}
    BY <2>2, JoinedPaths
  <2>4. QED
    BY <2>1, <2>2, <2>3 DEF ChangedFiles, RecordedWith
<1>9. ASSUME NEW p \in written \ edited', InHand(p) \/ ToBeFound(p) PROVE Accounted(p)'
  <2>1. CASE ToBeFound(p)
    BY <1>2, <2>1 DEF Accounted, ToBeFound, EntryOf
  <2>2. CASE InHand(p)
    <3>1. PICK k \in 1..Len(itemChanges) : itemChanges[k] = p
      BY <2>2 DEF InHand
    <3>2. CASE n = Len(itemChanges)
      BY <1>8, <3>1, <3>2 DEF RecordedWith, Accounted
    <3>3. CASE Cardinality(RecordedWith(n)) >= MaxFiles
      BY <1>8, <3>3 DEF LimitReached, Accounted
    <3>4. QED
      BY <1>7, <3>2, <3>3
  <2>3. QED
    BY <1>9, <2>1, <2>2
<1>10. WrittenAccounted'
  <2>1. ChangedFiles \subseteq ChangedFiles'
    BY <1>8 DEF RecordedWith
  <2>2. QED
    BY <1>1, <1>2, <1>4, <1>9, <2>1, WrittenStay
<1>11. QED
  BY <1>5, <1>6, <1>10 DEF WritesInv

\* The scan finds every written file that nobody has recorded, or fills the limit.
LEMMA StepScan ==
  ASSUME WritesInv, LimitInv', ScanGit
  PROVE  WritesInv'
<1>1. TypeInv /\ TypeOK /\ TypeInv'
  BY DEF WritesInv, LimitInv, TypeInv
<1>2. /\ pc = "scan" /\ pc' = "save_execution"
      /\ UNCHANGED <<tree, index, baselinePaths, dirty, at, target, itemChanges, written, edited>>
  BY DEF ScanGit, baseline, handler, history
<1>3. BaselineCaptured' /\ NothingWritten' /\ IndexFixed'
  BY <1>2, CapturesStay DEF Preparing
<1>4. TargetsWritten' /\ OperationsSaved'
  BY <1>2 DEF WritesInv, TargetsWritten, OperationsSaved
<1>5. PICK S \in SUBSET NetNew :
        /\ IsFiniteSet(S)
        /\ ChangedFiles' = ChangedFiles \cup {e.path : e \in S}
        /\ S = NetNew \/ Cardinality(ChangedFiles) + Cardinality(S) = MaxFiles
  BY <1>1, ScanRecords
<1>6. ASSUME NEW p \in written \ edited', InHand(p) \/ ToBeFound(p) PROVE Accounted(p)'
  <2>1. p \in Paths /\ EntryOf(p) = p /\ p \in written \ edited
    BY <1>1, <1>2, <1>6 DEF TypeOK, InHand, ToBeFound, Handling
  <2>2. Standing(p)
    BY <1>2, <2>1 DEF WritesInv, WrittenAccounted
  <2>3. p \notin baselinePaths
    BY <1>2, <2>1, <2>2 DEF Standing, WritesInv, BaselineCaptured
  <2>4. p \in StatusPaths
    <3>1. p \in Committed \/ p \notin index
      BY <1>1 DEF TypeOK
    <3>2. QED
      BY <1>1, <2>1, <2>2, <3>1, StatusOfPath DEF Standing
  <2>5. CASE p \in ChangedFiles
    BY <1>5, <2>5 DEF Accounted
  <2>6. CASE S = NetNew /\ p \notin ChangedFiles
    <3>1. PICK e \in StatusEntries : e.path = p
      BY <2>4 DEF StatusPaths
    <3>2. e \in NetNew
      BY <2>1, <2>3, <2>6, <3>1, ExecutionAssumption DEF NetNew
    <3>3. QED
      BY <1>5, <2>6, <3>1, <3>2 DEF Accounted
  <2>7. CASE Cardinality(ChangedFiles) + Cardinality(S) = MaxFiles
    <3>1. Cardinality(ChangedFiles') = MaxFiles
      BY <1>2, <1>5, <2>7, NetNewDistinct
    <3>2. LimitReached'
      BY <3>1, ExecutionAssumption DEF LimitReached
    <3>3. QED
      BY <3>2 DEF Accounted
  <2>8. QED
    BY <1>5, <2>5, <2>6, <2>7
<1>7. WrittenAccounted'
  <2>1. ChangedFiles \subseteq ChangedFiles'
    BY <1>5
  <2>2. QED
    BY <1>1, <1>2, <1>6, <2>1, WrittenStay
<1>8. QED
  BY <1>3, <1>4, <1>7 DEF WritesInv

\* A user's edit takes one file out of the promise and leaves the others alone.
LEMMA StepEdit ==
  ASSUME WritesInv, LimitInv', NEW q \in Paths, UserEdit(q)
  PROVE  WritesInv'
<1>1. TypeInv /\ TypeOK /\ TypeOK' /\ TypeInv'
  BY DEF WritesInv, LimitInv, TypeInv
<1>2. /\ edited' = edited \cup {q} /\ \A p \in Paths : p # q => tree'[p] = tree[p]
      /\ UNCHANGED <<pc, index, baselinePaths, dirty, at, target, itemChanges, changes, written,
                     operations>>
  BY <1>1 DEF UserEdit, TypeOK, baseline, handler, records, saved
<1>3. BaselineCaptured'
  <2>1. \A p \in Paths : p # q /\ p \in StatusPaths => p \in StatusPaths'
    BY <1>1, <1>2, StatusStays
  <2>2. ASSUME pc' = "capture"
        PROVE  \A p \in Paths \ edited' : p \in baselinePaths' => p \in StatusPaths'
    <3>1. \A p \in Paths \ edited : p \in baselinePaths => p \in StatusPaths
      BY <1>2, <2>2 DEF WritesInv, BaselineCaptured
    <3>2. QED
      BY <1>2, <2>1, <3>1
  <2>3. (pc \notin {"load", "refused", "baseline", "capture", "killed"} =>
           \A p \in Paths \ edited : p \in baselinePaths => p \in dirty)'
    BY <1>2 DEF WritesInv, BaselineCaptured
  <2>4. (pc \notin {"load", "refused", "baseline", "killed"} =>
           Committed \ index \subseteq baselinePaths)'
    BY <1>2 DEF WritesInv, BaselineCaptured
  <2>5. (pc = "capture" => \A p \in Paths \ edited : p \in baselinePaths => p \in StatusPaths)'
    BY <2>2
  <2>6. QED
    BY <2>3, <2>4, <2>5 DEF BaselineCaptured
<1>4. IndexFixed' /\ TargetsWritten' /\ NothingWritten' /\ OperationsSaved'
  <2>1. IndexFixed' /\ TargetsWritten'
    BY <1>2 DEF WritesInv, IndexFixed, TargetsWritten
  <2>2. NothingWritten'
    BY <1>2 DEF WritesInv, NothingWritten
  <2>3. OperationsSaved'
    <3>1. OperatedOn' = OperatedOn
      BY <1>2 DEF OperatedOn
    <3>2. ChangedFiles' = ChangedFiles
      BY <1>2 DEF ChangedFiles
    <3>3. OperationsSaved
      BY DEF WritesInv
    <3>4. QED
      BY <1>2, <3>1, <3>2, <3>3 DEF OperationsSaved
  <2>4. QED
    BY <2>1, <2>2, <2>3
<1>5. WrittenAccounted'
  <2>1. CASE pc = "killed"
    BY <1>2, <2>1 DEF WrittenAccounted
  <2>2. CASE pc # "killed"
    <3>1. ChangedFiles' = ChangedFiles
      BY <1>2 DEF ChangedFiles
    <3>2. ASSUME NEW p \in written \ edited', InHand(p) \/ ToBeFound(p) PROVE Accounted(p)'
      BY <1>2, <3>2 DEF Accounted, InHand, ToBeFound, EntryOf
    <3>3. \A p \in Paths \ edited' : tree'[p] = tree[p]
      BY <1>2
    <3>4. QED
      BY <1>1, <1>2, <2>2, <3>1, <3>2, <3>3, WrittenStay
  <2>3. QED
    BY <2>1, <2>2
<1>6. QED
  BY <1>3, <1>4, <1>5 DEF WritesInv

\* The saves: by now a written file is recorded or the limit reached.
LEMMA StepSave ==
  ASSUME WritesInv, LimitInv', SaveExecution \/ SaveState
  PROVE  WritesInv'
<1>1. TypeInv /\ TypeOK /\ TypeInv'
  BY DEF WritesInv, LimitInv, TypeInv
<1>2. /\ pc \in {"save_execution", "save_state"} /\ pc' \in {"save_state", "done"}
      /\ UNCHANGED <<tree, index, baselinePaths, dirty, at, target, itemChanges, changes, written,
                     edited>>
  BY DEF SaveExecution, SaveState, baseline, handler, records, history
<1>3. BaselineCaptured' /\ NothingWritten' /\ IndexFixed'
  BY <1>2, CapturesStay DEF Preparing
<1>4. TargetsWritten'
  BY <1>2 DEF WritesInv, TargetsWritten
<1>5. WrittenAccounted'
  <2>1. ChangedFiles' = ChangedFiles
    BY <1>2 DEF ChangedFiles
  <2>2. ASSUME NEW p \in written \ edited', InHand(p) \/ ToBeFound(p) PROVE Accounted(p)'
    BY <1>2, <2>2 DEF InHand, ToBeFound, Handling
  <2>3. QED
    BY <1>1, <1>2, <2>1, <2>2, WrittenStay
<1>6. OperationsSaved'
  <2>1. CASE SaveExecution
    BY <2>1 DEF SaveExecution, OperationsSaved
  <2>2. CASE SaveState
    <3>1. /\ operations' = [k \in 1..Len(changes) |-> OperationFor(changes[k])]
          /\ changes' = changes /\ Len(changes) \in Nat
      BY <1>1, <2>2 DEF SaveState, records, TypeOK
    <3>2. Len(operations') = Len(changes)
      BY <3>1
    <3>3. \A k \in 1..Len(changes) : operations'[k].path = changes[k].path
      BY <3>1 DEF OperationFor
    <3>4. QED
      BY <3>1, <3>2, <3>3 DEF OperationsSaved, OperatedOn, ChangedFiles
  <2>3. QED
    BY <2>1, <2>2
<1>7. QED
  BY <1>3, <1>4, <1>5, <1>6 DEF WritesInv

\* Steps between the files: an item skipped or started, a file looked at, the local
\* verification.
LEMMA StepBetween ==
  ASSUME WritesInv, LimitInv', SkipItem \/ StartHandler \/ CheckExists \/ LocalVerification
  PROVE  WritesInv'
<1>1. TypeInv /\ TypeOK /\ TypeInv'
  BY DEF WritesInv, LimitInv, TypeInv
<1>2. /\ pc \in {"item", "exists"} /\ pc' \in Handling \cup {"item", "scan"}
      /\ UNCHANGED <<index, baselinePaths, dirty, changes, written, edited>>
      /\ pc = "exists" => pc' \in Handling /\ UNCHANGED itemChanges
      /\ \A p \in Paths : tree'[p] = tree[p] \/ tree'[p] = "tool"
  BY DEF SkipItem, StartHandler, CheckExists, LocalVerification, NextItem, RunsCommand,
     Handling, baseline, handler, records, history
<1>3. BaselineCaptured' /\ NothingWritten' /\ IndexFixed'
  BY <1>2, CapturesStay DEF Preparing, Handling
<1>4. OperationsSaved'
  BY <1>2 DEF OperationsSaved, Handling
<1>5. TargetsWritten'
  <2>1. CASE SkipItem
    BY <2>1 DEF SkipItem, NextItem, TargetsWritten
  <2>2. CASE StartHandler \/ LocalVerification
    BY <2>2 DEF StartHandler, LocalVerification, handler, WritesInv, TargetsWritten
  <2>3. CASE CheckExists
    <3>1. UNCHANGED <<at, itemChanges>> /\ target' \in {target, target + 1}
      BY <2>3 DEF CheckExists
    <3>2. target \in Nat /\ 1..target \subseteq 1..target'
      BY <1>1, <3>1, ItemType DEF TypeOK
    <3>3. QED
      BY <3>1, <3>2 DEF WritesInv, TargetsWritten
  <2>4. QED
    BY <2>1, <2>2, <2>3
<1>6. WrittenAccounted'
  <2>1. ChangedFiles' = ChangedFiles
    BY <1>2 DEF ChangedFiles
  <2>2. ASSUME NEW p \in written \ edited', InHand(p) \/ ToBeFound(p) PROVE Accounted(p)'
    <3>1. CASE InHand(p)
      BY <1>2, <3>1 DEF InHand, Handling, Accounted
    <3>2. CASE ToBeFound(p)
      BY <1>2, <3>2 DEF ToBeFound, EntryOf, Accounted
    <3>3. QED
      BY <2>2, <3>1, <3>2
  <2>3. QED
    BY <1>1, <1>2, <2>1, <2>2, WrittenStay
<1>7. QED
  BY <1>3, <1>4, <1>5, <1>6 DEF WritesInv

\* Every step of the run accounts for what the handlers have written.
LEMMA StepWrites == ASSUME SeveralShown, WritesInv, [Next]_vars PROVE WritesInv'
<1>1. LimitInv'
  BY StepLimit DEF WritesInv
<1>2. CASE CheckEscalation \/ CaptureBaselinePaths \/ CaptureContentBaseline \/ CollectCoverage
  BY <1>1, <1>2, StepPrepare
<1>3. CASE SkipItem \/ StartHandler \/ CheckExists \/ LocalVerification
  BY <1>1, <1>3, StepBetween
<1>4. CASE RefuseDirty
  BY <1>1, <1>4, StepRefuseDirty
<1>5. CASE WriteTarget
  BY <1>1, <1>5, StepWrite
<1>6. CASE FinishItem
  BY <1>1, <1>6, StepFinish
<1>7. CASE ScanGit
  BY <1>1, <1>7, StepScan
<1>8. CASE SaveExecution \/ SaveState
  BY <1>1, <1>8, StepSave
<1>9. CASE Crash
  BY <1>1, <1>9 DEF Crash, WritesInv, IndexFixed, BaselineCaptured, TargetsWritten,
     WrittenAccounted, NothingWritten, OperationsSaved, Preparing, baseline, handler, history
<1>10. ASSUME NEW q \in Paths, UserEdit(q) PROVE WritesInv'
  BY <1>1, <1>10, StepEdit
<1>11. CASE UNCHANGED vars
  <2>1. UNCHANGED <<tree, index, pc, baselinePaths, dirty, at, target, itemChanges, changes,
                    operations, written, edited>>
    BY <1>11 DEF vars, baseline, handler, records, saved, history
  <2>2. /\ UNCHANGED <<ChangedFiles, StatusPaths, OperatedOn, LimitReached>>
        /\ \A p : EntryOf(p)' = EntryOf(p) /\ (Present(p)' <=> Present(p))
    BY <2>1 DEF ChangedFiles, LimitReached, OperatedOn, StatusPaths, StatusEntries,
       TrackedEntries, UntrackedEntries, EntryOf, Present
  <2>3. \A p : (Accounted(p)' <=> Accounted(p)) /\ (Standing(p)' <=> Standing(p))
    BY <2>1, <2>2 DEF Accounted, InHand, ToBeFound, Standing
  <2>4. WrittenAccounted'
    BY <2>1, <2>3 DEF WritesInv, WrittenAccounted
  <2>5. QED
    BY <1>1, <2>1, <2>2, <2>4 DEF WritesInv, IndexFixed, BaselineCaptured, TargetsWritten,
       NothingWritten, OperationsSaved
<1>12. QED
  BY <1>2, <1>3, <1>4, <1>5, <1>6, <1>7, <1>8, <1>9, <1>10, <1>11 DEF Next, Run

\* A file the handlers wrote has its rollback operation when the run has ended, even
\* where a handler is refused between two files and its records are lost, unless the
\* limit cuts the records off or the user edits the file -- given that Git shows each
\* of a handler's several files by itself.  Where it shows their new directory, the
\* scan passes over it and the first files of a refused handler stay unrecorded.
THEOREM WritesAreRecorded ==
  ASSUME SeveralShown PROVE Spec => []WritesRecorded
<1>1. WritesInv /\ [Next]_vars => WritesInv'
  BY StepWrites
<1>2. WritesInv => WritesRecorded
  BY DEF WritesInv, WrittenAccounted, Accounted, InHand, ToBeFound, Handling,
     OperationsSaved, WritesRecorded
<1>3. QED
  BY InitWrites, <1>1, <1>2, PTL DEF Spec
=============================================================================
