--------------------------- MODULE PlanningProofs ---------------------------
(***************************************************************************)
(* What Planning promises for every backlog, every run boundary and every  *)
(* dependency graph: its types, that no P0 item is dropped silently, that  *)
(* a plan needing no override fits the run boundary, that an item loses a  *)
(* dependency only to an escalation, and that visit() puts the selected    *)
(* items in the order of their dependencies, as DependencyOrder asks for.  *)
(***************************************************************************)
EXTENDS Planning, Induction, TLAPS

-----------------------------------------------------------------------------
(* The backlog derived from a well-typed discovery. *)

\* What discovery reported of an item has the fields of a gap.
LEMMA GapType ==
  ASSUME TypeOK, NEW i \in Items
  PROVE  gaps[i] \in Gap
BY PlanningAssumption DEF TypeOK

\* The limits are known ones.
LEMMA LimitsType == ASSUME TypeOK PROVE limits \in Limit
BY PlanningAssumption DEF TypeOK

\* The backlog entry derived from a gap: its priority, effort, files and dependencies.
LEMMA BacklogType ==
  ASSUME TypeOK, NEW i \in Items
  PROVE  /\ Priority(i) \in 0..3
         /\ Minutes(i) \in Nat
         /\ FileCount(i) \in Nat
         /\ Dependencies(i) \in Seq(0..N)
<1>1. gaps[i] \in Gap
  BY GapType
<1>2. Priority(i) \in 0..3 /\ Minutes(i) \in Nat
  BY DEF Priority, Minutes
<1>3. FileCount(i) \in Nat
  BY <1>1 DEF FileCount, Gap
<1>4. Dependencies(i) \in Seq(0..N)
  <2>1. gaps[i].dependencies \in Seq(0..N) /\ Test001 \in 0..N
    BY <1>1, PlanningAssumption DEF Gap
  <2>2. Append(gaps[i].dependencies, Test001) \in Seq(0..N)
    BY <2>1
  <2>3. QED
    BY <2>1, <2>2 DEF Dependencies
<1>5. QED
  BY <1>2, <1>3, <1>4

\* Allocating an item keeps both cut-off counters in range.
LEMMA AllocateType ==
  ASSUME TypeOK, NEW i \in Items, Allocate(i), limits' = limits
  PROVE  /\ minutes' \in 0..(limits'.budget + 1)
         /\ files' \in 0..(limits'.maxFiles + 1)
<1>1. limits.budget \in Nat /\ limits.maxFiles \in Nat
  BY LimitsType DEF Limit
<1>2. minutes \in Nat /\ files \in Nat
  BY <1>1 DEF TypeOK
<1>3. Minutes(i) \in Nat /\ FileCount(i) \in Nat
  BY BacklogType
<1>4. AtMost(minutes + Minutes(i), limits.budget + 1) \in 0..(limits.budget + 1)
  BY <1>1, <1>2, <1>3 DEF AtMost
<1>5. AtMost(files + FileCount(i), limits.maxFiles + 1) \in 0..(limits.maxFiles + 1)
  BY <1>1, <1>2, <1>3 DEF AtMost
<1>6. QED
  BY <1>4, <1>5 DEF Allocate

\* An item that fits leaves both counters inside the boundary.
LEMMA FittingAllocation ==
  ASSUME TypeOK, NEW i \in Items, Allocate(i), Fits(i)
  PROVE  minutes' <= limits.budget /\ files' <= limits.maxFiles
<1>1. limits.budget \in Nat /\ limits.maxFiles \in Nat
  BY LimitsType DEF Limit
<1>2. minutes \in Nat /\ files \in Nat
  BY <1>1 DEF TypeOK
<1>3. QED
  BY <1>1, <1>2, BacklogType DEF Allocate, AtMost, Fits

\* Taking an item out of the selection leaves a list of items.
LEMMA WithoutType ==
  ASSUME NEW s \in Seq(Items), NEW i
  PROVE  Without(s, i) \in Seq(Items)
<1> DEFINE at == CHOOSE k \in 1..Len(s) : s[k] = i /\ \A l \in 1..(k - 1) : s[l] # i
<1> DEFINE t == [k \in 1..(Len(s) - 1) |-> IF k < at THEN s[k] ELSE s[k + 1]]
<1>1. Without(s, i) = t
  BY DEF Without
<1>2. CASE Len(s) = 0
  <2>1. 1..(Len(s) - 1) = {}
    BY <1>2
  <2>2. t = <<>>
    BY <2>1
  <2>3. QED
    BY <1>1, <2>2
<1>3. CASE Len(s) # 0
  <2>1. Len(s) - 1 \in Nat
    BY <1>3
  <2>2. \A k \in 1..(Len(s) - 1) : s[k] \in Items /\ s[k + 1] \in Items
    OBVIOUS
  <2>3. t \in [1..(Len(s) - 1) -> Items]
    BY <2>2
  <2>4. QED
    BY <1>1, <2>1, <2>3
<1>4. QED
  BY <1>2, <1>3

\* Taking the first element off a list.
LEMMA NonEmptyList ==
  ASSUME NEW S, NEW s \in Seq(S), s # <<>>
  PROVE  Head(s) \in S /\ Tail(s) \in Seq(S)
<1>1. Len(s) \in Nat /\ Len(s) # 0 /\ s \in [1..Len(s) -> S]
  OBVIOUS
<1>2. s[1] \in S
  BY <1>1
<1>3. QED
  BY <1>2

\* A visit() call is well typed, and stays so as it consumes its dependencies.
LEMMA FrameType ==
  ASSUME TypeOK, NEW i \in Items
  PROVE  Frame(i) \in Frames
BY BacklogType DEF Frame, Frames

\* Taking the next dependency off the top frame leaves a stack of frames.
LEMMA ConsumedType ==
  ASSUME TypeOK, stack # <<>>, stack[1].deps # <<>>
  PROVE  /\ Consumed \in Seq(Frames)
         /\ Head(stack[1].deps) \in 0..N
<1>1. stack \in Seq(Frames) /\ stack[1] \in Frames
  BY DEF TypeOK
<1>2. stack[1].item \in Items /\ stack[1].deps \in Seq(0..N)
  BY <1>1 DEF Frames
<1>3. Tail(stack[1].deps) \in Seq(0..N) /\ Head(stack[1].deps) \in 0..N
  BY <1>2, NonEmptyList
<1>4. [stack[1] EXCEPT !.deps = Tail(@)] \in Frames
  BY <1>1, <1>3 DEF Frames
<1>5. Tail(stack) \in Seq(Frames)
  BY <1>1
<1>6. QED
  BY <1>3, <1>4, <1>5 DEF Consumed

-----------------------------------------------------------------------------
(* Type correctness. *)

\* Planning starts with what discovery and the options bring.
LEMMA InitType == Init => TypeOK
<1> SUFFICES ASSUME Init PROVE TypeOK
  OBVIOUS
<1>1. limits \in Limit
  BY PlanningAssumption DEF Init
<1>2. minutes \in 0..(limits.budget + 1) /\ files \in 0..(limits.maxFiles + 1)
  BY <1>1 DEF Init, Limit
<1>3. plan \in SavedPlan /\ planState \in SavedState
  BY DEF Init, OldPlan, OldState, SavedPlan, SavedState
<1>4. current \in 0..N
  BY PlanningAssumption DEF Init, None
<1>5. QED
  BY <1>2, <1>3, <1>4 DEF Init, TypeOK

\* What Admit(i) assigns.
LEMMA AdmitType ==
  ASSUME TypeOK, NEW i \in Items, Admit(i), limits' = limits
  PROVE  /\ selected' \in Seq(Items)
         /\ chosen' \subseteq Items
         /\ minutes' \in 0..(limits'.budget + 1)
         /\ files' \in 0..(limits'.maxFiles + 1)
<1>1. selected' \in Seq(Items) /\ chosen' \subseteq Items
  BY DEF Admit, TypeOK
<1>2. QED
  BY <1>1, AllocateType DEF Admit

\* Every step of the planner keeps the types.
LEMMA StepType == ASSUME TypeOK, [Next]_vars PROVE TypeOK'
<1> USE DEF TypeOK
<1>1. ASSUME NEW i \in Items, Select(i) PROVE TypeOK'
  <2>1. CASE Fits(i) /\ Admit(i) /\ UNCHANGED escalated
    <3>1. /\ selected' \in Seq(Items) /\ chosen' \subseteq Items
          /\ minutes' \in 0..(limits'.budget + 1) /\ files' \in 0..(limits'.maxFiles + 1)
      BY <1>1, <2>1, AdmitType DEF Select
    <3>2. QED
      BY <1>1, <2>1, <3>1 DEF Select, closure, visit, saved
  <2>2. CASE EscalateMandatory(i) /\ UNCHANGED <<selected, chosen, minutes, files>>
    BY <1>1, <2>2 DEF Select, EscalateMandatory, closure, visit, saved
  <2>3. QED
    BY <1>1, <2>1, <2>2 DEF Select
<1>2. ASSUME StartClosure PROVE TypeOK'
  BY <1>2 DEF StartClosure, choice, visit, saved
<1>3. ASSUME PopQueue PROVE TypeOK'
  <2>1. Head(queue) \in Items /\ Tail(queue) \in Seq(Items)
    BY <1>3 DEF PopQueue
  <2>2. Dependencies(Head(queue)) \in Seq(0..N)
    BY <2>1, BacklogType
  <2>3. current' \in 0..N
    BY <1>3, <2>1, PlanningAssumption DEF PopQueue, Items
  <2>4. QED
    BY <1>3, <2>1, <2>2, <2>3 DEF PopQueue, choice, visit, saved
<1>4. ASSUME CloseDependency PROVE TypeOK'
  <2> DEFINE d == Head(deps)
  <2>1. deps' \in Seq(0..N)
    BY <1>4 DEF CloseDependency
  <2>2. CASE UNCHANGED <<choice, admitted, queue>>
    BY <1>4, <2>1, <2>2 DEF CloseDependency, choice, visit, saved
  <2>3. CASE d \in Items \ chosen /\ AdmitDependency(d) /\ UNCHANGED <<todo, escalated>>
    <3>1. /\ selected' \in Seq(Items) /\ chosen' \subseteq Items
          /\ minutes' \in 0..(limits'.budget + 1) /\ files' \in 0..(limits'.maxFiles + 1)
      BY <1>4, <2>3, AdmitType DEF CloseDependency, AdmitDependency
    <3>2. admitted' \subseteq Items /\ queue' \in Seq(Items)
      BY <2>3 DEF AdmitDependency
    <3>3. QED
      BY <1>4, <2>1, <2>3, <3>1, <3>2 DEF CloseDependency, visit, saved
  <2>4. CASE EscalateDependent(current) /\ UNCHANGED <<todo, minutes, files, admitted, queue>>
    <3>1. current \in Items
      BY <1>4, PlanningAssumption DEF CloseDependency, Items, None
    <3>2. selected' \in Seq(Items)
      BY <2>4, WithoutType DEF EscalateDependent
    <3>3. QED
      BY <1>4, <2>1, <2>4, <3>1, <3>2 DEF CloseDependency, EscalateDependent, visit, saved
  <2>5. QED
    BY <1>4, <2>2, <2>3, <2>4 DEF CloseDependency
<1>5. ASSUME FinishDependent PROVE TypeOK'
  BY <1>5, PlanningAssumption DEF FinishDependent, None, choice, visit, saved
<1>6. ASSUME FinishClosure PROVE TypeOK'
  BY <1>6 DEF FinishClosure, choice, closure, visit, saved
<1>7. ASSUME VisitNext PROVE TypeOK'
  <2>1. PICK k \in 1..Len(selected) : stack' = <<Frame(selected[k])>>
    BY <1>7 DEF VisitNext
  <2>2. Frame(selected[k]) \in Frames
    BY FrameType
  <2>3. stack' \in Seq(Frames)
    BY <2>1, <2>2
  <2>4. QED
    BY <1>7, <2>3 DEF VisitNext, choice, closure, saved
<1>8. ASSUME VisitDependency PROVE TypeOK'
  <2>1. Consumed \in Seq(Frames)
    BY <1>8, ConsumedType DEF VisitDependency
  <2>2. stack' \in Seq(Frames)
    <3>1. ASSUME Head(stack[1].deps) \in chosen
          PROVE  <<Frame(Head(stack[1].deps))>> \o Consumed \in Seq(Frames)
      <4>1. Frame(Head(stack[1].deps)) \in Frames
        BY <3>1, FrameType
      <4>2. QED
        BY <2>1, <4>1
    <3>2. QED
      BY <1>8, <2>1, <3>1 DEF VisitDependency
  <2>3. pc' \in {pc, "cycle_error"}
    BY <1>8 DEF VisitDependency
  <2>4. QED
    BY <1>8, <2>2, <2>3 DEF VisitDependency, choice, closure, saved
<1>9. ASSUME FinishVisit PROVE TypeOK'
  <2>1. stack[1] \in Frames /\ Tail(stack) \in Seq(Frames)
    BY <1>9 DEF FinishVisit
  <2>2. stack[1].item \in Items
    BY <2>1 DEF Frames
  <2>3. QED
    BY <1>9, <2>1, <2>2 DEF FinishVisit, AppendOrdered, choice, closure, saved
<1>10. ASSUME FinishSequence PROVE TypeOK'
  BY <1>10 DEF FinishSequence, choice, closure, visit, saved
<1>11. ASSUME SavePlan PROVE TypeOK'
  <2>1. plan' \in SavedPlan
    BY <1>11 DEF SavePlan, SavedPlan
  <2>2. QED
    BY <1>11, <2>1 DEF SavePlan, choice, closure, visit
<1>12. ASSUME SaveState PROVE TypeOK'
  <2>1. planState' \in SavedState
    BY <1>12 DEF SaveState, SavedState
  <2>2. QED
    BY <1>12, <2>1 DEF SaveState, choice, closure, visit
<1>13. ASSUME Crash PROVE TypeOK'
  BY <1>13 DEF Crash, choice, closure, visit, saved
<1>14. ASSUME UNCHANGED vars PROVE TypeOK'
  BY <1>14 DEF vars, choice, closure, visit, saved
<1>15. QED
  BY <1>1, <1>2, <1>3, <1>4, <1>5, <1>6, <1>7, <1>8, <1>9, <1>10, <1>11, <1>12, <1>13,
     <1>14 DEF Next, Run

\* The planning phase and its two artifacts are well typed for every backlog, run
\* boundary and dependency graph (execute() of planning.py).
THEOREM PlanningTypeCorrect == Spec => []TypeOK
<1>1. Init => TypeOK
  BY InitType
<1>2. TypeOK /\ [Next]_vars => TypeOK'
  BY StepType
<1>3. QED
  BY <1>1, <1>2, PTL DEF Spec

-----------------------------------------------------------------------------
(* Mandatory items and the run boundary.  The closure admits a P0 dependency  *)
(* past the boundary; it can only do so for an item that the selection loop   *)
(* has escalated, because it runs once that loop has passed every item.       *)

SelectionPassed == pc # "select" => todo = {}

BoundaryInv == /\ TypeOK
               /\ SelectionPassed
               /\ MandatoryAccounted
               /\ BoundaryOrOverride

\* Nothing is chosen yet.
LEMMA InitBoundary == Init => BoundaryInv
<1> SUFFICES ASSUME Init PROVE BoundaryInv
  OBVIOUS
<1>1. TypeOK
  BY InitType
<1>2. SelectionPassed /\ MandatoryAccounted
  BY DEF Init, SelectionPassed, MandatoryAccounted
<1>3. BoundaryOrOverride
  BY <1>1, LimitsType DEF Init, BoundaryOrOverride, Limit
<1>4. QED
  BY <1>1, <1>2, <1>3 DEF BoundaryInv

\* The steps that leave the selection, its counters and the escalations alone.
LEMMA ChoiceUntouched ==
  ASSUME BoundaryInv, gaps' = gaps, limits' = limits, UNCHANGED choice,
         pc # "select" \/ todo = {}
  PROVE  SelectionPassed' /\ MandatoryAccounted' /\ BoundaryOrOverride'
<1>1. SelectionPassed'
  BY DEF BoundaryInv, SelectionPassed, choice
<1>2. MandatoryAccounted'
  BY DEF BoundaryInv, MandatoryAccounted, Priority, choice
<1>3. BoundaryOrOverride'
  BY DEF BoundaryInv, BoundaryOrOverride, choice
<1>4. QED
  BY <1>1, <1>2, <1>3

\* Every step of the planner respects the boundary or notes why it did not.
LEMMA StepBoundary == ASSUME BoundaryInv, [Next]_vars PROVE BoundaryInv'
<1>1. TypeOK'
  BY StepType DEF BoundaryInv
<1>2. ASSUME NEW i \in Items, Select(i)
      PROVE  SelectionPassed' /\ MandatoryAccounted' /\ BoundaryOrOverride'
  <2>1. pc' = "select" /\ gaps' = gaps /\ limits' = limits /\ todo' = todo \ {i}
    BY <1>2 DEF Select
  <2>2. CASE Fits(i) /\ Admit(i) /\ UNCHANGED escalated
    <3>1. MandatoryAccounted'
      BY <2>1, <2>2 DEF BoundaryInv, MandatoryAccounted, Priority, Admit
    <3>2. minutes' <= limits.budget /\ files' <= limits.maxFiles
      BY <2>2, FittingAllocation DEF BoundaryInv, Admit
    <3>3. QED
      BY <2>1, <3>1, <3>2 DEF SelectionPassed, BoundaryOrOverride
  <2>3. CASE EscalateMandatory(i) /\ UNCHANGED <<selected, chosen, minutes, files>>
    <3>1. MandatoryAccounted'
      BY <2>1, <2>3 DEF BoundaryInv, MandatoryAccounted, Priority, EscalateMandatory
    <3>2. BoundaryOrOverride'
      BY <2>1, <2>3 DEF BoundaryInv, BoundaryOrOverride, EscalateMandatory
    <3>3. QED
      BY <2>1, <3>1, <3>2 DEF SelectionPassed
  <2>4. QED
    BY <1>2, <2>2, <2>3 DEF Select
<1>3. ASSUME CloseDependency
      PROVE  SelectionPassed' /\ MandatoryAccounted' /\ BoundaryOrOverride'
  <2> DEFINE d == Head(deps)
  <2>1. pc = "close" /\ pc' = pc /\ gaps' = gaps /\ limits' = limits /\ todo = {}
    BY <1>3 DEF CloseDependency, BoundaryInv, SelectionPassed
  <2>2. CASE UNCHANGED <<choice, admitted, queue>>
    BY <2>1, <2>2, ChoiceUntouched
  <2>3. CASE /\ d \in Items \ chosen
             /\ Priority(d) = 0 \/ Fits(d)
             /\ AdmitDependency(d)
             /\ UNCHANGED <<todo, escalated>>
    <3>1. MandatoryAccounted'
      BY <2>1, <2>3 DEF BoundaryInv, MandatoryAccounted, Priority, AdmitDependency, Admit
    <3>2. CASE Priority(d) = 0
      <4>1. d \in escalated'
        BY <2>1, <2>3, <3>2 DEF BoundaryInv, MandatoryAccounted
      <4>2. QED
        BY <2>1, <2>3, <3>1, <4>1 DEF SelectionPassed, BoundaryOrOverride
    <3>3. CASE Fits(d)
      <4>1. minutes' <= limits.budget /\ files' <= limits.maxFiles
        BY <2>3, <3>3, FittingAllocation DEF BoundaryInv, AdmitDependency, Admit
      <4>2. QED
        BY <2>1, <2>3, <3>1, <4>1 DEF SelectionPassed, BoundaryOrOverride
    <3>4. QED
      BY <2>3, <3>2, <3>3
  <2>4. CASE EscalateDependent(current) /\ UNCHANGED <<todo, minutes, files, admitted, queue>>
    <3>1. MandatoryAccounted'
      BY <2>1, <2>4 DEF BoundaryInv, MandatoryAccounted, Priority, EscalateDependent
    <3>2. QED
      BY <2>1, <2>4, <3>1 DEF SelectionPassed, BoundaryOrOverride, EscalateDependent
  <2>5. QED
    BY <1>3, <2>2, <2>3, <2>4 DEF CloseDependency
<1>4. ASSUME StartClosure \/ PopQueue \/ FinishDependent \/ FinishClosure
      PROVE  SelectionPassed' /\ MandatoryAccounted' /\ BoundaryOrOverride'
  BY <1>4, ChoiceUntouched DEF StartClosure, PopQueue, FinishDependent, FinishClosure
<1>5. ASSUME VisitNext \/ VisitDependency \/ FinishVisit \/ FinishSequence
      PROVE  SelectionPassed' /\ MandatoryAccounted' /\ BoundaryOrOverride'
  BY <1>5, ChoiceUntouched DEF VisitNext, VisitDependency, FinishVisit, FinishSequence
<1>6. ASSUME SavePlan \/ SaveState \/ Crash
      PROVE  SelectionPassed' /\ MandatoryAccounted' /\ BoundaryOrOverride'
  BY <1>6, ChoiceUntouched DEF SavePlan, SaveState, Crash
<1>7. ASSUME UNCHANGED vars
      PROVE  SelectionPassed' /\ MandatoryAccounted' /\ BoundaryOrOverride'
  <2>1. gaps' = gaps /\ limits' = limits /\ pc' = pc /\ UNCHANGED choice
    BY <1>7 DEF vars
  <2>2. QED
    BY <2>1 DEF BoundaryInv, SelectionPassed, MandatoryAccounted, BoundaryOrOverride,
                Priority, choice
<1>8. QED
  BY <1>1, <1>2, <1>3, <1>4, <1>5, <1>6, <1>7 DEF Next, Run, BoundaryInv

\* Every state of planning has the invariant.
LEMMA BoundaryInvariant == Spec => []BoundaryInv
<1>1. BoundaryInv /\ [Next]_vars => BoundaryInv'
  BY StepBoundary
<1>2. QED
  BY <1>1, InitBoundary, PTL DEF Spec

\* No P0 item is dropped silently: once the selection loop has passed it, it is
\* selected or escalated, whatever the closure admits and withdraws afterwards
\* (_select_work of planning.py).
THEOREM NoMandatoryItemDropped == Spec => []MandatoryAccounted
<1>1. BoundaryInv => MandatoryAccounted
  BY DEF BoundaryInv
<1>2. QED
  BY <1>1, BoundaryInvariant, PTL

\* A selection larger than the run boundary always comes with an escalation, so
\* its plan requires an explicit override (_select_work of planning.py, which
\* admits P0 dependencies without looking at the boundary).
THEOREM BoundaryExceededOnlyWithOverride == Spec => []BoundaryOrOverride
<1>1. BoundaryInv => BoundaryOrOverride
  BY DEF BoundaryInv
<1>2. QED
  BY <1>1, BoundaryInvariant, PTL

-----------------------------------------------------------------------------
(* A plan that needs no override fits.  The counters are cut off above their *)
(* limits and the closure gives nothing back when it withdraws an item, so   *)
(* while a counter is within its limit it is at least what is selected.      *)

MinutesOf == [i \in Items |-> Minutes(i)]
FilesOf   == [i \in Items |-> FileCount(i)]

Tolerated == escalated = {} => \A i \in chosen : Risk(i) <= limits.tolerance

Saved ==
  /\ plan.new => pc \in {"save_state", "done", "killed"} /\ plan.selected_items = chosen
  /\ planState.new =>
       pc = "done" /\ planState.requires_explicit_override = (escalated # {})

FitsInv ==
  /\ BoundaryInv /\ Tolerated /\ Saved
  /\ minutes <= limits.budget => SumFunctionOnSet(MinutesOf, chosen) <= minutes
  /\ files <= limits.maxFiles => SumFunctionOnSet(FilesOf, chosen) <= files

\* Items are finitely many.
LEMMA ItemsFinite == ASSUME NEW S \in SUBSET Items PROVE IsFiniteSet(S)
<1>1. IsFiniteSet(Items)
  BY PlanningAssumption, FS_Interval DEF Items
<1>2. QED
  BY <1>1, FS_Subset

\* What an item adds to a sum, and what taking items away leaves of it.
LEMMA SumsOfItems ==
  ASSUME NEW f \in [Items -> Nat], NEW S \in SUBSET Items
  PROVE  /\ SumFunctionOnSet(f, S) \in Nat
         /\ \A i \in Items : SumFunctionOnSet(f, S \cup {i}) <= SumFunctionOnSet(f, S) + f[i]
         /\ \A T \in SUBSET S : SumFunctionOnSet(f, T) <= SumFunctionOnSet(f, S)
<1> DEFINE Sum(T) == SumFunctionOnSet(f, T)
<1>1. \A T \in SUBSET Items : IsFiniteSet(T) /\ \A x \in T : f[x] \in Nat
  BY ItemsFinite
<1>2. \A T \in SUBSET Items : Sum(T) \in Nat
  BY <1>1, SumType
<1>3. ASSUME NEW i \in Items PROVE Sum(S \cup {i}) <= Sum(S) + f[i]
  <2>1. CASE i \in S
    <3>1. S \cup {i} = S
      BY <2>1
    <3>2. Sum(S \cup {i}) = Sum(S)
      BY <3>1
    <3>3. Sum(S) \in Nat /\ f[i] \in Nat
      BY <1>2
    <3> HIDE DEF Sum
    <3>4. QED
      BY <3>2, <3>3
  <2>2. CASE i \notin S
    <3>1. (S \cup {i}) \ {i} = S /\ i \in S \cup {i} /\ S \cup {i} \in SUBSET Items
      BY <2>2
    <3>2. Sum(S \cup {i}) = f[i] + Sum(S)
      <4>1. Sum(S \cup {i}) = f[i] + Sum((S \cup {i}) \ {i})
        BY <1>1, <3>1, SumWithout
      <4>2. QED
        BY <3>1, <4>1
    <3>3. Sum(S) \in Nat /\ f[i] \in Nat
      BY <1>2
    <3> HIDE DEF Sum
    <3>4. QED
      BY <3>2, <3>3
  <2>3. QED
    BY <2>1, <2>2
<1>4. \A T \in SUBSET S : Sum(T) <= Sum(S)
  BY <1>1, SumSubset
<1>5. QED
  BY <1>2, <1>3, <1>4

\* The backlog is derived once, from gaps read once.
LEMMA BacklogFixed ==
  ASSUME gaps' = gaps
  PROVE  /\ MinutesOf' = MinutesOf /\ FilesOf' = FilesOf
         /\ \A i : Risk(i)' = Risk(i) /\ Priority(i)' = Priority(i)
BY DEF MinutesOf, FilesOf, Minutes, FileCount, Risk, Priority

\* The counters are numbers.
LEMMA CountersType ==
  ASSUME TypeOK
  PROVE  /\ MinutesOf \in [Items -> Nat] /\ FilesOf \in [Items -> Nat]
         /\ minutes \in Nat /\ files \in Nat
         /\ limits.budget \in Nat /\ limits.maxFiles \in Nat /\ limits.tolerance \in 0..2
<1>1. limits.budget \in Nat /\ limits.maxFiles \in Nat /\ limits.tolerance \in 0..2
  BY LimitsType DEF Limit
<1>2. QED
  BY <1>1, BacklogType DEF TypeOK, MinutesOf, FilesOf

\* The steps that admit an item, also one that is selected already.
LEMMA AdmitFits ==
  ASSUME FitsInv, NEW i \in Items, Admit(i), gaps' = gaps, limits' = limits
  PROVE  /\ minutes' <= limits'.budget => SumFunctionOnSet(MinutesOf', chosen') <= minutes'
         /\ files' <= limits'.maxFiles => SumFunctionOnSet(FilesOf', chosen') <= files'
<1>1. /\ MinutesOf \in [Items -> Nat] /\ FilesOf \in [Items -> Nat]
      /\ minutes \in Nat /\ files \in Nat /\ limits.budget \in Nat /\ limits.maxFiles \in Nat
      /\ chosen \in SUBSET Items
  BY CountersType DEF FitsInv, BoundaryInv, TypeOK
<1>2. /\ chosen' = chosen \cup {i}
      /\ minutes' = AtMost(minutes + MinutesOf[i], limits.budget + 1)
      /\ files' = AtMost(files + FilesOf[i], limits.maxFiles + 1)
  BY DEF Admit, Allocate, MinutesOf, FilesOf
<1>3. /\ SumFunctionOnSet(MinutesOf, chosen') <= SumFunctionOnSet(MinutesOf, chosen) + MinutesOf[i]
      /\ SumFunctionOnSet(FilesOf, chosen') <= SumFunctionOnSet(FilesOf, chosen) + FilesOf[i]
      /\ SumFunctionOnSet(MinutesOf, chosen) \in Nat /\ SumFunctionOnSet(FilesOf, chosen) \in Nat
      /\ SumFunctionOnSet(MinutesOf, chosen') \in Nat /\ SumFunctionOnSet(FilesOf, chosen') \in Nat
  <2>1. chosen' \in SUBSET Items
    BY <1>1, <1>2
  <2>2. QED
    BY <1>1, <1>2, <2>1, SumsOfItems
<1>4. /\ minutes <= limits.budget => SumFunctionOnSet(MinutesOf, chosen) <= minutes
      /\ files <= limits.maxFiles => SumFunctionOnSet(FilesOf, chosen) <= files
  BY DEF FitsInv
<1>5. MinutesOf[i] \in Nat /\ FilesOf[i] \in Nat
  BY <1>1
<1>6. minutes' <= limits.budget => SumFunctionOnSet(MinutesOf, chosen') <= minutes'
  BY <1>1, <1>2, <1>3, <1>4, <1>5 DEF AtMost
<1>7. files' <= limits.maxFiles => SumFunctionOnSet(FilesOf, chosen') <= files'
  BY <1>1, <1>2, <1>3, <1>4, <1>5 DEF AtMost
<1>8. QED
  BY <1>6, <1>7, BacklogFixed

\* The steps that leave the selection, its counters and the escalations alone.
LEMMA FitsUntouched ==
  ASSUME FitsInv, gaps' = gaps, limits' = limits, UNCHANGED choice
  PROVE  /\ Tolerated'
         /\ minutes' <= limits'.budget => SumFunctionOnSet(MinutesOf', chosen') <= minutes'
         /\ files' <= limits'.maxFiles => SumFunctionOnSet(FilesOf', chosen') <= files'
<1>1. /\ chosen' = chosen /\ escalated' = escalated /\ minutes' = minutes /\ files' = files
      /\ \A i : Risk(i)' = Risk(i)
  BY BacklogFixed DEF choice
<1>2. Tolerated'
  BY <1>1 DEF FitsInv, Tolerated
<1>3. QED
  BY <1>1, <1>2, BacklogFixed DEF FitsInv

\* Nothing is chosen yet.
LEMMA InitFits == Init => FitsInv
<1> SUFFICES ASSUME Init PROVE FitsInv
  OBVIOUS
<1>1. BoundaryInv
  BY InitBoundary
<1>2. Tolerated /\ Saved
  BY DEF Init, Tolerated, Saved, OldPlan, OldState
<1>3. \A f : SumFunctionOnSet(f, {}) = 0
  BY FS_EmptySet, SumPicked
<1>4. QED
  BY <1>1, <1>2, <1>3 DEF Init, FitsInv

\* Admitting is the only step that adds to the sums.
LEMMA StepFits == ASSUME FitsInv, [Next]_vars PROVE FitsInv'
<1> DEFINE Counted == /\ minutes <= limits.budget => SumFunctionOnSet(MinutesOf, chosen) <= minutes
                      /\ files <= limits.maxFiles => SumFunctionOnSet(FilesOf, chosen) <= files
<1>1. BoundaryInv /\ Tolerated /\ Saved /\ Counted /\ TypeOK
  BY DEF FitsInv, BoundaryInv
<1>2. BoundaryInv'
  BY <1>1, StepBoundary
<1>3. ASSUME NEW i \in Items, Select(i) PROVE Tolerated' /\ Saved' /\ Counted'
  <2>1. /\ pc = "select" /\ pc' = "select" /\ gaps' = gaps /\ limits' = limits
        /\ plan' = plan /\ planState' = planState
    BY <1>3 DEF Select, saved
  <2>2. Saved'
    BY <1>1, <2>1 DEF Saved
  <2>3. CASE Fits(i) /\ Admit(i) /\ UNCHANGED escalated
    <3>1. Tolerated'
      BY <1>1, <2>1, <2>3, BacklogFixed DEF Tolerated, Admit, Fits
    <3>2. QED
      BY <2>1, <2>2, <2>3, <3>1, AdmitFits
  <2>4. CASE EscalateMandatory(i) /\ UNCHANGED <<selected, chosen, minutes, files>>
    <3>1. escalated \subseteq escalated' /\ chosen' = chosen /\ minutes' = minutes /\ files' = files
      BY <2>4 DEF EscalateMandatory
    <3>2. Tolerated'
      BY <1>1, <2>1, <3>1, BacklogFixed DEF Tolerated
    <3>3. Counted'
      BY <1>1, <2>1, <3>1, BacklogFixed
    <3>4. QED
      BY <2>2, <3>2, <3>3
  <2>5. QED
    BY <1>3, <2>3, <2>4 DEF Select
<1>4. ASSUME CloseDependency PROVE Tolerated' /\ Saved' /\ Counted'
  <2> DEFINE d == Head(deps)
  <2>1. /\ pc = "close" /\ pc' = pc /\ gaps' = gaps /\ limits' = limits
        /\ plan' = plan /\ planState' = planState /\ todo = {}
    BY <1>1, <1>4 DEF CloseDependency, saved, BoundaryInv, SelectionPassed
  <2>2. Saved'
    BY <1>1, <2>1 DEF Saved
  <2>3. CASE UNCHANGED <<choice, admitted, queue>>
    BY <2>1, <2>2, <2>3, FitsUntouched
  <2>4. CASE /\ d \in Items \ chosen
             /\ Priority(d) = 0 \/ Fits(d)
             /\ AdmitDependency(d)
             /\ UNCHANGED <<todo, escalated>>
    <3>1. Admit(d) /\ d \in Items
      BY <2>4 DEF AdmitDependency
    <3>2. Priority(d) = 0 => escalated # {}
      BY <1>1, <2>1, <2>4 DEF BoundaryInv, MandatoryAccounted
    <3>3. Tolerated'
      BY <1>1, <2>1, <2>4, <3>1, <3>2, BacklogFixed DEF Tolerated, Admit, Fits
    <3>4. QED
      BY <2>1, <2>2, <3>1, <3>3, AdmitFits
  <2>5. CASE EscalateDependent(current) /\ UNCHANGED <<todo, minutes, files, admitted, queue>>
    <3>1. /\ escalated' # {} /\ chosen' \in SUBSET chosen /\ chosen \in SUBSET Items
          /\ minutes' = minutes /\ files' = files
      BY <1>1, <2>5 DEF EscalateDependent, TypeOK
    <3>2. Tolerated'
      BY <3>1 DEF Tolerated
    <3>3. /\ MinutesOf \in [Items -> Nat] /\ FilesOf \in [Items -> Nat]
          /\ minutes \in Nat /\ files \in Nat /\ chosen' \in SUBSET Items
      BY <1>1, <3>1, CountersType
    <3>4. /\ SumFunctionOnSet(MinutesOf, chosen') <= SumFunctionOnSet(MinutesOf, chosen)
          /\ SumFunctionOnSet(FilesOf, chosen') <= SumFunctionOnSet(FilesOf, chosen)
          /\ SumFunctionOnSet(MinutesOf, chosen') \in Nat
          /\ SumFunctionOnSet(FilesOf, chosen') \in Nat
          /\ SumFunctionOnSet(MinutesOf, chosen) \in Nat
          /\ SumFunctionOnSet(FilesOf, chosen) \in Nat
      BY <3>1, <3>3, SumsOfItems
    <3>5. Counted'
      BY <1>1, <2>1, <3>1, <3>3, <3>4, BacklogFixed
    <3>6. QED
      BY <2>2, <3>2, <3>5
  <2>6. QED
    BY <1>4, <2>3, <2>4, <2>5 DEF CloseDependency
<1>5. ASSUME \/ StartClosure \/ PopQueue \/ FinishDependent \/ FinishClosure
             \/ VisitNext \/ VisitDependency \/ FinishVisit \/ FinishSequence
             \/ Crash \/ UNCHANGED vars
      PROVE  Tolerated' /\ Saved' /\ Counted'
  <2>1. /\ gaps' = gaps /\ limits' = limits /\ UNCHANGED choice /\ UNCHANGED saved
        /\ \/ pc \notin {"save_state", "done", "killed"}
           \/ pc = "save_state" /\ pc' = "killed"
           \/ pc' = pc
    BY <1>5 DEF StartClosure, PopQueue, FinishDependent, FinishClosure, VisitNext,
       VisitDependency, FinishVisit, FinishSequence, Crash, vars
  <2>2. chosen' = chosen /\ escalated' = escalated /\ plan' = plan /\ planState' = planState
    BY <2>1 DEF choice, saved
  <2>3. Saved'
    BY <1>1, <2>1, <2>2 DEF Saved
  <2>4. QED
    BY <2>1, <2>3, FitsUntouched
<1>6. ASSUME SavePlan \/ SaveState PROVE Tolerated' /\ Saved' /\ Counted'
  <2>1. gaps' = gaps /\ limits' = limits /\ UNCHANGED choice
    BY <1>6 DEF SavePlan, SaveState
  <2>2. chosen' = chosen /\ escalated' = escalated
    BY <2>1 DEF choice
  <2>3. Saved'
    BY <1>1, <1>6, <2>2 DEF Saved, SavePlan, SaveState
  <2>4. QED
    BY <2>1, <2>3, FitsUntouched
<1>7. Tolerated' /\ Saved' /\ Counted'
  BY <1>3, <1>4, <1>5, <1>6 DEF Next, Run
<1>8. QED
  BY <1>2, <1>7 DEF FitsInv

\* A plan that execution may run without an override keeps the run boundary,
\* computed from its items: minutes, files and the risk of each (_select_work of
\* planning.py, whose counters are not given back when the closure withdraws an
\* item, and the two saves of execute()).
THEOREM RunnablePlanKeepsBoundary == Spec => []RunnablePlanFits
<1>1. FitsInv => RunnablePlanFits
  <2> SUFFICES ASSUME FitsInv, plan.new, planState.new, ~planState.requires_explicit_override
               PROVE  /\ SumFunctionOnSet(MinutesOf, plan.selected_items) <= limits.budget
                      /\ SumFunctionOnSet(FilesOf, plan.selected_items) <= limits.maxFiles
                      /\ \A i \in plan.selected_items : Risk(i) <= limits.tolerance
    BY DEF RunnablePlanFits, MinutesOf, FilesOf
  <2>1. escalated = {} /\ plan.selected_items = chosen
    BY DEF FitsInv, Saved
  <2>2. minutes <= limits.budget /\ files <= limits.maxFiles
    BY <2>1 DEF FitsInv, BoundaryInv, BoundaryOrOverride
  <2>3. /\ SumFunctionOnSet(MinutesOf, chosen) <= minutes
        /\ SumFunctionOnSet(FilesOf, chosen) <= files
    BY <2>2 DEF FitsInv
  <2>4. /\ SumFunctionOnSet(MinutesOf, chosen) \in Nat /\ SumFunctionOnSet(FilesOf, chosen) \in Nat
        /\ minutes \in Nat /\ files \in Nat /\ limits.budget \in Nat /\ limits.maxFiles \in Nat
    BY CountersType, SumsOfItems DEF FitsInv, BoundaryInv, TypeOK
  <2>5. QED
    BY <2>1, <2>2, <2>3, <2>4 DEF FitsInv, Tolerated
<1>2. FitsInv /\ [Next]_vars => FitsInv'
  BY StepFits
<1>3. QED
  BY <1>1, <1>2, InitFits, PTL DEF Spec

-----------------------------------------------------------------------------
(* Lists. *)

Members(s) == {s[k] : k \in 1..Len(s)}
Once(s) == \A k, l \in 1..Len(s) : s[k] = s[l] => k = l

\* Putting one element behind a list.
LEMMA Appended ==
  ASSUME NEW S, NEW s \in Seq(S), NEW x \in S
  PROVE  /\ Append(s, x) \in Seq(S) /\ Len(Append(s, x)) = Len(s) + 1
         /\ \A k \in 1..Len(s) : Append(s, x)[k] = s[k]
         /\ Append(s, x)[Len(s) + 1] = x
         /\ Members(Append(s, x)) = Members(s) \cup {x}
         /\ Once(s) /\ x \notin Members(s) => Once(Append(s, x))
<1> DEFINE t == Append(s, x)
<1>1. /\ t \in Seq(S) /\ Len(s) \in Nat /\ Len(t) = Len(s) + 1
      /\ \A k \in 1..Len(s) : t[k] = s[k]
      /\ t[Len(s) + 1] = x
  OBVIOUS
<1> HIDE DEF t
<1>2. Members(t) = Members(s) \cup {x}
  <2>1. ASSUME NEW y \in Members(s) PROVE y \in Members(t)
    <3>1. PICK k \in 1..Len(s) : s[k] = y
      BY DEF Members
    <3>2. k \in 1..Len(t) /\ t[k] = y
      BY <1>1, <3>1
    <3>3. QED
      BY <3>2 DEF Members
  <2>2. x \in Members(t)
    BY <1>1 DEF Members
  <2>3. ASSUME NEW y \in Members(t) PROVE y \in Members(s) \cup {x}
    BY <1>1 DEF Members
  <2>4. QED
    BY <2>1, <2>2, <2>3
<1>3. ASSUME Once(s), x \notin Members(s) PROVE Once(t)
  <2>1. ASSUME NEW k \in 1..Len(s) PROVE t[k] # x
    BY <1>1, <1>3 DEF Members
  <2>2. QED
    BY <1>1, <1>3, <2>1 DEF Once
<1>4. QED
  BY <1>1, <1>2, <1>3 DEF t

\* The head and the tail of a sequence: their members, and the tail's entries one ahead.
LEMMA TakenOff ==
  ASSUME NEW S, NEW s \in Seq(S), s # <<>>
  PROVE  /\ Len(Tail(s)) = Len(s) - 1
         /\ \A k \in 1..Len(Tail(s)) : Tail(s)[k] = s[k + 1]
         /\ Members(s) = {Head(s)} \cup Members(Tail(s))
         /\ Head(s) = s[1] /\ Head(s) \in S /\ Tail(s) \in Seq(S)
<1>1. /\ Len(s) \in Nat /\ Len(s) > 0 /\ Len(Tail(s)) = Len(s) - 1
      /\ \A k \in 1..Len(Tail(s)) : Tail(s)[k] = s[k + 1]
      /\ Head(s) = s[1] /\ Head(s) \in S /\ Tail(s) \in Seq(S)
  OBVIOUS
<1>2. ASSUME NEW x \in Members(s) PROVE x \in {Head(s)} \cup Members(Tail(s))
  <2>1. PICK k \in 1..Len(s) : s[k] = x
    BY DEF Members
  <2>2. CASE k # 1
    <3>1. k - 1 \in 1..Len(Tail(s)) /\ Tail(s)[k - 1] = x
      BY <1>1, <2>1, <2>2
    <3>2. QED
      BY <3>1 DEF Members
  <2>3. QED
    BY <1>1, <2>1, <2>2
<1>3. ASSUME NEW x \in Members(Tail(s)) PROVE x \in Members(s)
  <2>1. PICK k \in 1..Len(Tail(s)) : Tail(s)[k] = x
    BY DEF Members
  <2>2. k + 1 \in 1..Len(s) /\ s[k + 1] = x
    BY <1>1, <2>1
  <2>3. QED
    BY <2>2 DEF Members
<1>4. Head(s) \in Members(s)
  BY <1>1 DEF Members
<1>5. QED
  BY <1>1, <1>2, <1>3, <1>4

\* selected.remove(i) takes i out and leaves the rest.
LEMMA WithoutMembers ==
  ASSUME NEW s \in Seq(Items), Once(s), NEW i \in Members(s)
  PROVE  Members(Without(s, i)) = Members(s) \ {i} /\ Once(Without(s, i))
<1> DEFINE at == CHOOSE k \in 1..Len(s) : s[k] = i /\ \A l \in 1..(k - 1) : s[l] # i
           t == [k \in 1..(Len(s) - 1) |-> IF k < at THEN s[k] ELSE s[k + 1]]
<1>1. Without(s, i) = t
  BY DEF Without
<1>2. Len(s) \in Nat /\ at \in 1..Len(s) /\ s[at] = i
  <2>1. PICK k \in 1..Len(s) : s[k] = i
    BY DEF Members
  <2>2. \A l \in 1..(k - 1) : s[l] # i
    BY <2>1 DEF Once
  <2>3. QED
    BY <2>1, <2>2
<1> HIDE DEF at
<1>3. Len(t) = Len(s) - 1 /\ \A k \in 1..(Len(s) - 1) : t[k] = IF k < at THEN s[k] ELSE s[k + 1]
  BY <1>2
<1> HIDE DEF t
<1>4. ASSUME NEW x \in Members(t) PROVE x \in Members(s) \ {i}
  <2>1. PICK k \in 1..(Len(s) - 1) : t[k] = x
    BY <1>3 DEF Members
  <2>2. PICK l \in 1..Len(s) : s[l] = x /\ l # at
    BY <1>2, <1>3, <2>1
  <2>3. QED
    BY <1>2, <2>2 DEF Members, Once
<1>5. ASSUME NEW x \in Members(s) \ {i} PROVE x \in Members(t)
  <2>1. PICK k \in 1..Len(s) : s[k] = x
    BY DEF Members
  <2>2. CASE k < at
    <3>1. k \in 1..(Len(s) - 1) /\ t[k] = x
      BY <1>2, <1>3, <2>1, <2>2
    <3>2. QED
      BY <1>3, <3>1 DEF Members
  <2>3. CASE k > at
    <3>1. k - 1 \in 1..(Len(s) - 1) /\ t[k - 1] = x
      BY <1>2, <1>3, <2>1, <2>3
    <3>2. QED
      BY <1>3, <3>1 DEF Members
  <2>4. QED
    BY <1>2, <2>1, <2>2, <2>3
<1>6. Once(t)
  <2>1. ASSUME NEW k \in 1..(Len(s) - 1), NEW l \in 1..(Len(s) - 1), t[k] = t[l] PROVE k = l
    BY <1>2, <1>3, <2>1 DEF Once
  <2>2. QED
    BY <1>3, <2>1 DEF Once
<1>7. QED
  BY <1>1, <1>4, <1>5, <1>6

\* RUP_DISCOVERY.json is read once.
LEMMA GapsFixed == ASSUME [Next]_vars PROVE gaps' = gaps
BY DEF Next, Run, vars, Select, StartClosure, PopQueue, CloseDependency, FinishDependent,
   FinishClosure, VisitNext, VisitDependency, FinishVisit, FinishSequence, SavePlan,
   SaveState, Crash

\* The dependencies of the backlog are those of the gaps.
LEMMA NeedsFixed ==
  ASSUME gaps' = gaps
  PROVE  \A i : NeededBy(i)' = NeededBy(i)
BY DEF NeededBy, Dependencies

-----------------------------------------------------------------------------
(* The closure.  What is selected and not yet closed is on the queue, or is  *)
(* the item being looked at and has what it lacks among the dependencies     *)
(* still to be looked at.                                                    *)

SelectedOnce == Members(selected) = chosen /\ Once(selected) /\ todo \cap chosen = {}

Closed(i) == NeededBy(i) \subseteq chosen \cup escalated

ToBeClosed(i) ==
  \/ i \in Members(queue)
  \/ i = current /\ NeededBy(i) \subseteq chosen \cup escalated \cup Members(deps)

ClosureProgress ==
  pc # "select" => \A i \in chosen : Closed(i) \/ (pc = "close" /\ ToBeClosed(i))

ClosureInv == TypeOK /\ SelectionPassed /\ SelectedOnce /\ ClosureProgress

\* No item has been looked at yet.
LEMMA InitClosure == Init => ClosureInv
<1> SUFFICES ASSUME Init PROVE ClosureInv
  OBVIOUS
<1>1. TypeOK /\ SelectionPassed
  BY InitType DEF Init, SelectionPassed
<1>2. QED
  BY <1>1 DEF Init, ClosureInv, SelectedOnce, ClosureProgress, Members, Once

\* The steps that leave selection and closure alone.
LEMMA ClosureUntouched ==
  ASSUME ClosureInv, gaps' = gaps, UNCHANGED choice, pc \notin {"select", "close"}, pc' # "select"
  PROVE  SelectionPassed' /\ SelectedOnce' /\ ClosureProgress'
<1>1. \A i : NeededBy(i)' = NeededBy(i)
  BY NeedsFixed
<1>2. SelectionPassed' /\ SelectedOnce'
  BY DEF ClosureInv, SelectionPassed, SelectedOnce, Members, Once, choice
<1>3. ClosureProgress'
  BY <1>1 DEF ClosureInv, ClosureProgress, Closed, choice
<1>4. QED
  BY <1>2, <1>3

\* An item that was not chosen is admitted without coming twice.
LEMMA AdmitOnce ==
  ASSUME TypeOK, SelectedOnce, NEW i \in Items \ chosen, Admit(i), i \notin todo'
         , todo' \subseteq todo
  PROVE  SelectedOnce'
<1>1. selected \in Seq(Items)
  BY DEF TypeOK
<1>2. i \notin Members(selected)
  BY DEF SelectedOnce
<1>3. Members(selected') = Members(selected) \cup {i} /\ Once(selected')
  BY <1>1, <1>2, Appended DEF Admit, SelectedOnce
<1>4. QED
  BY <1>3 DEF Admit, SelectedOnce

\* Every step of the planner keeps the closure's invariant.
LEMMA StepClosure == ASSUME ClosureInv, [Next]_vars PROVE ClosureInv'
<1>1. TypeOK'
  BY StepType DEF ClosureInv
<1>2. gaps' = gaps
  BY GapsFixed
<1>3. \A i : NeededBy(i)' = NeededBy(i)
  BY <1>2, NeedsFixed
<1>4. ASSUME NEW i \in Items, Select(i) PROVE ClosureInv'
  <2>1. pc' = "select" /\ todo' = todo \ {i} /\ i \in todo
    BY <1>4 DEF Select
  <2>2. SelectedOnce'
    <3>1. CASE Admit(i)
      <4>1. i \in Items \ chosen /\ i \notin todo' /\ todo' \subseteq todo
        BY <2>1 DEF ClosureInv, SelectedOnce
      <4>2. QED
        BY <3>1, <4>1, AdmitOnce DEF ClosureInv
    <3>2. CASE UNCHANGED <<selected, chosen>>
      BY <2>1, <3>2 DEF ClosureInv, SelectedOnce, Members, Once
    <3>3. QED
      BY <1>4, <3>1, <3>2 DEF Select
  <2>3. QED
    BY <1>1, <2>1, <2>2 DEF ClosureInv, SelectionPassed, ClosureProgress
<1>5. CASE StartClosure
  <2>1. /\ todo = {} /\ pc' = "close" /\ queue' = selected /\ UNCHANGED choice
    BY <1>5 DEF StartClosure
  <2>2. SelectionPassed' /\ SelectedOnce'
    BY <2>1 DEF ClosureInv, SelectionPassed, SelectedOnce, Members, Once, choice
  <2>3. ClosureProgress'
    BY <2>1 DEF ClosureInv, SelectedOnce, ClosureProgress, ToBeClosed, Members, choice
  <2>4. QED
    BY <1>1, <2>2, <2>3 DEF ClosureInv
<1>6. ASSUME pc = "close", UNCHANGED choice, pc' # "select"
      PROVE  SelectionPassed' /\ SelectedOnce'
  BY <1>6 DEF ClosureInv, SelectionPassed, SelectedOnce, Members, Once, choice
<1>7. CASE PopQueue
  <2>1. /\ pc = "close" /\ pc' = pc /\ current = None /\ queue # <<>> /\ current' = Head(queue)
        /\ queue' = Tail(queue) /\ deps' = Dependencies(Head(queue)) /\ UNCHANGED choice
    BY <1>7 DEF PopQueue
  <2>2. Members(queue) = {current'} \cup Members(queue')
    BY <2>1, TakenOff DEF ClosureInv, TypeOK
  <2>3. NeededBy(current') \subseteq Members(deps')
    BY <2>1 DEF NeededBy, Members
  <2>4. None \notin chosen
    BY DEF None, ClosureInv, TypeOK, Items
  <2>5. ClosureProgress'
    <3>1. ASSUME NEW i \in chosen, ~Closed(i) PROVE ToBeClosed(i)'
      <4>1. i \in Members(queue)
        BY <2>1, <2>4, <3>1 DEF ClosureInv, ClosureProgress, ToBeClosed
      <4>2. QED
        BY <1>3, <2>2, <2>3, <4>1 DEF ToBeClosed, Members
    <3>2. QED
      BY <1>3, <2>1, <3>1 DEF ClosureProgress, Closed, choice
  <2>6. QED
    BY <1>1, <1>6, <2>1, <2>5 DEF ClosureInv
<1>8. CASE CloseDependency
  <2> DEFINE d == Head(deps)
  <2>1. /\ pc = "close" /\ pc' = pc /\ current' = current /\ current # None
        /\ deps # <<>> /\ deps' = Tail(deps) /\ todo = {}
    BY <1>8 DEF CloseDependency, ClosureInv, SelectionPassed
  <2>2. Members(deps) = {d} \cup Members(deps')
    BY <2>1, TakenOff DEF ClosureInv, TypeOK
  <2> HIDE DEF d
  <2>3. CASE (d \in chosen \/ d \notin Items) /\ UNCHANGED <<choice, admitted, queue>>
    <3>1. ASSUME NEW i \in chosen, ~Closed(i) PROVE ToBeClosed(i)'
      <4>1. ToBeClosed(i)
        BY <2>1, <3>1 DEF ClosureInv, ClosureProgress
      <4>2. NeededBy(i) \subseteq Items
        BY DEF NeededBy
      <4>3. QED
        BY <1>3, <2>1, <2>2, <2>3, <4>1, <4>2 DEF ToBeClosed, Members, choice
    <3>2. ClosureProgress'
      BY <1>3, <2>1, <2>3, <3>1 DEF ClosureProgress, Closed, choice
    <3>3. QED
      BY <1>1, <1>6, <2>1, <2>3, <3>2 DEF ClosureInv
  <2>4. CASE d \in Items \ chosen /\ AdmitDependency(d) /\ UNCHANGED <<todo, escalated>>
    <3>1. /\ Members(queue') = Members(queue) \cup {d} /\ chosen' = chosen \cup {d}
      BY <2>4, Appended DEF AdmitDependency, Admit, ClosureInv, TypeOK
    <3>2. SelectedOnce'
      BY <2>1, <2>4, AdmitOnce DEF AdmitDependency, ClosureInv
    <3>3. ASSUME NEW i \in chosen', ~Closed(i)' PROVE ToBeClosed(i)'
      <4>1. CASE i = d
        BY <3>1, <4>1 DEF ToBeClosed, Members
      <4>2. CASE i \in chosen
        <5>1. ~Closed(i)
          BY <1>3, <2>4, <3>1, <3>3 DEF Closed
        <5>2. ToBeClosed(i)
          BY <2>1, <4>2, <5>1 DEF ClosureInv, ClosureProgress
        <5>3. QED
          BY <1>3, <2>1, <2>2, <2>4, <3>1, <5>2 DEF ToBeClosed, Members
      <4>3. QED
        BY <3>1, <3>3, <4>1, <4>2
    <3>4. ClosureProgress'
      BY <2>1, <3>3 DEF ClosureProgress
    <3>5. QED
      BY <1>1, <2>1, <2>4, <3>2, <3>4 DEF ClosureInv, SelectionPassed
  <2>5. CASE EscalateDependent(current) /\ UNCHANGED <<todo, minutes, files, admitted, queue>>
    <3>1. chosen' = chosen \ {current} /\ escalated' = escalated \cup {current}
      BY <2>5 DEF EscalateDependent
    <3>2. SelectedOnce'
      <4>1. CASE current \in chosen
        <5>1. selected' = Without(selected, current) /\ current \in Members(selected)
          BY <2>5, <4>1 DEF EscalateDependent, ClosureInv, SelectedOnce
        <5>2. Members(selected') = Members(selected) \ {current} /\ Once(selected')
          BY <5>1, WithoutMembers DEF ClosureInv, SelectedOnce, TypeOK
        <5>3. QED
          BY <2>5, <3>1, <5>2 DEF ClosureInv, SelectedOnce
      <4>2. CASE current \notin chosen
        <5>1. selected' = selected /\ chosen' = chosen
          BY <2>5, <3>1, <4>2 DEF EscalateDependent
        <5>2. QED
          BY <2>5, <5>1 DEF ClosureInv, SelectedOnce, Members, Once
      <4>3. QED
        BY <4>1, <4>2
    <3>3. ASSUME NEW i \in chosen', ~Closed(i)' PROVE ToBeClosed(i)'
      <4>1. i \in chosen /\ i # current /\ ~Closed(i)
        BY <1>3, <3>1, <3>3 DEF Closed
      <4>2. i \in Members(queue)
        BY <2>1, <4>1 DEF ClosureInv, ClosureProgress, ToBeClosed
      <4>3. QED
        BY <2>5, <4>2 DEF ToBeClosed, Members
    <3>4. ClosureProgress'
      BY <2>1, <3>3 DEF ClosureProgress
    <3>5. QED
      BY <1>1, <2>1, <2>5, <3>2, <3>4 DEF ClosureInv, SelectionPassed
  <2>6. QED
    BY <1>8, <2>3, <2>4, <2>5 DEF CloseDependency, d
<1>9. CASE FinishDependent
  <2>1. /\ pc = "close" /\ pc' = pc /\ deps = <<>> /\ UNCHANGED <<choice, queue>>
    BY <1>9 DEF FinishDependent
  <2>2. Members(deps) = {}
    BY <2>1 DEF Members
  <2>3. ClosureProgress'
    BY <1>3, <2>1, <2>2 DEF ClosureInv, ClosureProgress, ToBeClosed, Closed, Members, choice
  <2>4. QED
    BY <1>1, <1>6, <2>1, <2>3 DEF ClosureInv
<1>10. CASE FinishClosure
  <2>1. /\ pc = "close" /\ pc' = "sequence" /\ current = None /\ queue = <<>> /\ UNCHANGED choice
    BY <1>10 DEF FinishClosure
  <2>2. Members(queue) = {} /\ None \notin chosen
    BY <2>1 DEF Members, None, ClosureInv, TypeOK, Items
  <2>3. ClosureProgress'
    BY <1>3, <2>1, <2>2 DEF ClosureInv, ClosureProgress, ToBeClosed, Closed, choice
  <2>4. QED
    BY <1>1, <1>6, <2>1, <2>3 DEF ClosureInv
<1>11. CASE VisitNext \/ VisitDependency \/ FinishVisit \/ FinishSequence \/ SavePlan
            \/ SaveState \/ Crash
  <2>1. UNCHANGED choice /\ pc \notin {"select", "close"} /\ pc' # "select"
    BY <1>11 DEF VisitNext, VisitDependency, FinishVisit, FinishSequence, SavePlan, SaveState,
       Crash
  <2>2. QED
    BY <1>1, <1>2, <2>1, ClosureUntouched DEF ClosureInv
<1>12. CASE UNCHANGED vars
  <2>1. UNCHANGED <<pc, choice, closure>>
    BY <1>12 DEF vars
  <2>2. QED
    BY <1>1, <1>3, <2>1 DEF ClosureInv, SelectionPassed, SelectedOnce, ClosureProgress,
       ToBeClosed, Closed, Members, Once, choice, closure
<1>13. QED
  BY <1>4, <1>5, <1>7, <1>8, <1>9, <1>10, <1>11, <1>12 DEF Next, Run

\* After the closure a selected item lacks a dependency only if that dependency was
\* escalated (_select_work of planning.py).
THEOREM DependenciesKeptOrEscalated == Spec => []ClosedOrEscalated
<1>1. ClosureInv /\ [Next]_vars => ClosureInv'
  BY StepClosure
<1>2. ClosureInv => ClosedOrEscalated
  BY DEF ClosureInv, ClosureProgress, Closed, ClosedOrEscalated
<1>3. QED
  BY InitClosure, <1>1, <1>2, PTL DEF Spec

-----------------------------------------------------------------------------
(* The sequencing.  Every active visit() is of a selected item not yet       *)
(* ordered, and what that item waits for is ordered, still to be looked at,  *)
(* or being visited by the call above it.                                    *)

NothingVisited == pc \in {"select", "close"} => stack = <<>> /\ ordered = <<>>

VisitedOnce == visited = Members(ordered) /\ visited \subseteq chosen /\ Once(ordered)

InOrder ==
  \A k \in 1..Len(ordered) :
    NeededBy(ordered[k]) \cap chosen \subseteq {ordered[l] : l \in 1..(k - 1)}

ActiveOnce ==
  /\ \A k \in 1..Len(stack) : stack[k].item \in chosen \ visited
  /\ \A k, l \in 1..Len(stack) : stack[k].item = stack[l].item => k = l

Waiting ==
  \A k \in 1..Len(stack) : \A d \in NeededBy(stack[k].item) \cap chosen :
    d \in visited \/ d \in Members(stack[k].deps) \/ (k > 1 /\ d = stack[k - 1].item)

AllVisited == pc \in {"save_plan", "save_state", "done"} => visited = chosen

PlanIsSequence ==
  plan.new => /\ pc \in {"save_state", "done", "killed"}
              /\ visited = chosen
              /\ plan.selected_items = chosen /\ plan.execution_order = ordered

SequenceInv ==
  /\ NothingVisited /\ VisitedOnce /\ InOrder /\ ActiveOnce /\ Waiting
  /\ AllVisited /\ PlanIsSequence

\* Before sequencing begins there is no order to speak of.
LEMMA NothingYet ==
  ASSUME stack = <<>>, ordered = <<>>, visited = {}, ~plan.new,
         pc \notin {"save_plan", "save_state", "done"}
  PROVE  SequenceInv
BY DEF SequenceInv, NothingVisited, VisitedOnce, InOrder, ActiveOnce, Waiting, AllVisited,
   PlanIsSequence, Members, Once

\* Nothing is in order yet.
LEMMA InitSequence == Init => SequenceInv
BY NothingYet DEF Init, OldPlan

\* Selection and closure: no visit() has been made.
LEMMA SelectingSequence ==
  ASSUME SequenceInv, pc \in {"select", "close"}, pc' \in {"select", "close", "sequence"},
         UNCHANGED <<visit, saved>>
  PROVE  SequenceInv'
<1>1. stack = <<>> /\ ordered = <<>> /\ visited = {} /\ ~plan.new
  BY DEF SequenceInv, NothingVisited, VisitedOnce, PlanIsSequence, Members
<1>2. stack' = <<>> /\ ordered' = <<>> /\ visited' = {} /\ ~plan'.new
  BY <1>1 DEF visit, saved
<1>3. QED
  BY <1>2 DEF SequenceInv, NothingVisited, VisitedOnce, InOrder, ActiveOnce, Waiting, AllVisited,
     PlanIsSequence, Members, Once

\* Steps that neither select nor visit.
LEMMA SequenceKept ==
  ASSUME SequenceInv, gaps' = gaps, UNCHANGED <<chosen, visit>>
  PROVE  VisitedOnce' /\ InOrder' /\ ActiveOnce' /\ Waiting'
<1>1. \A i : NeededBy(i)' = NeededBy(i)
  BY NeedsFixed
<1>2. QED
  BY <1>1 DEF SequenceInv, VisitedOnce, InOrder, ActiveOnce, Waiting, Members, Once, visit

\* A call of visit() for d: the first one, or made by the call on top.
LEMMA VisitStarted ==
  ASSUME TypeOK, SequenceInv, gaps' = gaps, UNCHANGED <<chosen, visited, ordered>>,
         NEW d \in chosen \ visited, d \notin Visiting,
         NEW rest \in Seq(Frames), Len(rest) = Len(stack),
         \A k \in 1..Len(stack) : rest[k].item = stack[k].item,
         \A k \in 1..Len(stack) :
           Members(stack[k].deps) \subseteq Members(rest[k].deps) \cup (IF k = 1 THEN {d} ELSE {}),
         stack' = <<Frame(d)>> \o rest
  PROVE  ActiveOnce' /\ Waiting'
<1>1. \A i : NeededBy(i)' = NeededBy(i)
  BY NeedsFixed
<1>2. /\ Len(rest) \in Nat /\ Len(stack') = Len(rest) + 1 /\ stack'[1] = Frame(d)
      /\ \A k \in 2..Len(stack') : stack'[k] = rest[k - 1]
  OBVIOUS
<1>3. stack'[1].item = d /\ stack'[1].deps = Dependencies(d)
  BY <1>2 DEF Frame
<1>4. \A k \in 2..Len(stack') : k - 1 \in 1..Len(stack) /\ stack'[k].item = stack[k - 1].item
  BY <1>2
<1>5. ActiveOnce'
  <2>1. ASSUME NEW k \in 1..Len(stack') PROVE stack'[k].item \in chosen \ visited
    <3>1. CASE k = 1
      BY <1>3, <3>1
    <3>2. CASE k # 1
      <4>1. k \in 2..Len(stack')
        BY <3>2
      <4>2. k - 1 \in 1..Len(stack) /\ stack'[k].item = stack[k - 1].item
        BY <1>4, <4>1
      <4>3. QED
        BY <4>2 DEF SequenceInv, ActiveOnce
    <3>3. QED
      BY <3>1, <3>2
  <2>2. \A k \in 2..Len(stack') : stack'[k].item # d
    BY <1>4 DEF Visiting
  <2>3. ASSUME NEW k \in 1..Len(stack'), NEW l \in 1..Len(stack'), stack'[k].item = stack'[l].item
        PROVE  k = l
    <3>1. CASE k = 1 \/ l = 1
      BY <1>2, <1>3, <2>2, <2>3, <3>1
    <3>2. CASE k # 1 /\ l # 1
      <4>1. k \in 2..Len(stack') /\ l \in 2..Len(stack')
        BY <3>2
      <4>2. stack[k - 1].item = stack[l - 1].item
        BY <1>4, <2>3, <4>1
      <4>3. k - 1 = l - 1
        BY <1>4, <4>1, <4>2 DEF SequenceInv, ActiveOnce
      <4>4. QED
        BY <4>3
    <3>3. QED
      BY <3>1, <3>2
  <2>4. QED
    BY <2>1, <2>3 DEF ActiveOnce
<1>6. ASSUME NEW k \in 1..Len(stack'), NEW e \in NeededBy(stack'[k].item) \cap chosen
      PROVE  \/ e \in visited \/ e \in Members(stack'[k].deps)
             \/ (k > 1 /\ e = stack'[k - 1].item)
  <2>1. CASE k = 1
    BY <1>3, <1>6, <2>1 DEF NeededBy, Members
  <2>2. CASE k # 1
    <3>1. k \in 2..Len(stack') /\ k - 1 \in 1..Len(stack)
      BY <1>4, <2>2
    <3>2. e \in NeededBy(stack[k - 1].item) \cap chosen
      BY <1>4, <1>6, <3>1
    <3>3. \/ e \in visited \/ e \in Members(stack[k - 1].deps)
          \/ (k - 1 > 1 /\ e = stack[(k - 1) - 1].item)
      BY <3>1, <3>2 DEF SequenceInv, Waiting
    <3>4. CASE e \in Members(stack[k - 1].deps)
      <4>1. e \in Members(rest[k - 1].deps) \/ (k - 1 = 1 /\ e = d)
        BY <3>1, <3>4
      <4>2. QED
        BY <1>2, <1>3, <3>1, <4>1
    <3>5. CASE k - 1 > 1 /\ e = stack[(k - 1) - 1].item
      <4>1. k - 1 \in 2..Len(stack') /\ stack'[k - 1].item = stack[(k - 1) - 1].item
        BY <1>4, <3>1, <3>5
      <4>2. QED
        BY <3>1, <3>5, <4>1
    <3>6. QED
      BY <3>3, <3>4, <3>5
  <2>3. QED
    BY <2>1, <2>2
<1>7. Waiting'
  BY <1>1, <1>6 DEF Waiting, Members
<1>8. QED
  BY <1>5, <1>7

\* The call on top has looked at a dependency it need not visit.
LEMMA DependencyPassed ==
  ASSUME TypeOK, SequenceInv, gaps' = gaps, UNCHANGED <<chosen, visited, ordered>>,
         NEW rest \in Seq(Frames), Len(rest) = Len(stack),
         \A k \in 1..Len(stack) : rest[k].item = stack[k].item,
         NEW d, d \in chosen => d \in visited,
         \A k \in 1..Len(stack) :
           Members(stack[k].deps) \subseteq Members(rest[k].deps) \cup (IF k = 1 THEN {d} ELSE {}),
         stack' = rest
  PROVE  ActiveOnce' /\ Waiting'
<1>1. \A i : NeededBy(i)' = NeededBy(i)
  BY NeedsFixed
<1>2. Len(stack) \in Nat /\ \A k \in 1..Len(stack) : stack'[k].item = stack[k].item
  BY DEF TypeOK
<1>3. ActiveOnce'
  BY <1>2 DEF SequenceInv, ActiveOnce
<1>4. ASSUME NEW k \in 1..Len(stack'), NEW e \in NeededBy(stack'[k].item) \cap chosen
      PROVE  \/ e \in visited \/ e \in Members(stack'[k].deps)
             \/ (k > 1 /\ e = stack'[k - 1].item)
  <2>1. k \in 1..Len(stack) /\ e \in NeededBy(stack[k].item) \cap chosen
    BY <1>2, <1>4
  <2>2. \/ e \in visited \/ e \in Members(stack[k].deps)
        \/ (k > 1 /\ e = stack[k - 1].item)
    BY <2>1 DEF SequenceInv, Waiting
  <2>3. CASE e \in Members(stack[k].deps)
    BY <1>4, <2>1, <2>3
  <2>4. CASE k > 1 /\ e = stack[k - 1].item
    <3>1. k - 1 \in 1..Len(stack)
      BY <1>2, <2>1, <2>4
    <3>2. QED
      BY <1>2, <2>4, <3>1
  <2>5. QED
    BY <2>2, <2>3, <2>4
<1>5. Waiting'
  BY <1>1, <1>4 DEF Waiting, Members
<1>6. QED
  BY <1>3, <1>5

\* The stack after the call on top has taken its next dependency.
LEMMA ConsumedStack ==
  ASSUME stack \in Seq(Frames), stack # <<>>, stack[1].deps # <<>>
  PROVE  /\ Consumed \in Seq(Frames) /\ Len(Consumed) = Len(stack)
         /\ \A k \in 1..Len(stack) : Consumed[k].item = stack[k].item
         /\ \A k \in 1..Len(stack) :
              Members(stack[k].deps) \subseteq
                Members(Consumed[k].deps) \cup (IF k = 1 THEN {Head(stack[1].deps)} ELSE {})
<1> DEFINE top == [stack[1] EXCEPT !.deps = Tail(@)]
<1>1. /\ Len(stack) \in Nat /\ Len(stack) > 0 /\ stack[1] \in Frames
      /\ Tail(stack) \in Seq(Frames) /\ Len(Tail(stack)) = Len(stack) - 1
      /\ \A k \in 1..Len(Tail(stack)) : Tail(stack)[k] = stack[k + 1]
  OBVIOUS
<1>2. stack[1].deps \in Seq(0..N) /\ stack[1].item \in Items
  BY <1>1 DEF Frames
<1>3. /\ Tail(stack[1].deps) \in Seq(0..N)
      /\ Members(stack[1].deps) = {Head(stack[1].deps)} \cup Members(Tail(stack[1].deps))
  BY <1>2, TakenOff
<1>4. top \in Frames /\ top.item = stack[1].item /\ top.deps = Tail(stack[1].deps)
  BY <1>1, <1>2, <1>3 DEF Frames
<1>5. Consumed = <<top>> \o Tail(stack)
  BY DEF Consumed
<1> HIDE DEF top
<1>6. /\ Consumed \in Seq(Frames) /\ Len(Consumed) = Len(stack) /\ Consumed[1] = top
      /\ \A k \in 2..Len(stack) : Consumed[k] = stack[k]
  <2>1. Consumed \in Seq(Frames) /\ Len(Consumed) = Len(stack)
    BY <1>1, <1>4, <1>5
  <2>2. Consumed[1] = top
    BY <1>1, <1>4, <1>5
  <2>3. ASSUME NEW k \in 2..Len(stack) PROVE Consumed[k] = stack[k]
    <3>1. k - 1 \in 1..Len(Tail(stack)) /\ Tail(stack)[k - 1] = stack[k]
      BY <1>1
    <3>2. Consumed[k] = Tail(stack)[k - 1]
      BY <1>1, <1>4, <1>5
    <3>3. QED
      BY <3>1, <3>2
  <2>4. QED
    BY <2>1, <2>2, <2>3
<1>7. ASSUME NEW k \in 1..Len(stack)
      PROVE  /\ Consumed[k].item = stack[k].item
             /\ Members(stack[k].deps) \subseteq
                  Members(Consumed[k].deps) \cup (IF k = 1 THEN {Head(stack[1].deps)} ELSE {})
  <2>1. CASE k = 1
    BY <1>3, <1>4, <1>6, <2>1
  <2>2. CASE k # 1
    BY <1>1, <1>6, <2>2
  <2>3. QED
    BY <2>1, <2>2
<1>8. QED
  BY <1>6, <1>7

\* ordered.append(item_id): all the item depends on is ordered already.
LEMMA VisitFinished ==
  ASSUME TypeOK, SequenceInv, FinishVisit
  PROVE  /\ VisitedOnce' /\ InOrder' /\ ActiveOnce' /\ Waiting'
         /\ stack[1].item \in chosen \ visited
         /\ NeededBy(stack[1].item) \cap chosen \subseteq visited
<1> DEFINE i == stack[1].item
<1>1. /\ pc = "sequence" /\ stack # <<>> /\ stack[1].deps = <<>> /\ gaps' = gaps
      /\ chosen' = chosen
      /\ visited' = visited \cup {i} /\ ordered' = Append(ordered, i) /\ stack' = Tail(stack)
  BY DEF FinishVisit, AppendOrdered, choice
<1>2. \A j : NeededBy(j)' = NeededBy(j)
  BY <1>1, NeedsFixed
<1>3. /\ Len(stack) \in Nat /\ Len(stack) > 0 /\ Len(stack') = Len(stack) - 1
      /\ \A k \in 1..Len(stack') : stack'[k] = stack[k + 1]
  <2>1. stack \in Seq(Frames)
    BY DEF TypeOK
  <2>2. QED
    BY <1>1, <2>1, TakenOff
<1>4. i \in chosen \ visited /\ 1 \in 1..Len(stack) /\ i \in Items
  BY <1>3 DEF SequenceInv, ActiveOnce, TypeOK
<1>5. NeededBy(i) \cap chosen \subseteq visited
  <2>1. Members(stack[1].deps) = {}
    BY <1>1 DEF Members
  <2>2. QED
    BY <1>4, <2>1 DEF SequenceInv, Waiting
<1> HIDE DEF i
<1>6. /\ Len(ordered) \in Nat /\ Len(ordered') = Len(ordered) + 1
      /\ \A k \in 1..Len(ordered) : ordered'[k] = ordered[k]
      /\ ordered'[Len(ordered) + 1] = i
      /\ Members(ordered') = Members(ordered) \cup {i}
      /\ Once(ordered) /\ i \notin Members(ordered) => Once(ordered')
  <2>1. ordered \in Seq(Items)
    BY DEF TypeOK
  <2>2. QED
    BY <1>1, <1>4, <2>1, Appended
<1>7. VisitedOnce'
  BY <1>1, <1>4, <1>6 DEF SequenceInv, VisitedOnce
<1>8. ASSUME NEW k \in 1..Len(ordered')
      PROVE  NeededBy(ordered'[k]) \cap chosen \subseteq {ordered'[l] : l \in 1..(k - 1)}
  <2>1. CASE k \in 1..Len(ordered)
    <3>1. NeededBy(ordered[k]) \cap chosen \subseteq {ordered[l] : l \in 1..(k - 1)}
      BY <2>1 DEF SequenceInv, InOrder
    <3>2. \A l \in 1..(k - 1) : ordered'[l] = ordered[l]
      BY <1>6, <2>1
    <3>3. QED
      BY <1>6, <2>1, <3>1, <3>2
  <2>2. CASE k = Len(ordered) + 1
    <3>1. \A l \in 1..(k - 1) : ordered'[l] = ordered[l]
      BY <1>6, <2>2
    <3>2. {ordered'[l] : l \in 1..(k - 1)} = Members(ordered)
      BY <1>6, <2>2, <3>1 DEF Members
    <3>3. QED
      BY <1>5, <1>6, <2>2, <3>2 DEF SequenceInv, VisitedOnce
  <2>3. QED
    BY <1>6, <2>1, <2>2
<1>9. InOrder'
  BY <1>1, <1>2, <1>8 DEF InOrder
<1>10. ActiveOnce'
  <2>1. ASSUME NEW k \in 1..Len(stack') PROVE stack'[k].item \in chosen \ visited'
    <3>1. k + 1 \in 1..Len(stack) /\ stack'[k].item = stack[k + 1].item
      BY <1>3
    <3>2. stack[k + 1].item # i
      BY <1>4, <3>1 DEF SequenceInv, ActiveOnce, i
    <3>3. QED
      BY <1>1, <3>1, <3>2 DEF SequenceInv, ActiveOnce
  <2>2. ASSUME NEW k \in 1..Len(stack'), NEW l \in 1..Len(stack'), stack'[k].item = stack'[l].item
        PROVE  k = l
    <3>1. /\ k + 1 \in 1..Len(stack) /\ l + 1 \in 1..Len(stack)
          /\ stack[k + 1].item = stack[l + 1].item
      BY <1>3, <2>2
    <3>2. k + 1 = l + 1
      BY <3>1 DEF SequenceInv, ActiveOnce
    <3>3. QED
      BY <3>2
  <2>3. QED
    BY <1>1, <2>1, <2>2 DEF ActiveOnce
<1>11. ASSUME NEW k \in 1..Len(stack'), NEW e \in NeededBy(stack'[k].item) \cap chosen
       PROVE  \/ e \in visited' \/ e \in Members(stack'[k].deps)
              \/ (k > 1 /\ e = stack'[k - 1].item)
  <2>1. k + 1 \in 1..Len(stack) /\ stack'[k] = stack[k + 1]
    BY <1>3
  <2>2. \/ e \in visited \/ e \in Members(stack[k + 1].deps)
        \/ (k + 1 > 1 /\ e = stack[(k + 1) - 1].item)
    BY <1>11, <2>1 DEF SequenceInv, Waiting
  <2>3. CASE e = stack[(k + 1) - 1].item
    <3>1. CASE k = 1
      BY <1>1, <2>3, <3>1 DEF i
    <3>2. CASE k > 1
      <4>1. k - 1 \in 1..Len(stack') /\ stack'[k - 1] = stack[(k - 1) + 1]
        BY <1>3, <3>2
      <4>2. (k - 1) + 1 = (k + 1) - 1
        OBVIOUS
      <4>3. QED
        BY <2>3, <3>2, <4>1, <4>2
    <3>3. QED
      BY <3>1, <3>2
  <2>4. QED
    BY <1>1, <2>1, <2>2, <2>3
<1>12. Waiting'
  BY <1>1, <1>2, <1>11 DEF Waiting, Members
<1>13. QED
  BY <1>4, <1>5, <1>7, <1>9, <1>10, <1>12 DEF i

\* Every step preserves the invariant of the sequencing.
LEMMA StepSequence ==
  ASSUME ClosureInv, SequenceInv, [Next]_vars
  PROVE  SequenceInv'
<1>1. TypeOK
  BY DEF ClosureInv
<1>2. gaps' = gaps
  BY GapsFixed
<1>3. CASE (\E i \in Items : Select(i)) \/ StartClosure \/ PopQueue \/ CloseDependency
           \/ FinishDependent \/ FinishClosure
  <2>1. /\ pc \in {"select", "close"} /\ pc' \in {"select", "close", "sequence"}
        /\ UNCHANGED <<visit, saved>>
    BY <1>3 DEF Select, StartClosure, PopQueue, CloseDependency, FinishDependent, FinishClosure
  <2>2. QED
    BY <2>1, SelectingSequence
\* Steps of the sequencing: what the plan says is not touched, nor said yet.
<1>4. ASSUME pc = "sequence", UNCHANGED saved, pc' \in {"sequence", "cycle_error"},
             VisitedOnce' /\ InOrder' /\ ActiveOnce' /\ Waiting'
      PROVE  SequenceInv'
  <2>1. NothingVisited' /\ AllVisited'
    BY <1>4 DEF NothingVisited, AllVisited
  <2>2. PlanIsSequence'
    BY <1>4 DEF SequenceInv, PlanIsSequence, saved
  <2>3. QED
    BY <1>4, <2>1, <2>2 DEF SequenceInv
<1>5. ASSUME UNCHANGED <<chosen, visit>>
      PROVE  VisitedOnce' /\ InOrder' /\ ActiveOnce' /\ Waiting'
  BY <1>2, <1>5, SequenceKept
<1>6. ASSUME UNCHANGED <<chosen, visited, ordered>> PROVE VisitedOnce' /\ InOrder'
  <2>1. \A i : NeededBy(i)' = NeededBy(i)
    BY <1>2, NeedsFixed
  <2>2. QED
    BY <1>6, <2>1 DEF SequenceInv, VisitedOnce, InOrder, Members, Once
<1>7. CASE VisitNext
  <2>1. /\ pc = "sequence" /\ pc' = pc /\ stack = <<>>
        /\ UNCHANGED <<chosen, visited, ordered>> /\ UNCHANGED saved
    BY <1>7 DEF VisitNext, choice
  <2>2. PICK k \in 1..Len(selected) :
          selected[k] \notin visited /\ stack' = <<Frame(selected[k])>>
    BY <1>7 DEF VisitNext
  <2>3. selected[k] \in chosen \ visited
    BY <2>2 DEF ClosureInv, SelectedOnce, Members
  <2>4. stack' = <<Frame(selected[k])>> \o stack
    BY <2>1, <2>2
  <2>5. ActiveOnce' /\ Waiting'
    <3>1. selected[k] \notin Visiting /\ stack \in Seq(Frames) /\ Len(stack) = 0
      BY <2>1 DEF Visiting
    <3>2. QED
      BY <1>1, <1>2, <2>1, <2>3, <2>4, <3>1, VisitStarted
  <2>6. QED
    BY <1>4, <1>6, <2>1, <2>5
<1>8. CASE VisitDependency
  <2> DEFINE d == Head(stack[1].deps)
  <2>1. /\ pc = "sequence" /\ pc' \in {"sequence", "cycle_error"} /\ UNCHANGED saved
        /\ stack # <<>> /\ stack[1].deps # <<>>
        /\ UNCHANGED <<chosen, visited, ordered>>
    BY <1>8 DEF VisitDependency, choice
  <2>2. stack \in Seq(Frames)
    BY <1>1 DEF TypeOK
  <2>3. /\ Consumed \in Seq(Frames) /\ Len(Consumed) = Len(stack)
        /\ \A k \in 1..Len(stack) : Consumed[k].item = stack[k].item
        /\ \A k \in 1..Len(stack) :
             Members(stack[k].deps) \subseteq
               Members(Consumed[k].deps) \cup (IF k = 1 THEN {d} ELSE {})
    BY <2>1, <2>2, ConsumedStack
  <2>4. \/ UNCHANGED stack
        \/ d \in chosen \ visited /\ d \notin Visiting /\ stack' = <<Frame(d)>> \o Consumed
        \/ (d \in chosen => d \in visited) /\ stack' = Consumed
    BY <1>8 DEF VisitDependency
  <2> HIDE DEF d
  <2>5. ActiveOnce' /\ Waiting'
    <3>1. CASE UNCHANGED stack
      BY <1>5, <2>1, <3>1 DEF visit
    <3>2. CASE d \in chosen \ visited /\ d \notin Visiting /\ stack' = <<Frame(d)>> \o Consumed
      BY <1>1, <1>2, <2>1, <2>3, <3>2, VisitStarted
    <3>3. CASE (d \in chosen => d \in visited) /\ stack' = Consumed
      BY <1>1, <1>2, <2>1, <2>3, <3>3, DependencyPassed
    <3>4. QED
      BY <2>4, <3>1, <3>2, <3>3
  <2>6. QED
    BY <1>4, <1>6, <2>1, <2>5
<1>9. CASE FinishVisit
  <2>1. pc = "sequence" /\ pc' = pc /\ UNCHANGED saved
    BY <1>9 DEF FinishVisit
  <2>2. QED
    BY <1>1, <1>4, <1>9, <2>1, VisitFinished
<1>10. CASE FinishSequence
  <2>1. /\ pc = "sequence" /\ pc' = "save_plan" /\ UNCHANGED <<chosen, visit>> /\ UNCHANGED saved
        /\ \A k \in 1..Len(selected) : selected[k] \in visited
    BY <1>10 DEF FinishSequence, choice
  <2>2. visited = chosen
    BY <2>1 DEF ClosureInv, SelectedOnce, Members, SequenceInv, VisitedOnce
  <2>3. NothingVisited' /\ AllVisited' /\ PlanIsSequence'
    BY <2>1, <2>2 DEF NothingVisited, AllVisited, SequenceInv, PlanIsSequence, visit, saved
  <2>4. QED
    BY <1>5, <2>1, <2>3 DEF SequenceInv
<1>11. CASE SavePlan
  <2>1. /\ pc = "save_plan" /\ pc' = "save_state" /\ UNCHANGED <<chosen, visit>>
        /\ plan' = [new |-> TRUE, selected_items |-> chosen, execution_order |-> ordered]
    BY <1>11 DEF SavePlan, choice
  <2>2. visited = chosen
    BY <2>1 DEF SequenceInv, AllVisited
  <2>3. NothingVisited' /\ AllVisited' /\ PlanIsSequence'
    BY <2>1, <2>2 DEF NothingVisited, AllVisited, PlanIsSequence, visit
  <2>4. QED
    BY <1>5, <2>1, <2>3 DEF SequenceInv
<1>12. CASE SaveState \/ Crash
  <2>1. /\ pc \in {"save_plan", "save_state"} /\ pc' \in {"done", "killed"}
        /\ UNCHANGED <<chosen, visit>> /\ plan' = plan
    BY <1>12 DEF SaveState, Crash, choice, saved
  <2>2. visited = chosen
    BY <2>1 DEF SequenceInv, AllVisited
  <2>3. NothingVisited' /\ AllVisited' /\ PlanIsSequence'
    BY <2>1, <2>2 DEF NothingVisited, AllVisited, SequenceInv, PlanIsSequence, visit
  <2>4. QED
    BY <1>5, <2>1, <2>3 DEF SequenceInv
<1>13. CASE UNCHANGED vars
  <2>1. UNCHANGED <<pc, chosen, visit>> /\ plan' = plan
    BY <1>13 DEF vars, choice, saved
  <2>2. NothingVisited' /\ AllVisited' /\ PlanIsSequence'
    BY <2>1 DEF NothingVisited, AllVisited, SequenceInv, PlanIsSequence, visit
  <2>3. QED
    BY <1>5, <2>1, <2>2 DEF SequenceInv
<1>14. QED
  BY <1>3, <1>7, <1>8, <1>9, <1>10, <1>11, <1>12, <1>13 DEF Next, Run

\* The saved execution order lists each selected item once, after every selected item
\* it depends on (_sequence_execution of planning.py).
THEOREM SavedOrderIsSound == Spec => []DependenciesFirst
<1>1. ClosureInv /\ SequenceInv /\ [Next]_vars => (ClosureInv /\ SequenceInv)'
  BY StepClosure, StepSequence
<1>2. ClosureInv /\ SequenceInv => DependenciesFirst
  <2> SUFFICES ASSUME ClosureInv, SequenceInv, plan.new PROVE DependenciesFirst
    BY DEF DependenciesFirst
  <2>1. /\ plan.selected_items = chosen /\ plan.execution_order = ordered
        /\ visited = chosen
    BY DEF SequenceInv, PlanIsSequence
  <2>2. Members(ordered) = chosen /\ Once(ordered) /\ InOrder
    BY <2>1 DEF SequenceInv, VisitedOnce
  <2>3. QED
    BY <2>1, <2>2 DEF DependenciesFirst, Members, Once, InOrder
<1>3. Init => ClosureInv /\ SequenceInv
  BY InitClosure, InitSequence
<1>4. QED
  BY <1>1, <1>2, <1>3, PTL DEF Spec

-----------------------------------------------------------------------------
(* visit() implements DependencyOrder. *)

\* Planning starts as the abstract order does.
LEMMA InitOrdering == Init => Ordering!Init
BY DEF Init, Ordering!Init

\* Every step is one of DependencyOrder or leaves its variables alone: the order grows
\* by an item whose dependencies are in it.
LEMMA StepOrdering ==
  ASSUME ClosureInv, SequenceInv, [Next]_vars
  PROVE  [Ordering!Next]_(Ordering!vars)
<1> DEFINE nodes == IF pc \in {"select", "close"} THEN {} ELSE chosen
           needs == [i \in Items |-> NeededBy(i)]
<1>1. gaps' = gaps
  BY GapsFixed
<1>2. needs' = needs
  BY <1>1, NeedsFixed
<1> HIDE DEF needs
<1>3. ASSUME nodes' = nodes, ordered' = ordered PROVE [Ordering!Next]_(Ordering!vars)
  BY <1>2, <1>3 DEF Ordering!vars, nodes, needs
<1>4. CASE (\E i \in Items : Select(i)) \/ StartClosure \/ PopQueue \/ CloseDependency
           \/ FinishDependent
  <2>1. pc \in {"select", "close"} /\ pc' \in {"select", "close"} /\ ordered' = ordered
    BY <1>4 DEF Select, StartClosure, PopQueue, CloseDependency, FinishDependent, visit
  <2>2. QED
    BY <1>3, <2>1
<1>5. CASE FinishClosure
  <2>1. pc = "close" /\ ordered' = ordered
    BY <1>5 DEF FinishClosure, visit
  <2>2. ordered = <<>>
    BY <2>1 DEF SequenceInv, NothingVisited
  <2>3. Ordering!Pose
    BY <2>1, <2>2 DEF Ordering!Pose
  <2>4. QED
    BY <2>3 DEF Ordering!Next
<1>6. CASE VisitNext \/ VisitDependency \/ FinishSequence \/ SavePlan \/ SaveState \/ Crash
  <2>1. /\ pc \notin {"select", "close"} /\ pc' \notin {"select", "close"}
        /\ chosen' = chosen /\ ordered' = ordered
    BY <1>6 DEF VisitNext, VisitDependency, FinishSequence, SavePlan, SaveState, Crash, visit,
       choice
  <2>2. QED
    BY <1>3, <2>1
<1>7. CASE FinishVisit
  <2> DEFINE i == stack[1].item
  <2>1. /\ pc = "sequence" /\ pc' = "sequence" /\ chosen' = chosen
        /\ ordered' = Append(ordered, i)
    BY <1>7 DEF FinishVisit, AppendOrdered, choice
  <2>2. nodes = chosen /\ nodes' = nodes
    BY <2>1
  <2>3. i \in chosen \ visited /\ NeededBy(i) \cap chosen \subseteq visited
    BY <1>7, VisitFinished DEF ClosureInv
  <2>4. i \in Items /\ needs[i] = NeededBy(i)
    BY <2>3 DEF ClosureInv, TypeOK, needs
  <2>5. Ordering!Listed = visited
    BY DEF Ordering!Listed, SequenceInv, VisitedOnce, Members
  <2> HIDE DEF i, nodes
  <2>6. i \in nodes \ Ordering!Listed /\ needs[i] \cap nodes \subseteq Ordering!Listed
    BY <2>2, <2>3, <2>4, <2>5
  <2>7. Ordering!MayBeNext(i)
    BY <2>6 DEF Ordering!MayBeNext, nodes, needs
  <2>8. Ordering!AppendNext
    BY <1>2, <2>1, <2>2, <2>6, <2>7 DEF Ordering!AppendNext, nodes, needs
  <2>9. QED
    BY <2>8 DEF Ordering!Next
<1>8. CASE UNCHANGED vars
  <2>1. pc' = pc /\ chosen' = chosen /\ ordered' = ordered
    BY <1>8 DEF vars, choice, visit
  <2>2. QED
    BY <1>3, <2>1
<1>9. QED
  BY <1>4, <1>5, <1>6, <1>7, <1>8 DEF Next, Run

\* visit(), with its stack, its early returns and its error for a cycle, puts the
\* selected items in the order of their dependencies (_sequence_execution of
\* planning.py): it implements DependencyOrder.
THEOREM ItemsInOrder == Spec => BacklogOrder
<1>1. ClosureInv /\ SequenceInv /\ [Next]_vars => (ClosureInv /\ SequenceInv)'
  BY StepClosure, StepSequence
<1>2. Init => ClosureInv /\ SequenceInv
  BY InitClosure, InitSequence
<1>3. ClosureInv /\ SequenceInv /\ [Next]_vars => [Ordering!Next]_(Ordering!vars)
  BY StepOrdering
<1>4. QED
  BY <1>1, <1>2, <1>3, InitOrdering, PTL DEF Spec, BacklogOrder, Ordering!Spec
=============================================================================
