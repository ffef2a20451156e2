------------------------------ MODULE Planning ------------------------------
(***************************************************************************)
(* Phase 2 of the runtime (src/runtime/planning.py), PlanningPhase.execute *)
(* from RUP_DISCOVERY.json to RUP_PLAN.json and plan-state.json: backlog   *)
(* generation, greedy selection inside the run boundary, the dependency    *)
(* closure over its work queue, the depth-first sequencing and the two     *)
(* saves, with the process possibly killed before any of them.             *)
(*                                                                         *)
(* A gap is known by its position 1..N in RUP_DISCOVERY.json; dependency 0 *)
(* stands for an id that names no gap.  Minutes and files are the code's   *)
(* counters cut off one above their limit: the code only compares them     *)
(* with the limit, and they never decrease.                                *)
(***************************************************************************)
EXTENDS Integers, Sequences, FiniteSets, Functions

CONSTANTS N,            \* number of gaps discovery reported
          Discoveries,  \* possible contents of RUP_DISCOVERY.json
          LimitChoices, \* possible --time-budget, --max-files, --risk-tolerance
          Test001       \* the gap whose id is "TEST-001", 0 when there is none

Items == 1..N
None == 0               \* no item: the closure loop is between two queue entries

Severities == {"critical", "high", "medium", "low"}
Efforts    == {"small", "medium", "large"}
Categories == {"tests", "ci", "security", "other"}

Gap == [severity : Severities, effort : Efforts, category : Categories,
        files : Nat, dependencies : Seq(0..N)]
Limit == [budget : Nat, maxFiles : Nat, tolerance : 0..2]

ASSUME PlanningAssumption ==
  /\ N \in Nat
  /\ Discoveries \subseteq [Items -> Gap]
  /\ LimitChoices \subseteq Limit
  /\ Test001 \in 0..N

VARIABLES
  gaps,      \* RUP_DISCOVERY.json, read once
  limits,    \* constraints of this invocation
  pc,        \* where execute() stands
  todo,      \* backlog items the selection loop has not reached
  selected,  \* the list `selected`
  chosen,    \* the set `selected_set`
  escalated, \* the list `escalation`, as a set
  minutes,   \* allocated_minutes, at most limits.budget + 1
  files,     \* selected_files, at most limits.maxFiles + 1
  admitted,  \* closure_admitted, as a set
  queue,     \* the closure work queue
  current,   \* item_id of the closure loop, or None
  deps,      \* dependencies of `current` still to be looked at
  stack,     \* active visit() calls: [item, deps still to be visited]
  visited,   \* `visited` of _sequence_execution
  ordered,   \* `ordered` of _sequence_execution
  plan,      \* RUP_PLAN.json: `new` once this invocation has saved it
  planState  \* plan-state.json, likewise

choice  == <<todo, selected, chosen, escalated, minutes, files>>
closure == <<admitted, queue, current, deps>>
visit   == <<stack, visited, ordered>>
saved   == <<plan, planState>>
vars    == <<gaps, limits, pc, choice, closure, visit, saved>>

-----------------------------------------------------------------------------
(* _generate_backlog: what the later steps read of a backlog item. *)

Priority(i) == CASE gaps[i].severity = "critical" -> 0
                 [] gaps[i].severity = "high"     -> 1
                 [] gaps[i].severity = "medium"   -> 2
                 [] OTHER                         -> 3

Minutes(i) == CASE gaps[i].effort = "small"  -> 10
                [] gaps[i].effort = "medium" -> 25
                [] OTHER                     -> 45

Risk(i) ==
  IF Priority(i) = 0 \/ gaps[i].category = "security"
  THEN IF gaps[i].effort = "large" THEN 2 ELSE 1
  ELSE IF Priority(i) = 1 /\ gaps[i].effort = "large" THEN 1 ELSE 0

FileCount(i) == IF gaps[i].files > 1 THEN gaps[i].files ELSE 1

Dependencies(i) ==
  IF gaps[i].category = "ci" /\ \E g \in Items : gaps[g].category = "tests"
  THEN Append(gaps[i].dependencies, Test001)
  ELSE gaps[i].dependencies

\* Backlog dependencies of i: the ids that do name an item.
NeededBy(i) == {Dependencies(i)[k] : k \in 1..Len(Dependencies(i))} \cap Items

-----------------------------------------------------------------------------
(* _select_work, selection loop. *)

\* The stable sort key (priority rank, minutes).
Before(i, j) ==
  \/ Priority(i) < Priority(j)
  \/ Priority(i) = Priority(j) /\ Minutes(i) < Minutes(j)
  \/ Priority(i) = Priority(j) /\ Minutes(i) = Minutes(j) /\ i <= j

\* Faults a property must notice are kept beside the definition they alter, under
\* its name and what they get wrong.

FitsAnyRisk(i) == /\ minutes + Minutes(i) <= limits.budget
                  /\ files + FileCount(i) <= limits.maxFiles

FitsAnyFiles(i) == /\ Risk(i) <= limits.tolerance
                   /\ minutes + Minutes(i) <= limits.budget

Fits(i) == /\ Risk(i) <= limits.tolerance
           /\ minutes + Minutes(i) <= limits.budget
           /\ files + FileCount(i) <= limits.maxFiles

AtMost(n, bound) == IF n <= bound THEN n ELSE bound

Allocate(i) ==
  /\ minutes' = AtMost(minutes + Minutes(i), limits.budget + 1)
  /\ files' = AtMost(files + FileCount(i), limits.maxFiles + 1)

Admit(i) == /\ selected' = Append(selected, i)
            /\ chosen' = chosen \cup {i}
            /\ Allocate(i)

EscalateNothing(i) == UNCHANGED escalated

\* An item that does not fit is escalated if it is P0 and dropped otherwise.
EscalateMandatory(i) ==
  escalated' = IF Priority(i) = 0 THEN escalated \cup {i} ELSE escalated

Select(i) ==
  /\ pc = "select"
  /\ i \in todo /\ \A j \in todo : Before(i, j)
  /\ todo' = todo \ {i}
  /\ \/ /\ Fits(i)
        /\ Admit(i)
        /\ UNCHANGED escalated
     \/ /\ ~Fits(i)
        /\ EscalateMandatory(i)
        /\ UNCHANGED <<selected, chosen, minutes, files>>
  /\ UNCHANGED <<gaps, limits, pc, closure, visit, saved>>

\* The fallback after the loop cannot admit anything: with nothing selected the
\* counters are still zero and every item has just failed the same test.
StartClosure ==
  /\ pc = "select" /\ todo = {}
  /\ pc' = "close"
  /\ queue' = selected
  /\ UNCHANGED <<gaps, limits, choice, admitted, current, deps, visit, saved>>

(* _select_work, dependency closure. *)

PopQueue ==
  /\ pc = "close" /\ current = None /\ queue # <<>>
  /\ current' = Head(queue)
  /\ queue' = Tail(queue)
  /\ deps' = Dependencies(Head(queue))
  /\ UNCHANGED <<gaps, limits, pc, choice, admitted, visit, saved>>

\* selected.remove(i): the first occurrence goes.
BlankedOut(s, i) == [k \in 1..Len(s) |-> IF s[k] = i THEN None ELSE s[k]]

Without(s, i) ==
  LET at == CHOOSE k \in 1..Len(s) : s[k] = i /\ \A l \in 1..(k - 1) : s[l] # i
  IN  [k \in 1..(Len(s) - 1) |-> IF k < at THEN s[k] ELSE s[k + 1]]

\* A dependency is admitted and put on the queue, so that its own dependencies
\* are looked at in turn.
AdmitUnqueued(d) == Admit(d) /\ admitted' = admitted \cup {d} /\ UNCHANGED queue

AdmitDependency(d) ==
  Admit(d) /\ admitted' = admitted \cup {d} /\ queue' = Append(queue, d)

\* The dependent of a dependency that cannot be admitted.
EscalateDependent(i) ==
  /\ escalated' = escalated \cup {i}
  /\ chosen' = chosen \ {i}
  /\ selected' = IF i \in chosen THEN Without(selected, i) ELSE selected

CloseDependency ==
  /\ pc = "close" /\ current # None /\ deps # <<>>
  /\ deps' = Tail(deps)
  /\ LET d == Head(deps) IN
     \/ /\ d \in chosen \/ d \notin Items     \* present, or external
        /\ UNCHANGED <<choice, admitted, queue>>
     \/ /\ d \in Items \ chosen
        /\ Priority(d) = 0 \/ Fits(d)
        /\ AdmitDependency(d)
        /\ UNCHANGED <<todo, escalated>>
     \/ /\ d \in Items \ chosen
        /\ Priority(d) # 0 /\ ~Fits(d)
        /\ EscalateDependent(current)
        /\ UNCHANGED <<todo, minutes, files, admitted, queue>>
  /\ UNCHANGED <<gaps, limits, pc, current, visit, saved>>

FinishDependent ==
  /\ pc = "close" /\ current # None /\ deps = <<>>
  /\ current' = None
  /\ UNCHANGED <<gaps, limits, pc, choice, admitted, queue, deps, visit, saved>>

FinishClosure ==
  /\ pc = "close" /\ current = None /\ queue = <<>>
  /\ pc' = "sequence"
  /\ UNCHANGED <<gaps, limits, choice, closure, visit, saved>>

-----------------------------------------------------------------------------
(* _sequence_execution: visit() with its call stack made explicit. *)

Visiting == {stack[k].item : k \in 1..Len(stack)}

Frame(i) == [item |-> i, deps |-> Dependencies(i)]

\* The for loop over selected_ids; visit() of a visited id returns at once.
VisitNext ==
  /\ pc = "sequence" /\ stack = <<>>
  /\ \E k \in 1..Len(selected) :
       /\ selected[k] \notin visited
       /\ \A l \in 1..(k - 1) : selected[l] \in visited
       /\ stack' = <<Frame(selected[k])>>
  /\ UNCHANGED <<gaps, limits, pc, choice, closure, visited, ordered, saved>>

\* The active call after it has taken its next dependency.
NotConsumed == stack

Consumed == <<[stack[1] EXCEPT !.deps = Tail(@)]>> \o Tail(stack)

VisitDependency ==
  /\ pc = "sequence" /\ stack # <<>> /\ stack[1].deps # <<>>
  /\ LET d == Head(stack[1].deps) IN
        \/ /\ d \in chosen /\ d \in Visiting  \* PlanningError: dependency cycle
           /\ pc' = "cycle_error"
           /\ UNCHANGED stack
        \/ /\ d \in chosen /\ d \notin Visiting /\ d \notin visited
           /\ stack' = <<Frame(d)>> \o Consumed
           /\ UNCHANGED pc
        \/ /\ d \notin chosen \/ (d \in visited /\ d \notin Visiting)
           /\ stack' = Consumed
           /\ UNCHANGED pc
  /\ UNCHANGED <<gaps, limits, choice, closure, visited, ordered, saved>>

\* ordered.append(item_id)
OrderedFirst(i) == ordered' = <<i>> \o ordered

AppendOrdered(i) == ordered' = Append(ordered, i)

FinishVisit ==
  /\ pc = "sequence" /\ stack # <<>> /\ stack[1].deps = <<>>
  /\ visited' = visited \cup {stack[1].item}
  /\ AppendOrdered(stack[1].item)
  /\ stack' = Tail(stack)
  /\ UNCHANGED <<gaps, limits, pc, choice, closure, saved>>

FinishSequence ==
  /\ pc = "sequence" /\ stack = <<>>
  /\ \A k \in 1..Len(selected) : selected[k] \in visited
  /\ pc' = "save_plan"
  /\ UNCHANGED <<gaps, limits, choice, closure, visit, saved>>

-----------------------------------------------------------------------------
(* The two saves of execute(), each an atomic replace, and a kill. *)

SavePlan ==
  /\ pc = "save_plan"
  /\ plan' = [new |-> TRUE, selected_items |-> chosen, execution_order |-> ordered]
  /\ pc' = "save_state"
  /\ UNCHANGED <<gaps, limits, choice, closure, visit, planState>>

SaveState ==
  /\ pc = "save_state"
  /\ planState' = [new |-> TRUE,
                   selected_for_escalation |-> escalated,
                   requires_explicit_override |-> escalated # {},
                   closure_admitted |-> admitted]
  /\ pc' = "done"
  /\ UNCHANGED <<gaps, limits, choice, closure, visit, plan>>

\* A kill.  Before the first save it leaves nothing behind, so it is a step of
\* its own only once there is something to save.
Crash ==
  /\ pc \in {"save_plan", "save_state"}
  /\ pc' = "killed"
  /\ UNCHANGED <<gaps, limits, choice, closure, visit, saved>>

\* What an earlier invocation left on disk; its contents do not matter here.
OldPlan  == [new |-> FALSE, selected_items |-> {}, execution_order |-> <<>>]
OldState == [new |-> FALSE, selected_for_escalation |-> {},
             requires_explicit_override |-> FALSE, closure_admitted |-> {}]

Init ==
  /\ gaps \in Discoveries
  /\ limits \in LimitChoices
  /\ pc = "select"
  /\ todo = Items
  /\ selected = <<>> /\ chosen = {} /\ escalated = {}
  /\ minutes = 0 /\ files = 0
  /\ admitted = {} /\ queue = <<>> /\ current = None /\ deps = <<>>
  /\ stack = <<>> /\ visited = {} /\ ordered = <<>>
  /\ plan = OldPlan /\ planState = OldState

\* The steps of execute() itself, in program order.
Run ==
  \/ \E i \in Items : Select(i)
  \/ StartClosure \/ PopQueue \/ CloseDependency \/ FinishDependent \/ FinishClosure
  \/ VisitNext \/ VisitDependency \/ FinishVisit \/ FinishSequence
  \/ SavePlan \/ SaveState

Next == Run \/ Crash

\* A phase that is not killed goes on: it is one thread that waits for nothing.
Spec == Init /\ [][Next]_vars /\ WF_vars(Run)

-----------------------------------------------------------------------------
(* Properties. *)

SavedPlan == [new : BOOLEAN, selected_items : SUBSET Items, execution_order : Seq(Items)]
SavedState == [new : BOOLEAN, selected_for_escalation : SUBSET Items,
               requires_explicit_override : BOOLEAN, closure_admitted : SUBSET Items]
Frames == [item : Items, deps : Seq(0..N)]

\* Type invariant of the planning phase's locals and of its two artifacts.
TypeOK ==
  /\ gaps \in Discoveries
  /\ limits \in LimitChoices
  /\ pc \in {"select", "close", "sequence", "save_plan", "save_state", "done",
             "cycle_error", "killed"}
  /\ todo \subseteq Items /\ chosen \subseteq Items /\ escalated \subseteq Items
  /\ minutes \in 0..(limits.budget + 1) /\ files \in 0..(limits.maxFiles + 1)
  /\ admitted \subseteq Items
  /\ queue \in Seq(Items) /\ selected \in Seq(Items)
  /\ current \in 0..N /\ deps \in Seq(0..N)
  /\ stack \in Seq(Frames) /\ visited \subseteq Items /\ ordered \in Seq(Items)
  /\ plan \in SavedPlan /\ planState \in SavedState

\* Every P0 item the selection loop has passed is either admitted or escalated,
\* and stays so while the closure admits and withdraws items: no mandatory item
\* is dropped silently (planning.py:165).
MandatoryAccounted ==
  \A i \in Items \ todo : Priority(i) = 0 => i \in chosen \cup escalated

\* The closure admits a P0 dependency without looking at the boundary
\* (planning.py:246), yet the run boundary is only ever exceeded in a plan that
\* requires an explicit override.
BoundaryOrOverride ==
  escalated = {} => minutes <= limits.budget /\ files <= limits.maxFiles

\* The pair of artifacts a plan leaves: if execution may run it without an
\* override, its items together fit the time budget and the file limit and none
\* is riskier than tolerated -- computed from the items, not from the counters,
\* which are not given back when the closure withdraws an item.
RunnablePlanFits ==
  plan.new /\ planState.new /\ ~planState.requires_explicit_override =>
    /\ SumFunctionOnSet([i \in Items |-> Minutes(i)], plan.selected_items) <= limits.budget
    /\ SumFunctionOnSet([i \in Items |-> FileCount(i)], plan.selected_items) <= limits.maxFiles
    /\ \A i \in plan.selected_items : Risk(i) <= limits.tolerance

\* After the closure, a selected item lacks a backlog dependency only if that
\* dependency was itself withdrawn and escalated: an item never loses a
\* dependency in a plan that runs without an override.
ClosedOrEscalated ==
  pc \in {"sequence", "save_plan", "save_state", "done"} =>
    \A i \in chosen : NeededBy(i) \subseteq chosen \cup escalated

\* The saved execution order lists each selected item once, after every selected
\* item it depends on.
DependenciesFirst ==
  plan.new =>
    LET order == plan.execution_order IN
    /\ {order[k] : k \in 1..Len(order)} = plan.selected_items
    /\ \A k, l \in 1..Len(order) : order[k] = order[l] => k = l
    /\ \A k \in 1..Len(order) :
         NeededBy(order[k]) \cap plan.selected_items \subseteq {order[l] : l \in 1..(k - 1)}

\* What is selected is put in the order of its dependencies.
Ordering == INSTANCE DependencyOrder
  WITH nodes <- IF pc \in {"select", "close"} THEN {} ELSE chosen,
       needs <- [i \in Items |-> NeededBy(i)], order <- ordered

\* visit(), with its stack and its early returns, does what putting things in the
\* order of their dependencies promises; a cycle ends it with an error.
BacklogOrder == Ordering!Spec

Ended == pc \in {"done", "cycle_error", "killed"}

\* Planning comes to an end if the dependencies of the backlog are without a
\* cycle, however the closure admits and withdraws items.
AcyclicEnds ==
  (\A S \in SUBSET Items \ {{}} : \E i \in S : NeededBy(i) \cap S = {}) => <>Ended

\* planning.py:165 and tests/test_planning.py:238 (RUP-PLAN-005): planning comes to
\* an end, with a plan or with the error for a dependency cycle.
PlanningEnds == <>Ended
=============================================================================
