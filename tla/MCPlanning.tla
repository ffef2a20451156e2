----------------------------- MODULE MCPlanning -----------------------------
(* Instances of Planning for TLC: every dependency shape over three gaps. *)
EXTENDS Planning

MCGap(severities, efforts, categories, dependencies) ==
  [severity : severities, effort : efforts, category : categories, files : {1},
   dependencies : dependencies]

\* Dependency lists of gap i: none, any other gap, both others in either order,
\* or, for gap 3, an id outside the backlog followed by one.
DependencyLists(i) ==
  LET others == {1, 2, 3} \ {i} IN
  UNION {{<<>>}, IF i = 3 THEN {<<0, 1>>} ELSE {},
         {<<j>> : j \in others},
         {<<j, k>> : j \in others, k \in others} \ {<<j, j>> : j \in others}}

Generic ==
  {<<a, b, c>> : a \in MCGap({"critical", "high"}, {"small", "large"}, {"other"}, DependencyLists(1)),
                 b \in MCGap({"critical", "high"}, {"small", "large"}, {"other"}, DependencyLists(2)),
                 c \in MCGap({"critical", "high"}, {"small", "large"}, {"other"}, DependencyLists(3))}

\* What DiscoveryPhase._evaluate_all_gaps itself reports: no dependency but the
\* one planning adds from CI-001 to TEST-001.
Reported ==
  {<<[a EXCEPT !.files = f], b, c>> :
      a \in MCGap({"high", "critical"}, {"medium", "large"}, {"tests"}, {<<>>}),
      b \in MCGap({"high"}, {"small"}, {"ci"}, {<<>>}),
      c \in MCGap({"critical", "medium", "low"}, {"small", "medium"}, {"security", "other"}, {<<>>}),
      f \in {0, 2}}

AllDiscoveries == Generic \cup Reported

\* Two P0 gaps that need each other and a third that never fits.
PriorityCycle ==
  {<<a, b, c>> : a \in MCGap({"critical"}, {"small"}, {"other"}, {<<2>>, <<2, 3>>}),
                 b \in MCGap({"critical"}, {"small"}, {"other"}, {<<1>>, <<1, 3>>}),
                 c \in MCGap({"high"}, {"large"}, {"other"}, {<<>>})}

MCLimits == {[budget |-> 20, maxFiles |-> 2, tolerance |-> 1],
             [budget |-> 60, maxFiles |-> 3, tolerance |-> 1]}
TightLimits == {[budget |-> 20, maxFiles |-> 3, tolerance |-> 1]}
=============================================================================
