-------------------------- MODULE MCSyntheticSuite --------------------------
EXTENDS SyntheticSuite

\* Means that meet the target at once, late, beyond the range or in one jump.
Line(a, b) == [t \in Theta |-> Least(One, Most(0, a * t + b))]
Jump == [t \in Theta |-> IF t < 4 THEN 4 ELSE 28]
SomeCurves == {Line(4, 0), Line(2, 0), Line(6, -7), Line(1, 2), Jump}

Ask(target, start, truth) ==
  [target |-> target, epsilon |-> 8, start |-> start, truth |-> truth]
\* An eighth of its tolerance vanishes.
Fine == [Ask(16, 4, Line(4, 0)) EXCEPT !.epsilon = 7]
Narrow == Ask(16, 9, Line(6, -8))
Other  == Ask(14, 1, Line(2, 2))
\* The same case at another tolerance.
Loose  == [Other EXCEPT !.epsilon = 10]
AllConfigs == {Narrow, Other, Loose, Fine}
Workloads  == <<"first", "second">>
Edits == [first |-> {Narrow}, second |-> {Other, Loose, Fine}]
=============================================================================
