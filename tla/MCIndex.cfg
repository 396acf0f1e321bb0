\* Four points, in every order in which they can be packed; two axes.
CONSTANTS
  Universe = {1, 2, 3, 4}
  Skeleton = {1, 2, 3, 4}
  Axes = 2
  Placements <- Places
  Queries <- Asked
\* A static tree takes no updates.
CHECK_DEADLOCK FALSE
SPECIFICATION BothSpec
INVARIANT QueriesAreExact
PROPERTY IsActiveIndex
