\* Four comments at four times, one or two on a page: up to four pages, all ties
\* and all distinct times.
CONSTANTS
  Comment = {c1, c2, c3, c4}
  MaxTime = 4
  Limits = {1, 2}
SPECIFICATION Spec
SYMMETRY Symmetry
INVARIANTS
  NothingSkipped
  RepeatedForAReason
\* The walk ends.
CHECK_DEADLOCK FALSE
