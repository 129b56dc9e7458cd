SPECIFICATION Spec
CONSTANTS
  Requests = {r1, r2, r3}
  RequestIds = {1, 2}
  Tools = {lint, test}
  Nobody = Nobody
SYMMETRY Symmetry
INVARIANTS EndedOnce NothingLeaks AloneIsCounted LatencyNotInflated
PROPERTIES UncountedOnlyIfRemoved
CHECK_DEADLOCK FALSE
