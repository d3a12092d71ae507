\* Three viewers, one of them the host, and two handlers, which may die; one photo is tapped.
SPECIFICATION Spec
CONSTANTS
  Viewers = {a, b, c}
  Host = a
  Kinds = {"like"}
  Handlers = {h1, h2}
  Nobody = Nobody
  Leaving = {b, c}
  Tapped = {a}
  Crashes = TRUE
SYMMETRY Symmetry
INVARIANTS
  CountsAreActors
  SnapshotAddsUp
PROPERTIES
  SnapshotIsFinal
