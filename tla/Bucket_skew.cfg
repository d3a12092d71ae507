\* Two tokens in ten milliseconds, clocks one millisecond apart, and refills that are off by
\* a fourteenth of what a millisecond refills.
SPECIFICATION Spec
CONSTANTS
  Capacity = 2
  Window = 10
  Second = 3
  Grain = 7
  Rounding = 1
  Skew = 1
  MaxTime = 14
INVARIANTS
  GrantsBounded
  RetrySuffices
