\* Three calls and three browsers at a time, for safety.
SPECIFICATION Spec
CONSTANTS
  Callers = {c1, c2, c3}
  Contexts = {k1, k2, k3}
  MaxTally = 3
SYMMETRY Symmetry
INVARIANTS InFlightNotClosed LeaksCounted TokenOfSession
