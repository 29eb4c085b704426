\* The assertions of the code, with two calls.
SPECIFICATION Spec
CONSTANTS
  Callers = {c1, c2}
  Contexts = {k1, k2}
  MaxTally = 2
INVARIANT ContextAsserted
