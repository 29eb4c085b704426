\* Liveness of three calls with two browsers; no symmetry, histories to one.
SPECIFICATION FairSpec
CONSTANTS
  Callers = {c1, c2, c3}
  Contexts = {k1, k2}
  MaxTally = 1
PROPERTIES CallsEnd
