\* Two concurrent calls and three browsers; no symmetry, for the liveness.
SPECIFICATION FairSpec
CONSTANTS
  Callers = {c1, c2}
  Contexts = {k1, k2, k3}
  Cap = 2
INVARIANTS LatePagesBounded FalseChallengeNeedsRace LeakNeedsRace
PROPERTIES LedgerRefined CallsEnd
