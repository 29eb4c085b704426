\* Two accounts of unequal caps, two concurrent calls and the daily reset:
\* every interleaving of acquire, the account lock and release.
SPECIFICATION Spec
CONSTANTS
  NumAccounts = 2
  Callers = {c1, c2}
  Cap <- UnequalCaps
  Endpoints = 2
  Cooldown = 1
  ResetsDaily = TRUE
INVARIANTS ActiveIsRested Balanced
PROPERTIES LedgerRefined RevivedByLateCall
SYMMETRY CallerSymmetry
