\* Liveness with one account under two callers; no symmetry.
SPECIFICATION BusySpec
CONSTANTS
  NumAccounts = 1
  Callers = {c1, c2}
  Cap <- OneCap
  Endpoints = 2
  Cooldown = 2
  ResetsDaily = FALSE
PROPERTIES CallsEnd CooldownEnds
