\* A profile or a company asked for by two spellings, fetched, uploaded and
\* (a company) found by a search at once.
SPECIFICATION Spec
CONSTANTS
  Callers = {c1, c2}
  Keys = {"url", "slug"}
  FoundBy = {"url"}
  Limits = {0, 1}
  Fresh = 2
  Hard = 4
  RedisTTL = 2
  CaptureTTL = 2
  Patience = 1
  Horizon = 5
INVARIANTS RedisYoung StaleWindow CapturedFirst
PROPERTIES NoFarRegress
SYMMETRY CallerSymmetry
