\* Two jobs, two slots of the worker.
SPECIFICATION Spec
CONSTANTS
  Jobs = {j1, j2}
  Polled = {j1}
  Slots = {s1, s2}
  MaxStalls = 1
  Nobody = Nobody
  NoJob = NoJob
PROPERTIES NextPollHasResult JobsEnd PromiseKept
CHECK_DEADLOCK FALSE
