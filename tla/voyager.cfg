\* Three concurrent calls on one account, under the event loop's fairness.
SPECIFICATION FairSpec
CONSTANTS
  Callers = {c1, c2, c3}
  Cap = 3
  MaxAttempts = 3
  Statuses <- OneOfEach
INVARIANTS LateRequestsBounded
PROPERTIES NoRevival LedgerRefined CallsEnd
