\* Two requests for one person through every stage and both routes.
SPECIFICATION Spec
CONSTANTS
  Words <- MCWords
  LegalSuffixes <- MCSuffixes
  Latin <- MCLatin
  Aliases <- MCAliases
  Since1950 = 27000
  Callers = {c1, c2}
  Asked = "ann"
  Person = "Ann"
  Fallback = TRUE
  full = full
  mini = mini
  other = other
  bare = bare
  good = good
  wall = wall
  namesake = namesake
  NoPayload = NoPayload
  Pages = {good, wall, namesake}
  Graphs = {full, mini, other, bare}
  Body <- MCBody
  Queries <- MCQueries
  Start <- MCStart
  Hard = 2
  Patience = 1
  Horizon = 2
INVARIANTS PublicNeverYes YearOnlyNeverRecent CurrentIsRecent YesIsThePersons OneRolePerPosition
PROPERTIES AgeingNeverYes NoDowngrade NeedlessFetchNeedsTwin
CHECK_DEADLOCK FALSE
SYMMETRY CallerSymmetry
