\* Roles at similar companies, and dates and types of roles, against
\* headlines, the age of the data and the LLM.
SPECIFICATION Spec
CONSTANTS
  Words <- MCWords
  LegalSuffixes <- MCSuffixes
  Latin <- MCLatin
  Aliases <- MCAliases
  Since1950 = 27900
  Queries <- AllQueries
  Profiles <- AllProfiles
  Adjustments <- MCAdjustments
  LlmAliases <- MCLlmAliases
  Issues = {"outdated"}
INVARIANTS YesNeedsCurrentRole RulesYesIsExact StaleIsNotYes ResolvedMatches CleanMatchIsYes LlmSwing
