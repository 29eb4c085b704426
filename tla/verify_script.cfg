\* Names without a latin letter.
SPECIFICATION Spec
CONSTANTS
  Words <- MCWords
  LegalSuffixes <- MCSuffixes
  Latin <- MCLatin
  Aliases <- MCAliases
  Since1950 = 27900
  Queries <- ScriptQueries
  Profiles <- ScriptProfiles
  Adjustments <- MCAdjustments
  LlmAliases <- MCLlmAliases
  Issues = {"outdated"}
INVARIANTS YesIsAtCompany
