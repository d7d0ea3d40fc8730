SPECIFICATION SuiteSpec
CONSTANTS
  Templates <- TheTemplates
  Programs <- ThePrograms
  Texts <- AllTexts
  Preparation <- ThePreparation
  MaxAsks = 4
  FmtSources <- TheFiles
  Reading <- TheReading
  Printing <- ThePrinting
  MaxRuns = 2
INVARIANT IalangBalanced
PROPERTY IalangFaithful
PROPERTY IavmFaithful
PROPERTY HeightsVerified
PROPERTY FilesUnderstood
PROPERTY FilesReadToEnd
PROPERTY FilesKeepMeaning
CHECK_DEADLOCK FALSE
