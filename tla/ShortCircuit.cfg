SPECIFICATION SuiteSpec
CONSTANTS
  Templates <- LogicTemplates
  Programs <- LogicPrograms
  Texts = 0
  Preparation <- ThePreparation
  MaxAsks = 4
  FmtSources <- NoFiles
  Reading <- TheReading
  Printing <- ThePrinting
  MaxRuns = 0
PROPERTY ShortCircuits
CHECK_DEADLOCK FALSE
