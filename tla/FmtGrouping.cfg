SPECIFICATION Spec
CONSTANTS
  Sources <- TheSources
  Reading <- TheReading
  Printing <- ThePrinting
  MaxRuns = 2
PROPERTY GroupingKept
CHECK_DEADLOCK FALSE
