SPECIFICATION Spec
CONSTANTS
  N = 2
PROPERTY RejectsImmediately
CHECK_DEADLOCK FALSE
