SPECIFICATION Spec
CONSTANTS
  MaxVersion = 2
  Environments <- Started
PROPERTIES Consented
CHECK_DEADLOCK FALSE
