\* Statistics up to one, one factory reset, two attempts and two firmware versions.
CONSTANTS
  MaxCount = 1
  MaxResets = 1
  OtaRetries = 2
  MaxVersion = 2
SPECIFICATION Spec
INVARIANTS
  ResetForgets
  StatsSurvive
PROPERTIES
  UpdateImplemented
CHECK_DEADLOCK TRUE
