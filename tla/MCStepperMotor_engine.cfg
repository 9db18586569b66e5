\* The calls of the sequence callback, and the shutdown.
CONSTANTS
  t1 = t1
  NoOne = NoOne
  Tasks = {}
  Operations = {"reset", "position", "deinit"}
  Targets = {0, 90}
  StepCounts = {}
  StepsPerRev = 200
  MinPosition = 0
  MaxPosition = 180
  ExtraSteps = 4
SPECIFICATION Spec
PROPERTIES
  ChokeImplemented
CHECK_DEADLOCK TRUE
