\* The whole interface, by the esp_timer task and another one.
CONSTANTS
  t1 = t1
  NoOne = NoOne
  Tasks = {t1}
  Operations = {"reset", "position", "steps", "stop", "deinit"}
  Targets = {0, 1, 90}
  StepCounts = {1, 60}
  StepsPerRev = 200
  MinPosition = 0
  MaxPosition = 180
  ExtraSteps = 4
SPECIFICATION FairSpec
INVARIANTS
  Driven
  ResetGoesFull
PROPERTIES
  ResetSettles
  ResetAdvances
CHECK_DEADLOCK TRUE
