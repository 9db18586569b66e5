\* A start requested while the engine is being stopped.
CONSTANTS
  c1 = c1
  c2 = c2
  NoOne = NoOne
  TimerTask = TimerTask
  TimerLag = 1
  Callers = {c1}
  MaxCalls = 2
  Rpms = {"below", "above"}
  PoliteCallers = FALSE
  MaxAttempts = 2
  StartDelay <- MCStartDelay
  StopDelay <- MCStopDelay
  KillDuration = 3
  LockWait = 2
  CallbackWait = 1
  PostWait = 1
SPECIFICATION FairSpec
PROPERTIES
  KillReleased
CHECK_DEADLOCK TRUE
