\* One task at a time calls the interface, and never starts an engine that is stopping.
CONSTANTS
  c1 = c1
  c2 = c2
  NoOne = NoOne
  TimerTask = TimerTask
  TimerLag = 1
  Callers = {c1}
  MaxCalls = 3
  Rpms = {"below", "above"}
  PoliteCallers = TRUE
  MaxAttempts = 2
  StartDelay <- MCStartDelay
  StopDelay <- MCStopDelay
  KillDuration = 3
  LockWait = 2
  CallbackWait = 1
  PostWait = 1
SPECIFICATION FairSpec
INVARIANTS
  NoCrankWhileKilled
  KillIsTransient
PROPERTIES
  FuelOpensAfterStart
  StartSettles
  StopSettles
  StopInTime
CHECK_DEADLOCK TRUE
