\* Two tasks that call the engine interface at any time, with any speed.
CONSTANTS
  c1 = c1
  c2 = c2
  NoOne = NoOne
  TimerTask = TimerTask
  TimerLag = 1
  Callers = {c1, c2}
  MaxCalls = 3
  Rpms = {"below", "at", "over"}
  PoliteCallers = FALSE
  MaxAttempts = 2
  StartDelay <- MCStartDelay
  StopDelay <- MCStopDelay
  KillDuration = 3
  LockWait = 2
  CallbackWait = 1
  PostWait = 1
SPECIFICATION Spec
SYMMETRY Symmetry
INVARIANTS
  StartNeverStranded
  StarterGuarded
  StarterBounded
  PulsesBounded
  EmergencyHolds
PROPERTIES
  RunIsTimed
  StarterImplemented
  StartInTime
CHECK_DEADLOCK TRUE
