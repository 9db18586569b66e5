\* Two retries, and a clock of two seconds of three milliseconds each.
CONSTANTS
  MaxRetries = 2
  MaxEvents = 2
  MaxCalls = 3
  Wrap = 6
  Second = 3
  Interval = 1
  MaxPerSec = 2
  MaxStarts = 1
SPECIFICATION Spec
INVARIANTS
  ConnectedIsTrue
  ReconnectingWaits
PROPERTIES
  ThrottleSpaced
  ReconnectEnds
CHECK_DEADLOCK TRUE
