\* A filter of three, a speed below the threshold, one above, and one beyond the filter.
CONSTANTS
  Samples = 3
  Threshold = 4
  Timeout = 2
  Speeds = {3, 8, 12}
SPECIFICATION Spec
PROPERTIES
  StopsForCause
  StopNoticed
CHECK_DEADLOCK TRUE
