\* Both commands, from both tasks; nothing else is bounded.
CONSTANTS
  Commands = {TRUE, FALSE}
SPECIFICATION EngineFairSpec
INVARIANTS
  ReleaseAhead
PROPERTIES
  SequenceEnds
