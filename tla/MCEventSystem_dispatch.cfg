\* Two posters, a full queue, and a task that changes the handler table.
CONSTANTS
  p1 = p1
  p2 = p2
  c1 = c1
  h1 = h1
  NoOne = NoOne
  Task = Task
  Posters = {p1, p2}
  Registrars = {c1}
  Types <- MCTypes
  Handlers <- MCHandlers
  Defaults <- MCDefaults
  QueueSize = 1
  MaxHandlers = 3
  MaxPosts = 2
  MaxChanges = 1
SPECIFICATION FairSpec
INVARIANTS
  DispatchExact
  TableSound
PROPERTIES
  QueueServed
CHECK_DEADLOCK FALSE
