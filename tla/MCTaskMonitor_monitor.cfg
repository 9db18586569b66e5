\* A fast task, a slow one and the event handler; times scaled down.
CONSTANTS
  engine_ctrl = engine_ctrl
  ota_mgr = ota_mgr
  event_handler = event_handler
  NoOne = NoOne
  Workers = {engine_ctrl, ota_mgr}
  Slow = {ota_mgr}
  Handler = event_handler
  SlowPeriod = 3
  DeadAfter = 4
  StopWait = 2
  WdtTimeout = 3
  MemoryLevels = {1, 4}
  MaxHung = 1
SPECIFICATION Spec
INVARIANTS
  DeathsNoticed
  SilenceShows
  NoPhantom
PROPERTIES
  OnlyLaggardsKilled
CHECK_DEADLOCK TRUE
