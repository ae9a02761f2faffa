CONSTANTS
  Timers = {1, 3}
  ScriptTimers = {1, 3}
  Periods = {2}
  ScriptModes = {0, 1}
  Callbacks = {"fun"}
  SchedDepth = 1
  MaxTime = 4
SPECIFICATION Spec
PROPERTY TriggerServed
