\* A timer of the script's next to one of the GPU's.
CONSTANTS
  Timers = {0, 1}
  ScriptTimers = {1}
  Periods = {1, 2}
  ScriptModes = {0, 1, 2}
  Callbacks = {"None", "fun"}
  SchedDepth = 1
  MaxTime = 3
SPECIFICATION Spec
INVARIANTS TypeOK EnabledIsActive OneShotOnce
PROPERTY TriggerServed
