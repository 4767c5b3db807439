\* Both attach modes, three failures, two signals of somebody else.
SPECIFICATION Spec
CONSTANTS
  None = None
  Configs <- MCConfigs
  MaxFaults = 3
  MaxOther = 2
  MaxEvents = 2
CHECK_DEADLOCK FALSE
INVARIANTS TypeOK StartedOnce HookServed FreshCode SuspendBalanced LeftAlone
PROPERTIES Unblocked Told
