CONSTANTS
  Threads <- MCThreads
  NoThread = NoThread
  Configs <- MCConfigs
  Default <- Off
  Disturbances = 4
SPECIFICATION DSpec
INVARIANTS
  DisabledIsPaused
