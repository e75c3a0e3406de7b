CONSTANTS
  Threads <- MCThreads
  NoThread = NoThread
  Configs <- AllConfigs
  Default <- Off
  Disturbances = 4
SPECIFICATION FairDSpec
INVARIANTS
  DInv
  OneConfiguration
  DisabledIsQuiet
PROPERTIES
  RestartIsServed
  NewProgramsAreBlocked
