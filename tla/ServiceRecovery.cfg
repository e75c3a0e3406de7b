CONSTANTS
  UserConfigs = {"absent", "good", "corrupt"}
  MaxFaults = 1
  MaxCommands = 2
SPECIFICATION HostSpec
PROPERTY RecoveryReachable
CHECK_DEADLOCK FALSE
