CONSTANTS
  Configs <- MCConfigs
  Default <- MCOff
  Nobody = Nobody
  NoSnap = NoSnap
  MaxFaults = 2
  HostFaults = 1
  Proxies = {p1}
  Profiles <- MCProfiles
  Servers <- MCServers
  Absent = Absent
  Changes = 2
  Clients = {c1, c2}
  IpcRequests <- MCRequests
  MaxInstances = 2
  Empty = Empty
  UserConfigs = {"absent", "corrupt"}
  MaxCommands = 2
  MaxAttempts = 2
SPECIFICATION ControlSpec
CHECK_DEADLOCK FALSE
INVARIANTS
  EInv
  NoStrayChild
  EngineServesConfig
  HealthSettles
PROPERTIES
  HealthIsStable
  EngineRecovers
  PipeRecovers
  DesktopReconnects
