CONSTANTS
  t1 = t1
  t2 = t2
  Threads <- MCThreads
  NoThread = NoThread
  Configs <- MCConfigs
SPECIFICATION Spec
SYMMETRY Perms
INVARIANTS
  StrictNeverAbandoned
