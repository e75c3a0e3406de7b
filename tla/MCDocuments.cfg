CONSTANTS
  ProxyIds <- MCIds
  OldId = "clash-socks"
  NewId = "local-socks"
  NoProxy = NoProxy
  Labels <- MCLabels
  SingBoxInstalled = TRUE
  local = local
  other = other
  r1 = r1
  p1 = p1
  Candidates <- MCCandidates
  Default <- MCDefault
  LegacyFiles <- MCLegacyFiles
  Absent = Absent
  Torn = Torn
  NoDoc = NoDoc
  AllowRecovery = TRUE
  MaxFaults = 2
  Programs <- MCPrograms
  Destinations <- MCDestinations
  ExeNames <- MCExeNames
  RoutedIds = {"home"}
  ItemIds = {1, 2}
  Payloads <- MCPayloads
  Items <- MCItems
  Template <- MCTemplate
  Policies <- MCPolicies
  Proposals <- MCProposals
  MaxRules = 3
  Edits = 2
  None = None
SPECIFICATION DocumentsSpec
CHECK_DEADLOCK FALSE
INVARIANTS
  FInv
  ServedIsStored
  PlaintextGone
  MigrationKeepsRoutes
  ManagedRulesMatch
  StrictLeavesNothingOut
  SingBoxFollowsEvaluation
  ShadowedNeverWins
PROPERTIES
  NoRawBackup
  ImplementsRegister
