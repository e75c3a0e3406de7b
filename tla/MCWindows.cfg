CONSTANTS
  a = a
  b = b
  c = c
  Specs <- MCSpecs
  Nothing = Nothing
  Handlers = {h1, h2}
  Settings <- MCSettings
  Found <- MCFound
  MaxRegistered = 1
  MaxPoints = 2
  MaxPlans = 2
  MaxRequests = 3
  MaxChanges = 1
SYMMETRY Symmetric
SPECIFICATION WindowsSpec
CHECK_DEADLOCK FALSE
INVARIANTS
  Inv
  OldOrNewInForce
  NoForgottenRule
  UserSettingsRecoverable
  RollbackRestores
PROPERTY KeptRulesNeverFlicker
