CONSTANTS
  Proxies = {a, b}
  Passwords = {p, q}
  Handlers = {h1, h2}
  None = None
  Torn = Torn
  Renames = FALSE
  MaxFaults = 1
SPECIFICATION Spec
SYMMETRY Perms
INVARIANTS
  SInv
  CredentialIntact
  NothingLeftBehind
PROPERTIES
  StartKeepsCredentials
