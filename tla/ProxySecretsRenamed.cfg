CONSTANTS
  Proxies = {a, b}
  Passwords = {p, q}
  Handlers = {h1}
  None = None
  Torn = Torn
  Renames = TRUE
  MaxFaults = 0
SPECIFICATION Spec
INVARIANT CredentialIntact
