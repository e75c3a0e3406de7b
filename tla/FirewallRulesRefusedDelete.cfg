CONSTANTS
  a = a
  b = b
  c = c
  Specs <- MCSpecs
SPECIFICATION Spec
SYMMETRY Perms
INVARIANTS
  OkMeansInForce
