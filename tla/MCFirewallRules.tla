--------------------------- MODULE MCFirewallRules ---------------------------
EXTENDS FirewallRules, TLC

CONSTANTS a, b, c
MCSpecs == {a, b, c}
Perms == Permutations(MCSpecs)
=============================================================================
