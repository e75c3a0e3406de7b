---------------------------- MODULE MCProxySecrets ----------------------------
EXTENDS ProxySecrets, TLC

Perms == Permutations(Proxies) \cup Permutations(Passwords) \cup Permutations(Handlers)
=============================================================================
