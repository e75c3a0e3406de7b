-------------------------- MODULE MCProxifyreBackend --------------------------
EXTENDS ProxifyreBackend, TLC

CONSTANTS t1, t2
MCThreads == {t1, t2}
Perms == Permutations(MCThreads)

Cfg(enabled, strict, policy, plan) ==
  [enabled |-> enabled, strict |-> strict, policy |-> policy, plan |-> plan]

MCConfigs == {
  Cfg(TRUE, TRUE, TRUE, "proxies"),
  Cfg(TRUE, FALSE, FALSE, "proxies"),
  Cfg(TRUE, TRUE, TRUE, "direct"),
  Cfg(TRUE, TRUE, FALSE, "invalid"),
  Cfg(FALSE, FALSE, FALSE, "proxies")}
=============================================================================
