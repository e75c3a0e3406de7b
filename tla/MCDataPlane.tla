----------------------------- MODULE MCDataPlane -----------------------------
EXTENDS DataPlane

Cfg(enabled, strict, policy, plan) ==
  [enabled |-> enabled, strict |-> strict, policy |-> policy, plan |-> plan]

MCThreads == {"api", "watcher", "shutdown"}
StrictOn == Cfg(TRUE, TRUE, TRUE, "proxies")
Off == Cfg(FALSE, FALSE, FALSE, "proxies")
Orphan == Cfg(TRUE, FALSE, FALSE, "orphan")
Available == Cfg(TRUE, FALSE, TRUE, "proxies")
MCConfigs == {StrictOn, Off, Orphan}
AllConfigs == {StrictOn, Available, Off, Orphan}
=============================================================================
