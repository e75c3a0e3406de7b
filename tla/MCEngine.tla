----------------------------- MODULE MCEngine -----------------------------
\* Four configurations: ProxiFyre, disabled, and sing-box enabled and not, and
\* without a route to generate.
EXTENDS EngineSwitch

Cfg(mode, enabled, plan) == [mode |-> mode, enabled |-> enabled, plan |-> plan]

MCOff == Cfg("proxifyre", FALSE, "routes")
MCConfigs == {MCOff, Cfg("sing_box", TRUE, "routes"), Cfg("sing_box", TRUE, "none"),
              Cfg("sing_box", FALSE, "routes")}
=============================================================================
