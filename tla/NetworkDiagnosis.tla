-------------------------- MODULE NetworkDiagnosis --------------------------
(***************************************************************************)
(* The ten-layer diagnosis (core/network/diagnosis.rs, its collectors) and *)
(* the plan it leads to (RepairPlanner::build_plan).  A raw observation is *)
(* what the probes and commands of one run returned; a collector turns its *)
(* part of it into a layer's verdict, the orchestrator the verdicts into   *)
(* issues, and the planner the issues into the actions it recommends.      *)
(***************************************************************************)
EXTENDS Integers, FiniteSets

----------------------------------------------------------------------------
(* Collectors.                                                               *)

\* An adapter is "lan" or "apipa" (up, with such an address), "bare" (without
\* one) or "dead" (down, with a self-assigned address).  PowerShell's list,
\* unless it failed or is empty; then ipconfig's.
Adapters(o) == IF o.powershell # {} THEN o.powershell ELSE o.ipconfig

HasConnected(o) == Adapters(o) \cap {"lan", "apipa"} # {}

ApipaFound(o) == Adapters(o) \cap {"apipa", "dead"} # {}

\* The number of default routes, from PowerShell or else from `route print`.
RouteCount(o) == IF o.netroutes > 0 THEN o.netroutes ELSE o.printed

HasDefault(o) == RouteCount(o) > 0
Rivals(o)     == IF RouteCount(o) > 1 THEN RouteCount(o) - 1 ELSE 0

\* The best route's next hop, an adapter's gateway only without a route; an
\* on-link route has no address to probe.
GatewayReachable(o) ==
  /\ IF HasDefault(o) THEN ~o.onlink ELSE "lan" \in Adapters(o)
  /\ o.ping \/ o.arp

\* One answer of the five public targets is enough.
IpConnected(o) == o.answered > 0

\* How many of the three test domains resolved.
DnsFailed(o) == 3 - o.resolved

\* A redirect, or a body without Microsoft's token; a failure is neither.
CaptivePortal(o) == o.ncsi \in {"redirect", "foreign"}

\* check_proxy: is the port probed, and does it accept within 800 ms?
PortProbed(o)    == o.on /\ o.server
PortReachable(o) == PortProbed(o) /\ o.accepts

\* The dual path: a CONNECT through the same endpoint, with 1500 ms for each
\* step, so it may succeed where the probe of the port was too slow.
ProxyInternetOk(o) == PortProbed(o) /\ o.tunnels

\* Eight catalogue entries, counted in two languages; none if netsh failed.
WinsockHealthy(o) == o.entries >= 8

Loopbacks(o) == o.loopbacks > 0

\* Without a running Core there is nothing to diagnose.
SelfDegraded(o) == o.phase \in {"degraded", "error"}

----------------------------------------------------------------------------
(* Issues, in the order of the layers; severity; overall status.             *)

AdapterIssues(o) ==
  IF ~HasConnected(o) THEN {"adapter_disconnected"}
  ELSE IF ApipaFound(o) THEN {"dhcp_apipa_failure"} ELSE {}

RouteIssues(o) ==
  (IF ~HasDefault(o) THEN {"missing_default_route"}
   ELSE IF Rivals(o) > 0 THEN {"route_metric_rivalry"} ELSE {})
    \cup (IF HasDefault(o) /\ ~GatewayReachable(o) THEN {"gateway_unreachable"} ELSE {})

ProxyIssues(o) ==
  LET dead == PortProbed(o) /\ ~PortReachable(o)
  IN  (IF dead THEN {"proxy_dead_port"} ELSE {})
        \cup (IF dead /\ IpConnected(o) /\ ~ProxyInternetOk(o)
              THEN {"proxy_blocking_traffic"} ELSE {})

InternetIssues(o) ==
  (IF GatewayReachable(o) /\ ~IpConnected(o) THEN {"internet_ip_unreachable"} ELSE {})
    \cup (IF ~IpConnected(o) \/ DnsFailed(o) = 0 THEN {}
          ELSE IF DnsFailed(o) = 3 THEN {"dns_resolution_failed"}
          ELSE {"dns_resolution_partial_failure"})

HostIssues(o) ==
  (IF CaptivePortal(o) THEN {"captive_portal_redirect"} ELSE {})
    \cup (IF WinsockHealthy(o) THEN {} ELSE {"winsock_catalog_anomalous"})
    \cup (IF Loopbacks(o) THEN {"hosts_loopback_records"} ELSE {})
    \cup (IF SelfDegraded(o) THEN {"proxyduck_data_plane_degraded"} ELSE {})

Issues(o) == AdapterIssues(o) \cup RouteIssues(o) \cup ProxyIssues(o)
               \cup InternetIssues(o) \cup HostIssues(o)

Warnings == {"proxy_blocking_traffic", "dns_resolution_partial_failure",
             "captive_portal_redirect", "winsock_catalog_anomalous"}
Infos    == {"route_metric_rivalry", "hosts_loopback_records"}

\* A disconnected adapter is critical: "inconclusive" is never reached.
Status(issues) ==
  IF \E i \in issues : i \notin Warnings \cup Infos THEN "critical"
  ELSE IF issues \cap Warnings # {} THEN "warning" ELSE "normal"

----------------------------------------------------------------------------
(* RepairPlanner::build_plan.                                                *)

Remedies(issue) ==
  CASE issue = "dhcp_apipa_failure" -> {"renew_dhcp", "restart_adapter"}
    [] issue \in {"proxy_dead_port", "proxy_blocking_traffic"} ->
         {"reset_system_proxy", "reset_winhttp"}
    [] issue \in {"dns_resolution_failed", "dns_resolution_partial_failure"} -> {"flush_dns"}
    [] issue = "gateway_unreachable" -> {"flush_arp", "restart_adapter"}
    [] issue = "winsock_catalog_anomalous" -> {"reset_winsock"}
    [] OTHER -> {}

Recommended(issues) ==
  LET remedies == UNION {Remedies(i) : i \in issues}
  IN  IF remedies = {} /\ Status(issues) # "normal" THEN {"flush_dns"} ELSE remedies
=============================================================================
