--------------------------- MODULE MCMonitorClaims ----------------------------
(* The instance of MCAccountMonitor, with the history variable.            *)
EXTENDS MCAccountMonitor, MonitorClaims
=============================================================================
