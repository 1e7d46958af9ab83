--------------------------- MODULE MCClusterMonitor ---------------------------
(***************************************************************************)
(* An instance of the cluster monitor for TLC: two nodes, two dashboards,  *)
(* one thread for their events and two operators.  Three changes are       *)
(* enough for two exclusions and a dashboard that sees them, for a page    *)
(* that is loaded again before a node stops, and for two updates that      *)
(* overlap while a node stops.  No symmetry, because liveness is checked.  *)
(***************************************************************************)
EXTENDS ClusterMonitor
=============================================================================
