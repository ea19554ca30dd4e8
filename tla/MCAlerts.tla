------------------------------ MODULE MCAlerts ------------------------------
(* A small instance of Alerts for TLC. *)
EXTENDS Alerts, TLC

OneChannel  == {"push"}
TwoChannels == {"push", "email"}
TwoWatches  == {"nas_health", "collect"}
Six         == Kind \ {"NAS_SPACE_LOW", "DATA_AT_RISK"}
OneKind     == {"NAS_UNREACHABLE"}

(* Bound of the run: two things happen, and a rig's poll probes the NAS. *)
FewTroubles == spent.changes + spent.failures + spent.crashes + spent.waives + runs <= 2
=============================================================================
