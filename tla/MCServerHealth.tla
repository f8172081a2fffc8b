--------------------------- MODULE MCServerHealth ---------------------------
(* One server and two probes at once, for each of the configurations.      *)
EXTENDS ServerHealth, TLC

=============================================================================
