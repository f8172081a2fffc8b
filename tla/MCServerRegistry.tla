-------------------------- MODULE MCServerRegistry --------------------------
(* Two servers, two values and three calls.                                *)
EXTENDS ServerRegistry

=============================================================================
