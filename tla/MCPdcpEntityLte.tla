--------------------------- MODULE MCPdcpEntityLte ---------------------------
(* PDCP of an LTE data bearer over RLC AM, downlink with handover. *)
EXTENDS PdcpEntityLte

=============================================================================
