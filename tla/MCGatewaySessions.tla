------------------------- MODULE MCGatewaySessions -------------------------
(* The instance of GatewaySessions for TLC that has three threads of a Koe *)
(* with a declared session.                                                *)
EXTENDS GatewaySessions
=============================================================================
