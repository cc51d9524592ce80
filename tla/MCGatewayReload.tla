-------------------------- MODULE MCGatewayReload --------------------------
(* GatewayReload with three overlapping calls of reload. *)
EXTENDS GatewayReload

CONSTANTS c1, c2, c3

ThreeCalls == {c1, c2, c3}
=============================================================================
