----------------------------- MODULE MCListener -----------------------------
(* The bounds under which TLC checks Listener: two connections, so that one *)
(* is detected while the other is accepted, served or fails.                *)
EXTENDS Listener

CONSTANTS c1, c2

MCConnections == {c1, c2}
=============================================================================
