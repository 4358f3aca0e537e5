------------------------- MODULE MCWebsocketSession -------------------------
(* The bounds under which TLC checks WebsocketSession: two payloads that    *)
(* differ and the empty one, and enough messages for one to follow another  *)
(* of the other kind.                                                       *)
EXTENDS WebsocketSession

CONSTANTS p1, p2

MCPayload == {p1, p2}
MCMaxMessages == 3
=============================================================================
