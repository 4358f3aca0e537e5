------------------------------ MODULE MCClient ------------------------------
(* The client and one TLS session, with the queue's limit of 8. *)
EXTENDS Client
=============================================================================
