-------------------------------- MODULE Echo --------------------------------
(***************************************************************************)
(* What a WebSocket connection of the server promises: every message the   *)
(* peer sends comes back as it was, once, in the order they were sent,     *)
(* unless the connection ends.  The detailed model is WebsocketSession.    *)
(***************************************************************************)
EXTENDS Naturals, Sequences

CONSTANT Message   \* the messages a peer can send

VARIABLES
  sent,     \* the messages the server has taken in, in that order
  echoed,   \* the messages that came back
  over      \* TRUE when the connection has ended

vars == <<sent, echoed, over>>

Init ==
  /\ sent = <<>>
  /\ echoed = <<>>
  /\ over = FALSE

\* One message is taken in at a time: the next when the last came back.
Take(m) ==
  /\ ~over
  /\ Len(sent) = Len(echoed)
  /\ sent' = Append(sent, m)
  /\ UNCHANGED <<echoed, over>>

Return ==
  /\ ~over
  /\ Len(echoed) < Len(sent)
  /\ echoed' = Append(echoed, sent[Len(echoed) + 1])
  /\ UNCHANGED <<sent, over>>

End ==
  /\ ~over
  /\ over' = TRUE
  /\ UNCHANGED <<sent, echoed>>

Next == (\E m \in Message : Take(m)) \/ Return \/ End

Safety == Init /\ [][Next]_vars

\* A message taken in comes back, unless the connection ends.
Spec == Safety /\ WF_vars(Return \/ End)

=============================================================================
