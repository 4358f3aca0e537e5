------------------------------ MODULE Pipeline ------------------------------
(***************************************************************************)
(* What an HTTP connection promises its peer, whatever the transport does: *)
(* requests are answered one at a time, in the order they were read, none  *)
(* twice and none out of turn; no more than Window of them are waiting;    *)
(* and a request is not left waiting while the connection can still        *)
(* answer.  The detailed model of the session is HttpSession.              *)
(***************************************************************************)
EXTENDS Naturals, Sequences

CONSTANT Window   \* how many requests may be waiting for their response

VARIABLES
  received,   \* how many requests have been read; they are numbered from 1
  answered,   \* the requests whose response was written, in that order
  finished    \* TRUE when no further response will be written

vars == <<received, answered, finished>>

Init ==
  /\ received = 0
  /\ answered = <<>>
  /\ finished = FALSE

\* A request is read.  It may come after the connection has finished: it is
\* then never answered.
Receive ==
  /\ received - Len(answered) < Window
  /\ received' = received + 1
  /\ UNCHANGED <<answered, finished>>

\* The oldest waiting request is answered; that response may be the last one.
Answer ==
  /\ ~finished
  /\ Len(answered) < received
  /\ answered' = Append(answered, Len(answered) + 1)
  /\ finished' \in BOOLEAN
  /\ UNCHANGED received

\* The transport fails: nothing more is written.
Stop ==
  /\ ~finished
  /\ finished' = TRUE
  /\ UNCHANGED <<received, answered>>

Next == Receive \/ Answer \/ Stop

Safety == Init /\ [][Next]_vars

\* A connection that can answer a waiting request does not wait for ever.
Spec == Safety /\ WF_vars(Answer)

=============================================================================
