-------------------------- MODULE WebsocketSession --------------------------
(***************************************************************************)
(* A WebSocket connection: websocket_session<Derived>, which accepts the   *)
(* upgrade and then echoes one message after another, over a plain or a    *)
(* TLS stream alike (http/server/sessions.hpp).                            *)
(*                                                                         *)
(* The session waits for one operation at a time and lives as long as that *)
(* operation holds it.  A message is a payload and whether it is text;     *)
(* buffer_ holds the payloads read into it one after another.              *)
(*                                                                         *)
(* Definitions whose comment starts with "Mutant" are not part of the      *)
(* model: each is a plausible mistake in the definition after it.          *)
(***************************************************************************)
EXTENDS Naturals, Sequences

CONSTANTS
  Payload,      \* what a message can contain
  MaxMessages   \* bound: how many messages the peer sends

ASSUME MaxMessagesAssumption == MaxMessages \in Nat

\* A message is empty or has a payload.
Message ==
  [payload : {<<>>} \cup {<<p>> : p \in Payload}, text : BOOLEAN]

VARIABLES
  waits,      \* the operation that is outstanding, "nothing" at the end
  buffer,     \* buffer_
  gotText,    \* ws().got_text(): whether the last message read was text
  text,       \* ws().text(): whether the next message is written as text
  received,   \* history: the messages read
  echoed      \* history: the messages written

vars == <<waits, buffer, gotText, text, received, echoed>>

TypeOK ==
  /\ waits \in {"accept", "read", "write", "nothing"}
  /\ buffer \in Seq(Payload)
  /\ gotText \in BOOLEAN
  /\ text \in BOOLEAN
  /\ received \in Seq(Message)
  /\ echoed \in Seq(Message)

\* run(): do_accept.  A stream writes text until it is told otherwise.
Init ==
  /\ waits = "accept"
  /\ buffer = <<>>
  /\ gotText = FALSE
  /\ text = TRUE
  /\ received = <<>>
  /\ echoed = <<>>

DoRead == waits' = "read"

\* The operation failed, at the latest when the timeouts of the stream, 30
\* seconds for a handshake and 300 seconds of silence, have passed; or the
\* peer closed the connection.
Fails ==
  /\ waits # "nothing"
  /\ waits' = "nothing"
  /\ UNCHANGED <<buffer, gotText, text, received, echoed>>

OnAccept ==
  /\ waits = "accept"
  /\ DoRead
  /\ UNCHANGED <<buffer, gotText, text, received, echoed>>

\* Mutant: the kind of the message is not passed on.
KeepText == UNCHANGED text

\* ws().text(ws().got_text())
EchoText == text' = gotText'

\* A message was read into the buffer, and the buffer is written back.
OnRead(m) ==
  /\ waits = "read"
  /\ Len(received) < MaxMessages
  /\ received' = Append(received, m)
  /\ buffer' = buffer \o m.payload
  /\ gotText' = m.text
  /\ EchoText
  /\ waits' = "write"
  /\ UNCHANGED echoed

\* Mutant: the buffer is not cleared.
KeepBuffer == UNCHANGED buffer

\* buffer_.consume(buffer_.size())
ClearBuffer == buffer' = <<>>

\* The message was written: the buffer is cleared and the next one is read.
OnWrite ==
  /\ waits = "write"
  /\ echoed' = Append(echoed, [payload |-> buffer, text |-> text])
  /\ ClearBuffer
  /\ DoRead
  /\ UNCHANGED <<gotText, text, received>>

Next ==
  \/ OnAccept
  \/ \E m \in Message : OnRead(m)
  \/ OnWrite
  \/ Fails

Spec == Init /\ [][Next]_vars

\* An operation completes or fails: the stream has timeouts, and the threads
\* in io_context::run call every handler.
FairSpec == Spec /\ WF_vars(OnAccept \/ OnWrite \/ Fails)

-----------------------------------------------------------------------------
(* Properties *)

\* Every message comes back as it was: no payload of an earlier one in front,
\* none lost, of the same kind, in order, and each before the next is read
\* (sessions.hpp 100-138).
EchoesAsReceived ==
  /\ Len(received) \in {Len(echoed), Len(echoed) + 1}
  /\ \A i \in DOMAIN echoed : i \in DOMAIN received /\ echoed[i] = received[i]

\* The inductive invariant behind EchoesAsReceived.
IInv ==
  /\ TypeOK
  /\ EchoesAsReceived
  /\ waits = "write" =>
       /\ Len(received) = Len(echoed) + 1
       /\ received[Len(received)] = [payload |-> buffer, text |-> text]
  /\ waits \in {"accept", "read"} => buffer = <<>> /\ Len(received) = Len(echoed)

\* The session implements the promise of Echo.
Promise ==
  INSTANCE Echo WITH sent <- received, over <- waits = "nothing"

ImplementsEcho == Promise!Spec
=============================================================================
