----------------------- MODULE WebsocketSessionProofs -----------------------
(***************************************************************************)
(* Theorems about WebsocketSession, for every set of payloads and every    *)
(* number of messages.                                                     *)
(***************************************************************************)
EXTENDS WebsocketSession, SequenceTheorems, TLAPS

\* A message is what was read into an empty buffer, with the flag it came
\* with.
LEMMA MessageFacts ==
  ASSUME NEW m \in Message
  PROVE  /\ m.payload \in Seq(Payload)
         /\ <<>> \o m.payload = m.payload
         /\ m.text \in BOOLEAN
         /\ m = [payload |-> m.payload, text |-> m.text]
<1>1. m.payload \in Seq(Payload)
  <2>1. m.payload \in {<<>>} \cup {<<p>> : p \in Payload}
    BY DEF Message
  <2>2. CASE m.payload = <<>>
    BY <2>2, EmptySeq
  <2>3. ASSUME NEW p \in Payload, m.payload = <<p>> PROVE m.payload \in Seq(Payload)
    BY <2>3
  <2> QED
    BY <2>1, <2>2, <2>3
<1>2. <<>> \o m.payload = m.payload
  BY <1>1, ConcatEmptySeq
<1>3. m.text \in BOOLEAN /\ m = [payload |-> m.payload, text |-> m.text]
  BY DEF Message
<1> QED
  BY <1>1, <1>2, <1>3

\* A new connection has read and echoed nothing.
LEMMA InitIInv == Init => IInv
BY EmptySeq DEF Init, IInv, TypeOK, EchoesAsReceived

\* A message read into the empty buffer waits there as it is.
LEMMA OnReadIInv ==
  ASSUME IInv, NEW m \in Message, OnRead(m)
  PROVE  IInv'
<1>1. /\ received \in Seq(Message) /\ echoed \in Seq(Message)
      /\ received' = Append(received, m) /\ echoed' = echoed
      /\ Len(received) = Len(echoed)
      /\ waits' = "write"
  BY DEF OnRead, IInv, TypeOK
<1>2. buffer' = m.payload /\ gotText' = m.text /\ text' = m.text
  BY MessageFacts DEF OnRead, EchoText, IInv
<1>3. /\ Len(received') = Len(echoed') + 1
      /\ received'[Len(received')] = [payload |-> buffer', text |-> text']
  BY <1>1, <1>2, MessageFacts
<1>4. TypeOK'
  BY <1>1, <1>2, MessageFacts DEF OnRead, IInv, TypeOK
<1>5. \A i \in DOMAIN echoed : i \in DOMAIN received' /\ received'[i] = received[i]
  BY <1>1
<1>6. EchoesAsReceived'
  BY <1>1, <1>3, <1>5 DEF IInv, EchoesAsReceived
<1> QED
  BY <1>1, <1>3, <1>4, <1>6 DEF IInv

\* What is written is the message read last, and the buffer is empty again.
LEMMA OnWriteIInv ==
  ASSUME IInv, OnWrite
  PROVE  IInv'
<1> DEFINE m == received[Len(received)]
<1>1. /\ received \in Seq(Message) /\ echoed \in Seq(Message)
      /\ Len(received) = Len(echoed) + 1
      /\ received' = received
      /\ waits' = "read" /\ buffer' = <<>>
  BY DEF OnWrite, DoRead, ClearBuffer, IInv, TypeOK
<1>2. /\ m \in Message
      /\ echoed' = Append(echoed, m)
  BY <1>1 DEF OnWrite, IInv
<1>3. Len(received') = Len(echoed')
  BY <1>1, <1>2
<1>4. TypeOK'
  BY <1>1, <1>2 DEF OnWrite, IInv, TypeOK
<1>5. EchoesAsReceived'
  BY <1>1, <1>2, <1>3 DEF IInv, EchoesAsReceived
<1> QED
  BY <1>1, <1>3, <1>4, <1>5 DEF IInv

-----------------------------------------------------------------------------

\* IInv is inductive, for any number of messages of any content.
THEOREM Invariance == Spec => []IInv
<1>1. Init => IInv
  BY InitIInv
<1>2. IInv /\ [Next]_vars => IInv'
  <2> SUFFICES ASSUME IInv, [Next]_vars PROVE IInv'
    OBVIOUS
  <2>1. CASE OnAccept
    BY <2>1 DEF OnAccept, DoRead, IInv, TypeOK, EchoesAsReceived
  <2>2. ASSUME NEW m \in Message, OnRead(m) PROVE IInv'
    BY <2>2, OnReadIInv
  <2>3. CASE OnWrite
    BY <2>3, OnWriteIInv
  <2>4. CASE Fails
    BY <2>4 DEF Fails, IInv, TypeOK, EchoesAsReceived
  <2>5. CASE UNCHANGED vars
    BY <2>5 DEF vars, IInv, TypeOK, EchoesAsReceived
  <2> QED
    BY <2>1, <2>2, <2>3, <2>4, <2>5 DEF Next
<1> QED
  BY <1>1, <1>2, PTL DEF Spec

\* What was echoed is what was received, message by message.
THEOREM Echoing == Spec => []EchoesAsReceived
<1>1. IInv => EchoesAsReceived
  BY DEF IInv
<1> QED
  BY <1>1, Invariance, PTL

\* Every behaviour of a WebSocket session is one of Echo.
THEOREM ImplementsSafety == Spec => Promise!Safety
<1>1. Init => Promise!Init
  BY DEF Init, Promise!Init
<1>2. IInv /\ [Next]_vars => [Promise!Next]_Promise!vars
  <2> SUFFICES ASSUME IInv, [Next]_vars
               PROVE  Promise!Next \/ UNCHANGED Promise!vars
    OBVIOUS
  <2>1. CASE OnAccept
    BY <2>1 DEF OnAccept, DoRead, Promise!vars
  <2>2. ASSUME NEW m \in Message, OnRead(m)
        PROVE  Promise!Next
    <3>1. Promise!Take(m)
      BY <2>2 DEF OnRead, IInv, Promise!Take
    <3> QED
      BY <3>1 DEF Promise!Next
  <2>3. CASE OnWrite
    <3>1. /\ received \in Seq(Message) /\ echoed \in Seq(Message)
          /\ Len(received) = Len(echoed) + 1
          /\ echoed' = Append(echoed, received[Len(echoed) + 1])
      BY <2>3 DEF OnWrite, IInv, TypeOK
    <3>2. Promise!Return
      BY <2>3, <3>1 DEF OnWrite, DoRead, Promise!Return
    <3> QED
      BY <3>2 DEF Promise!Next
  <2>4. CASE Fails
    BY <2>4 DEF Fails, Promise!Next, Promise!End
  <2>5. CASE UNCHANGED vars
    BY <2>5 DEF vars, Promise!vars
  <2> QED
    BY <2>1, <2>2, <2>3, <2>4, <2>5 DEF Next
<1> QED
  BY <1>1, <1>2, Invariance, PTL DEF Spec, Promise!Safety
=============================================================================
