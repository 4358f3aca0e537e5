---------------------------- MODULE ClientProofs ----------------------------
(***************************************************************************)
(* Theorems about Client, for every length of the queue: the client uses a *)
(* session as HttpSession says one can be used, and a session says goodbye *)
(* to it only behind its response, twice at most.                          *)
(***************************************************************************)
EXTENDS Client, HttpSessionProofs

-----------------------------------------------------------------------------
(* Every step of the two is one of HttpSession or leaves it alone. *)

LEMMA ClientStepsAreSessionSteps ==
  ASSUME [KNext]_kvars
  PROVE  [Next]_vars
<1>1. CASE ClientHandlers
  BY <1>1
     DEF ClientHandlers, OnResolve, OnConnect, OnHandshaken, OnWritten,
         OnResponse, OnClosed, OnLost, Goes, Fail
<1>2. CASE SessionHandlers
  <2>1. CASE Handshaken
    BY <2>1 DEF Handshaken, Next, OnHandshake
  <2>2. CASE Received
    <3>1. Closes \in BOOLEAN
      BY DEF Closes
    <3> QED
      BY <2>2, <3>1 DEF Received, Next, OnRead
  <2>3. CASE Responded
    BY <2>3 DEF Responded, Next, OnWrite
  <2>4. CASE ShutDown
    BY <2>4 DEF ShutDown, Next
  <2> QED
    BY <1>2, <2>1, <2>2, <2>3, <2>4 DEF SessionHandlers
<1>3. CASE Expires
  BY <1>3 DEF Expires, Next
<1>4. CASE Misfortune
  BY <1>4 DEF Misfortune, Fail, Next, OnWrite
<1>5. CASE Cut \/ Over \/ UNCHANGED kvars
  BY <1>5 DEF Cut, Over, kvars
<1> QED
  BY <1>1, <1>2, <1>3, <1>4, <1>5 DEF KNext

\* The client gets from a session nothing that HttpSession does not allow.
THEOREM ClientUsesSession == KSpec => Spec
<1>1. KInit => Init
  BY DEF KInit
<1>2. [KNext]_kvars => [Next]_vars
  BY ClientStepsAreSessionSteps
<1> QED
  BY <1>1, <1>2, PTL DEF KSpec, Spec

\* So the session's invariant holds.
THEOREM ClientSessionInvariance == KSpec => []IInv
BY ClientUsesSession, Invariance, PTL

-----------------------------------------------------------------------------
(* The invariant of the two. *)

\* What the session's invariant says where it matters here.
LEMMA UsedFacts ==
  ASSUME IInv
  PROVE  /\ nread \in Nat /\ shutdowns \in Nat
         /\ reads \in Nat
         /\ items \in Seq(Work) /\ sent \in Seq(Work)
         /\ reads > 0 => readEnd = "open"
         /\ writing # {} => writeEnd = "open"
         /\ writing # {} => items # <<>>
         /\ writeEnd # "open" => writing = {} /\ items # <<>>
<1>1. /\ nread \in Nat /\ shutdowns \in Nat /\ reads \in Nat
      /\ items \in Seq(Work) /\ sent \in Seq(Work)
  BY DEF IInv, TypeOK
<1>2. reads > 0 => readEnd = "open"
  BY <1>1 DEF IInv
<1>3. writeEnd # "open" => writing = {} /\ items # <<>>
  BY DEF IInv
<1>4. writing # {} => items # <<>>
  BY DEF IInv, OneOperationPerDirection
<1> QED
  BY <1>1, <1>2, <1>3, <1>4

\* Before anything happened.
LEMMA InitKInv == KInit => KInv
<1> SUFFICES ASSUME KInit
             PROVE  KInv
  OBVIOUS
<1>1. KTypeOK
  BY DEF KInit, KTypeOK, Phases
<1>2. /\ ssl /\ nread = 0 /\ items = <<>> /\ writing = {} /\ shutdowns = 0
      /\ readEnd = "open" /\ writeEnd = "open" /\ stream = "open"
      /\ clientBye = FALSE /\ serverBye = FALSE
  BY DEF KInit, Init
<1> QED
  BY <1>1, <1>2 DEF KInv

\* What the client's handlers leave alone is most of it.
LEMMA ClientHandlersKInv ==
  ASSUME IInv, KInv, ClientHandlers
  PROVE  KInv'
<1>1. UNCHANGED <<vars, version, serverBye, cut, trouble>>
  BY DEF ClientHandlers, OnResolve, OnConnect, OnHandshaken, OnWritten,
         OnResponse, OnClosed, OnLost, Goes, Fail
<1>2. /\ requested' \in BOOLEAN /\ clientBye' \in BOOLEAN
      /\ phase' \in Phases
      /\ requested => requested'
      /\ clientBye' # clientBye => UnderWay
  <2>1. CASE OnResolve \/ OnConnect \/ OnHandshaken \/ OnWritten
    BY <2>1 DEF OnResolve, OnConnect, OnHandshaken, OnWritten, Goes, Phases,
                KInv, KTypeOK
  <2>2. CASE OnResponse \/ OnClosed \/ OnLost
    BY <2>2 DEF OnResponse, OnClosed, OnLost, Goes, Fail, Phases, KInv, KTypeOK
  <2> QED
    BY <2>1, <2>2 DEF ClientHandlers
<1>3. UnderWay => nread = 1
  <2>1. Len(sent) \in Nat /\ Len(items) \in Nat
    BY UsedFacts
  <2>2. items # <<>> => Len(items) > 0
    BY UsedFacts
  <2>3. sent # <<>> => Len(sent) > 0
    BY UsedFacts
  <2>4. Len(sent) + Len(items) = nread + Written
    BY DEF IInv, ResponsesInOrder
  <2>5. CASE writeEnd = "closed"
    <3>1. Written = 1 /\ items # <<>> /\ sent # <<>>
      BY <2>5, UsedFacts DEF Written, KInv
    <3> QED
      BY <3>1, <2>1, <2>2, <2>3, <2>4, UsedFacts DEF KInv
  <2>6. CASE writeEnd # "closed"
    <3>1. Written = 0 /\ (UnderWay => items # <<>> \/ sent # <<>>)
      BY <2>6, UsedFacts DEF Written, UnderWay
    <3> QED
      BY <3>1, <2>1, <2>2, <2>3, <2>4, UsedFacts DEF KInv
  <2> QED
    BY <2>5, <2>6
<1>4. clientBye' => nread' = 1
  BY <1>1, <1>2, <1>3 DEF KInv, vars, queueVars
<1>5. clientBye' /\ stream' = "open" => UnderWay'
  BY <1>1, <1>2 DEF KInv, UnderWay, vars, opVars, queueVars, endVars
<1> QED
  BY <1>1, <1>2, <1>4, <1>5
     DEF KInv, KTypeOK, vars, opVars, queueVars, endVars, Closes

\* A handshake tells neither side anything about requests.
LEMMA HandshakenKInv ==
  ASSUME IInv, KInv, Handshaken, Served, UNCHANGED trouble
  PROVE  KInv'
<1>1. /\ UNCHANGED <<ssl, writing, writeOk, shutdowns, queueVars, writeEnd,
                     stream>>
      /\ readEnd' = readEnd \/ readEnd' = "error"
      /\ readEnd = "open"
  BY DEF Handshaken, HandshakeDone, HandshakeError, endVars, IInv
<1>2. serverBye' = serverBye
  BY <1>1 DEF Served, KInv, KTypeOK
<1> QED
  BY <1>1, <1>2 DEF KInv, KTypeOK, Served, queueVars, UnderWay, Closes

\* The one request is read once; the end of the stream comes behind it.
LEMMA ReceivedKInv ==
  ASSUME IInv, KInv, Received, Served, UNCHANGED trouble
  PROVE  KInv'
<1>1. CASE ReadRequest(Closes) /\ requested /\ nread = 0
  <2>1. /\ UNCHANGED <<ssl, shutdowns, sent, endVars>> /\ nread' = 1
        /\ items' = Append(items, [req |-> 1, close |-> Closes])
    BY <1>1 DEF ReadRequest, Push
  <2>2. \A i \in DOMAIN items' : items'[i].close = Closes
    BY <2>1, UsedFacts DEF KInv
  <2>3. \/ writing' = writing /\ writeOk' = writeOk
        \/ writeOk' = CanSend
    BY <1>1 DEF ReadRequest, BeginWrite
  <2>4. serverBye' = serverBye
    BY <2>1 DEF Served, KInv, KTypeOK, endVars
  <2>5. writing' # {} /\ ~writeOk' => stream' # "open"
    BY <2>1, <2>3 DEF KInv, CanSend, endVars
  <2>6. clientBye = FALSE
    BY <1>1 DEF KInv, KTypeOK
  <2> QED
    BY <1>1, <2>1, <2>2, <2>4, <2>5, <2>6
       DEF KInv, KTypeOK, Served, endVars, Closes
<1>2. CASE ReadEof /\ clientBye /\ nread = 1
  <2>1. /\ UNCHANGED <<ssl, writing, writeOk, queueVars, writeEnd>>
        /\ readEnd = "open" /\ readEnd' = "eof"
        /\ shutdowns' = shutdowns + 1
        /\ stream' = IF stream = "open" THEN "shut" ELSE stream
    BY <1>2, UsedFacts DEF ReadEof, DoEof, SslDoEof, KInv
  <2>2. shutdowns' <= (IF readEnd' = "eof" THEN 1 ELSE 0)
                      + (IF writeEnd' = "closed" THEN 1 ELSE 0)
    BY <2>1, UsedFacts DEF KInv
  <2> QED
    BY <1>2, <2>1, <2>2
       DEF KInv, KTypeOK, Served, queueVars, UnderWay, Closes
<1>3. CASE ReadError
  <2>1. /\ UNCHANGED <<ssl, writing, writeOk, shutdowns, queueVars, writeEnd,
                       stream>>
        /\ readEnd = "open" /\ readEnd' = "error"
    BY <1>3, UsedFacts DEF ReadError
  <2>2. serverBye' = serverBye
    BY <2>1 DEF Served, KInv, KTypeOK
  <2> QED
    BY <2>1, <2>2 DEF KInv, KTypeOK, Served, queueVars, UnderWay, Closes
<1> QED
  BY <1>1, <1>2, <1>3 DEF Received

\* A write that fails leaves the response unfinished, but not one the client
\* has read, as long as its socket is open.
LEMMA WriteErrorKInv ==
  ASSUME IInv, KInv, NEW w \in writing, WriteError(w), ~writeOk \/ ~clientBye,
         Served, trouble' \in BOOLEAN
  PROVE  KInv'
<1>1. /\ UNCHANGED <<ssl, writeOk, shutdowns, queueVars, readEnd, stream>>
      /\ writeEnd = "open" /\ writeEnd' = "failed"
      /\ writing' = writing \ {w}
  BY UsedFacts DEF WriteError
<1>2. serverBye' = serverBye
  BY <1>1 DEF Served, KInv, KTypeOK
<1>3. clientBye => stream # "open"
  BY DEF KInv
<1> QED
  BY <1>1, <1>2, <1>3 DEF KInv, KTypeOK, Served, queueVars, UnderWay, Closes

\* A response that was written was under way, and stays so.
LEMMA RespondedKInv ==
  ASSUME IInv, IInv', KInv, Responded, Served, UNCHANGED trouble
  PROVE  KInv'
<1>1. PICK w \in writing :
        \/ WriteClose(w) \/ WriteNext(w)
        \/ WriteError(w) /\ (~writeOk \/ (phase = "failed" /\ ~clientBye /\ ~cut))
  BY DEF Responded
<1>2. /\ items # <<>> /\ w = Head(items) /\ w.close = Closes
      /\ writeEnd = "open"
  <2>1. items # <<>> /\ w = Head(items)
    BY DEF IInv, OneOperationPerDirection
  <2>2. w.close = Closes
    BY <2>1, UsedFacts DEF KInv
  <2> QED
    BY <2>1, <2>2, UsedFacts
<1>3. sent' = Append(sent, w) => sent' # <<>>
  BY UsedFacts
<1>4. CASE WriteClose(w)
  <2>1. /\ UNCHANGED <<ssl, writeOk, items, nread, readEnd>>
        /\ sent' = Append(sent, w) /\ writeEnd' = "closed" /\ w.close
        /\ shutdowns' = shutdowns + 1
        /\ stream' = IF stream = "open" THEN "shut" ELSE stream
    BY <1>4 DEF WriteClose, DoEof, SslDoEof, KInv
  <2>2. writing' = {}
    BY <2>1 DEF IInv
  <2>3. shutdowns' <= (IF readEnd' = "eof" THEN 1 ELSE 0)
                      + (IF writeEnd' = "closed" THEN 1 ELSE 0)
    BY <2>1, <1>2, UsedFacts DEF KInv
  <2> QED
    BY <1>2, <1>3, <2>1, <2>2, <2>3
       DEF KInv, KTypeOK, Served, UnderWay, Closes
<1>5. CASE WriteNext(w)
  <2>1. /\ UNCHANGED <<ssl, shutdowns, nread, endVars>>
        /\ sent' = Append(sent, w) /\ items' = Tail(items)
    BY <1>5 DEF WriteNext
  <2>2. \A i \in DOMAIN items' : items'[i].close = Closes
    BY <2>1, <1>2, UsedFacts DEF KInv
  <2>3. \/ writeOk' = CanSend
        \/ writing' = writing \ {w} /\ writeOk' = writeOk
    BY <1>5 DEF WriteNext, BeginWrite
  <2>4. writing' # {} /\ ~writeOk' => stream' # "open"
    BY <2>1, <2>3 DEF KInv, CanSend, endVars
  <2>5. serverBye' = serverBye
    BY <2>1 DEF Served, KInv, KTypeOK, endVars
  <2> QED
    BY <1>3, <2>1, <2>2, <2>4, <2>5
       DEF KInv, KTypeOK, Served, endVars, UnderWay, Closes
<1>6. CASE WriteError(w) /\ (~writeOk \/ (phase = "failed" /\ ~clientBye /\ ~cut))
  BY <1>6, WriteErrorKInv DEF KInv, KTypeOK
<1> QED
  BY <1>1, <1>4, <1>5, <1>6

\* A shutdown that ended, and a deadline, say nothing new.
LEMMA ShutDownKInv ==
  ASSUME IInv, KInv, ShutDown, Served, UNCHANGED trouble
  PROVE  KInv'
<1>1. /\ UNCHANGED <<ssl, writing, writeOk, queueVars, endVars>>
      /\ shutdowns' = shutdowns - 1
  BY DEF ShutDown, OnShutdown
<1>2. serverBye' = serverBye
  BY <1>1 DEF Served, KInv, KTypeOK, endVars
<1>3. shutdowns' <= (IF readEnd' = "eof" THEN 1 ELSE 0)
                    + (IF writeEnd' = "closed" THEN 1 ELSE 0)
  BY <1>1, UsedFacts DEF KInv, endVars
<1> QED
  BY <1>1, <1>2, <1>3
     DEF KInv, KTypeOK, Served, queueVars, endVars, UnderWay, Closes

LEMMA ExpiresKInv ==
  ASSUME IInv, KInv, Expires
  PROVE  KInv'
<1>1. /\ UNCHANGED <<ssl, writing, shutdowns, queueVars, readEnd, writeEnd>>
      /\ stream' = "closed" /\ trouble' = TRUE /\ Served
  BY DEF Expires, Timeout
<1>2. serverBye' = serverBye
  BY <1>1 DEF Served, KInv, KTypeOK
<1> QED
  BY <1>1, <1>2 DEF KInv, KTypeOK, Served, queueVars, UnderWay, Closes

\* The two keep the invariant.
THEOREM ClientInvariance == KSpec => []KInv
<1>1. KInit => KInv
  BY InitKInv
<1>2. IInv /\ IInv' /\ KInv /\ [KNext]_kvars => KInv'
  <2> SUFFICES ASSUME IInv, IInv', KInv, [KNext]_kvars
               PROVE  KInv'
    OBVIOUS
  <2>1. CASE ClientHandlers
    BY <2>1, ClientHandlersKInv
  <2>2. CASE SessionHandlers
    BY <2>2, HandshakenKInv, ReceivedKInv, RespondedKInv, ShutDownKInv
       DEF SessionHandlers
  <2>3. CASE Expires
    BY <2>3, ExpiresKInv
  <2>4. CASE Misfortune
    <3>1. trouble' = TRUE
      BY <2>4 DEF Misfortune
    <3>2. CASE ~Gone /\ Fail
      BY <3>1, <3>2
         DEF Fail, KInv, KTypeOK, Phases, vars, opVars, queueVars, endVars,
             UnderWay, Closes
    <3>3. CASE ~clientBye /\ (\E w \in writing : WriteError(w)) /\ Served
      BY <3>1, <3>3, WriteErrorKInv
    <3> QED
      BY <2>4, <3>2, <3>3 DEF Misfortune
  <2>5. CASE Cut \/ Over \/ UNCHANGED kvars
    <3>1. /\ UNCHANGED <<vars, version, phase, requested, clientBye, serverBye>>
          /\ cut' \in BOOLEAN /\ trouble' \in BOOLEAN
      BY <2>5 DEF Cut, Over, kvars, KInv, KTypeOK
    <3>2. UNCHANGED <<ssl, writing, writeOk, shutdowns, items, nread, sent,
                      readEnd, writeEnd, stream>>
      BY <3>1 DEF vars, opVars, queueVars, endVars
    <3> QED
      BY <3>1, <3>2 DEF KInv, KTypeOK, UnderWay, Closes
  <2> QED
    BY <2>1, <2>2, <2>3, <2>4, <2>5 DEF KNext
<1> QED
  BY <1>1, <1>2, ClientSessionInvariance, PTL DEF KSpec

-----------------------------------------------------------------------------
(* Without a misfortune neither waits for the other for ever. *)

\* Only the deadlines and misfortunes are trouble, and they stay so.
LEMMA UntroubledSteps ==
  ASSUME KInv, [KNext]_kvars, ~trouble'
  PROVE  ~trouble /\ (ClientHandlers \/ SessionHandlers \/ UNCHANGED kvars)
BY DEF KNext, ClientHandlers, OnResolve, OnConnect, OnHandshaken, OnWritten,
       OnResponse, OnClosed, OnLost, Goes, Fail, SessionHandlers, Expires,
       Misfortune, Cut, Over, KInv, KTypeOK, kvars

\* Both sides have all before them.
LEMMA InitUntroubled ==
  ASSUME KInit, ~trouble
  PROVE  Untroubled
<1>1. phase = "resolving"
  BY DEF KInit
<1>2. /\ handshaking /\ readOk /\ writeOk /\ stream = "open"
      /\ readEnd = "open" /\ writeEnd = "open"
      /\ nread = 0 /\ shutdowns = 0 /\ writing = {} /\ sent = <<>>
      /\ ~requested /\ ~clientBye /\ ~serverBye /\ ~cut
  BY DEF KInit, Init, SslRun
<1> QED
  BY <1>1, <1>2 DEF Untroubled, UnderWay

\* The client goes on as far as the session has come.
LEMMA ClientUntroubled ==
  ASSUME IInv, KInv, KInv', Untroubled, ClientHandlers
  PROVE  Untroubled'
<1>1. UNCHANGED <<vars, version, serverBye, cut, trouble>>
  BY DEF ClientHandlers, OnResolve, OnConnect, OnHandshaken, OnWritten,
         OnResponse, OnClosed, OnLost, Goes, Fail
<1>2. /\ UNCHANGED <<handshaking, reads, readOk, writing, writeOk, shutdowns>>
      /\ UNCHANGED <<items, nread, sent, readEnd, writeEnd, stream>>
      /\ UNCHANGED <<serverBye, cut>> /\ UnderWay' = UnderWay
  BY <1>1 DEF vars, opVars, queueVars, endVars, UnderWay
<1>3. ~OnLost
  <2>1. nread \in {0, 1}
    BY UsedFacts DEF KInv
  <2>2. phase = "reading" /\ ~UnderWay => Alive
    BY <2>1, UsedFacts DEF Untroubled, Alive
  <2>3. phase = "shutting" /\ ~serverBye => Alive
    BY UsedFacts DEF Untroubled, Alive
  <2> QED
    BY <2>2, <2>3 DEF OnLost, ServerLost, Untroubled
<1>4. CASE OnResolve \/ OnConnect \/ OnHandshaken \/ OnWritten
  BY <1>2, <1>4 DEF OnResolve, OnConnect, OnHandshaken, OnWritten, Goes,
                    Untroubled
<1>5. CASE OnResponse \/ OnClosed
  BY <1>2, <1>5 DEF OnResponse, OnClosed, Goes, Untroubled
<1> QED
  BY <1>3, <1>4, <1>5 DEF ClientHandlers

\* The session reads the request once its handshake is done, and the goodbye
\* behind it.
LEMMA HandshakenUntroubled ==
  ASSUME IInv, KInv, Untroubled, Handshaken, Served
  PROVE  Untroubled'
<1>1. HandshakeDone
  BY DEF Handshaken, ReadingFails, Untroubled
<1>2. /\ handshaking /\ handshaking' = FALSE
      /\ reads' = reads + 1 /\ readOk' = CanReceive
      /\ UNCHANGED <<ssl, writing, writeOk, shutdowns, items, nread, sent>>
      /\ UNCHANGED <<readEnd, writeEnd, stream>>
      /\ UNCHANGED <<phase, requested, clientBye, cut>>
      /\ UnderWay' = UnderWay
  BY <1>1 DEF HandshakeDone, DoRead, queueVars, endVars, Served, UnderWay
<1>3. reads' > 0
  BY <1>2, UsedFacts
<1>4. readOk'
  BY <1>2 DEF Untroubled, CanReceive
<1>5. serverBye' = serverBye
  BY <1>2 DEF Served, KInv, KTypeOK
<1> QED
  BY <1>2, <1>3, <1>4, <1>5 DEF Untroubled

LEMMA ReceivedUntroubled ==
  ASSUME IInv, IInv', KInv, Untroubled, Received, Served
  PROVE  Untroubled'
<1>1. CASE ReadRequest(Closes) /\ requested /\ nread = 0
  <2>1. /\ reads > 0 /\ nread' = 1
        /\ UNCHANGED <<ssl, handshaking, shutdowns, sent>>
        /\ UNCHANGED <<readEnd, writeEnd, stream>>
      /\ UNCHANGED <<phase, requested, clientBye, cut>>
    BY <1>1 DEF ReadRequest, endVars, Served
  <2>2. ~handshaking /\ writeEnd = "open" /\ ~serverBye
    BY <1>1, <2>1 DEF Untroubled, IInv, OneOperationPerDirection
  <2>3. serverBye' = serverBye
    BY <2>1 DEF Served, KInv, KTypeOK
  <2>4. writing' # {} /\ UnderWay'
    <3>1. items' # <<>>
      BY <1>1, UsedFacts DEF ReadRequest, Push
    <3>2. writing' = {Head(items')}
      BY <2>1, <2>2, <3>1 DEF IInv, Untroubled
    <3> QED
      BY <3>2 DEF UnderWay
  <2>5. readOk' /\ writeOk'
    <3>1. readOk' = readOk \/ readOk' = CanReceive
      BY <1>1 DEF ReadRequest, NoRead, DoRead
    <3>2. writeOk' = writeOk \/ writeOk' = CanSend
      BY <1>1 DEF ReadRequest, BeginWrite
    <3> QED
      BY <1>1, <3>1, <3>2 DEF Untroubled, CanReceive, CanSend
  <2> QED
    BY <1>1, <2>1, <2>2, <2>3, <2>4, <2>5 DEF Untroubled
<1>2. CASE ReadEof /\ clientBye /\ nread = 1
  <2>1. /\ reads > 0 /\ reads' = reads - 1 /\ UNCHANGED readOk
        /\ readEnd' = "eof"
        /\ UNCHANGED <<ssl, handshaking, writing, writeOk, items, nread, sent>>
        /\ UNCHANGED <<writeEnd, phase, requested, clientBye, cut>>
        /\ UnderWay' = UnderWay
        /\ stream' = IF stream = "open" THEN "shut" ELSE stream
        /\ serverBye' = (serverBye \/ stream' = "shut")
    BY <1>2 DEF ReadEof, NoRead, DoEof, SslDoEof, PlainDoEof, Served, UnderWay,
                queueVars
  <2>2. stream' = "shut" /\ serverBye'
    BY <2>1 DEF Untroubled
  <2> QED
    BY <1>2, <2>1, <2>2 DEF Untroubled
<1>3. ~(ReadError /\ ReadingFails)
  BY DEF ReadingFails, Untroubled
<1> QED
  BY <1>1, <1>2, <1>3 DEF Received

\* The response is written, and if it closes the connection its end follows.
LEMMA RespondedUntroubled ==
  ASSUME IInv, IInv', KInv, Untroubled, Responded, Served
  PROVE  Untroubled'
<1>1. PICK w \in writing : WriteClose(w) \/ WriteNext(w)
  BY DEF Responded, Untroubled
<1>2. /\ UNCHANGED <<handshaking, nread, readEnd, phase, requested, clientBye, cut>>
      /\ sent' = Append(sent, w)
  BY <1>1 DEF WriteClose, WriteNext, endVars, Served
<1>3. nread = 1 /\ UnderWay'
  BY <1>2, UsedFacts DEF Untroubled, UnderWay
<1>4. ~handshaking
  BY <1>3 DEF Untroubled
<1>5. CASE WriteClose(w)
  <2>1. /\ UNCHANGED <<reads, readOk, writeOk>> /\ writeEnd' = "closed"
        /\ stream' = IF stream = "open" THEN "shut" ELSE stream
        /\ serverBye' = (serverBye \/ stream' = "shut")
    BY <1>5 DEF WriteClose, DoEof, SslDoEof, PlainDoEof, Served
  <2>2. stream' = "shut" /\ serverBye'
    BY <2>1 DEF Untroubled
  <2> QED
    BY <1>2, <1>3, <1>4, <2>1, <2>2 DEF Untroubled
<1>6. CASE WriteNext(w)
  <2>1. UNCHANGED <<shutdowns, writeEnd, stream>>
    BY <1>6 DEF WriteNext, endVars
  <2>2. serverBye' = serverBye
    BY <2>1 DEF Served, Untroubled, KInv, KTypeOK
  <2>3. readOk' = readOk \/ readOk' = CanReceive
    BY <1>6 DEF WriteNext, DoRead
  <2>4. items' = <<>>
    <3>1. items # <<>> /\ items' = Tail(items) /\ writeEnd = "open"
      BY <1>6, UsedFacts DEF WriteNext
    <3>2. Len(sent) + Len(items) = 1
      BY <1>3, <3>1 DEF IInv, ResponsesInOrder, Written
    <3>3. Len(sent) \in Nat /\ Len(items) \in Nat /\ Len(items) > 0
      BY <3>1, UsedFacts
    <3>4. Len(items) = 1
      BY <3>2, <3>3
    <3> QED
      BY <3>1, <3>4, UsedFacts
  <2>5. writeOk'
    BY <1>6, <2>4 DEF WriteNext, StartsOnPop, Untroubled
  <2>6. readEnd' = "open" => reads' > 0
    BY <1>2, <1>4, <2>4, LimitAssumption DEF IInv, Backpressure
  <2> QED
    BY <1>2, <1>3, <1>4, <2>1, <2>2, <2>3, <2>5, <2>6
       DEF Untroubled, CanReceive
<1> QED
  BY <1>1, <1>5, <1>6

LEMMA ShutDownUntroubled ==
  ASSUME IInv, KInv, Untroubled, ShutDown, Served
  PROVE  Untroubled'
<1>1. /\ shutdowns > 0
      /\ UNCHANGED <<handshaking, reads, readOk, writing, writeOk, nread, sent>>
      /\ UNCHANGED <<readEnd, writeEnd, stream>>
      /\ UNCHANGED <<phase, requested, clientBye, cut>>
      /\ UnderWay' = UnderWay
  BY DEF ShutDown, OnShutdown, queueVars, endVars, Served, UnderWay
<1>2. serverBye' = serverBye
  BY <1>1 DEF Served, KInv, KTypeOK
<1>3. nread # 0
  BY <1>1 DEF Untroubled
<1> QED
  BY <1>1, <1>2, <1>3 DEF Untroubled

\* So it stays as long as there is no trouble.
LEMMA UntroubledInvariance == KSpec => [](~trouble => Untroubled)
<1>1. KInit => (~trouble => Untroubled)
  BY InitUntroubled
<1>2. /\ IInv /\ IInv' /\ KInv /\ KInv' /\ [KNext]_kvars
      /\ (~trouble => Untroubled)
      => (~trouble => Untroubled)'
  <2> SUFFICES ASSUME IInv, IInv', KInv, KInv', [KNext]_kvars, Untroubled,
                      ClientHandlers \/ SessionHandlers \/ UNCHANGED kvars
               PROVE  Untroubled'
    BY UntroubledSteps
  <2>1. CASE ClientHandlers
    BY <2>1, ClientUntroubled
  <2>2. CASE SessionHandlers
    BY <2>2, HandshakenUntroubled, ReceivedUntroubled, RespondedUntroubled,
       ShutDownUntroubled DEF SessionHandlers
  <2>3. CASE UNCHANGED kvars
    BY <2>3 DEF kvars, vars, opVars, queueVars, endVars, Untroubled, UnderWay
  <2> QED
    BY <2>1, <2>2, <2>3
<1> QED
  BY <1>1, <1>2, ClientInvariance, ClientSessionInvariance, PTL DEF KSpec

\* The repository's client asks for no WebSocket.
LEMMA NeverUpgraded == KSpec => [](readEnd # "upgraded")
<1>1. KInit => readEnd # "upgraded"
  BY DEF KInit, Init
<1>2. readEnd # "upgraded" /\ [KNext]_kvars => (readEnd # "upgraded")'
  <2> SUFFICES ASSUME readEnd # "upgraded", [KNext]_kvars, readEnd' # readEnd
               PROVE  readEnd' # "upgraded"
    OBVIOUS
  <2>1. HandshakeError \/ ReadEof \/ ReadError
    BY DEF KNext, ClientHandlers, OnResolve, OnConnect, OnHandshaken,
           OnWritten, OnResponse, OnClosed, OnLost, Goes, Fail,
           SessionHandlers, Handshaken, HandshakeDone, Received, ReadRequest,
           Responded, WriteClose, WriteNext, WriteError, ShutDown, OnShutdown,
           Expires, Timeout, Misfortune, Cut, Over, kvars, vars, endVars
  <2> QED
    BY <2>1 DEF HandshakeError, ReadEof, ReadError
<1> QED
  BY <1>1, <1>2, PTL DEF KSpec

\* What each side waits for is what the other does next.
LEMMA NoWaitingInCircles ==
  ASSUME IInv, KInv, ~trouble => Untroubled
  PROVE  NeitherWaitsForEver
<1> SUFFICES ASSUME MaxRequests > 0, Untroubled
             PROVE  (phase = "done" /\ ~Alive) \/ ClientMayGoOn \/ SessionMayGoOn
  BY DEF NeitherWaitsForEver
<1>1. nread = 0 \/ nread = 1
  BY UsedFacts DEF KInv
<1>2. stream # "released"
  BY DEF Untroubled
<1>3. phase \in Phases
  BY DEF KInv, KTypeOK
<1>4. CASE phase \in {"resolving", "connecting", "writing"}
  BY <1>4 DEF ClientMayGoOn
<1>5. CASE phase = "handshaking"
  BY <1>5 DEF ClientMayGoOn, CanReceive, Untroubled
<1>6. CASE phase = "reading"
  BY <1>1, <1>6 DEF ClientMayGoOn, SessionMayGoOn, Connected, Untroubled
<1>7. CASE phase = "shutting" \/ phase = "done"
  <2>1. clientBye /\ requested /\ Connected /\ nread = 1 /\ ~handshaking
    BY <1>1, <1>7 DEF Untroubled, Connected, KInv
  <2>2. CASE writing # {}
    BY <1>2, <2>1, <2>2 DEF SessionMayGoOn, Untroubled, DerefsReleased
  <2>3. CASE reads > 0 \/ shutdowns > 0
    BY <2>1, <2>3 DEF SessionMayGoOn, Untroubled
  <2>4. CASE writing = {} /\ ~(reads > 0) /\ ~(shutdowns > 0)
    BY <1>7, <2>1, <2>4 DEF Untroubled, Alive, ClientMayGoOn
  <2> QED
    BY <2>2, <2>3, <2>4
<1> QED
  BY <1>3, <1>4, <1>5, <1>6, <1>7, Zenon DEF Phases, Untroubled

\* A session that has ended leaves the client waiting for nothing.
LEMMA NothingStrandsTheClient ==
  ASSUME IInv, KInv, readEnd # "upgraded"
  PROVE  ClientNotStranded
<1>1. stream \in {"open", "shut", "closed"}
  BY DEF IInv, TypeOK
<1>2. phase \in Phases
  BY DEF KInv, KTypeOK
<1>3. CASE Gone \/ phase \in {"resolving", "connecting", "writing"}
  BY <1>3 DEF ClientNotStranded, ClientMayGoOn
<1>4. CASE phase \in {"handshaking", "reading", "shutting"}
  BY <1>1, <1>4 DEF ClientNotStranded, ClientMayGoOn, ServerLost, Connected,
                    CanReceive
<1> QED
  BY <1>2, <1>3, <1>4 DEF Phases, Gone

\* Without a misfortune, and with no deadline, neither the client nor the
\* session is ever left waiting for the other; and whatever goes wrong, as long
\* as the network carries the end of a connection, the client is never left
\* waiting for a session that no deadline ends.
THEOREM NobodyIsStranded == KSpec => []KIInv
<1>1. IInv /\ KInv /\ (~trouble => Untroubled) => NeitherWaitsForEver
  BY NoWaitingInCircles
<1>2. IInv /\ KInv /\ readEnd # "upgraded" => ClientNotStranded
  BY NothingStrandsTheClient
<1>3. /\ IInv /\ KInv /\ (~trouble => Untroubled) /\ readEnd # "upgraded"
      => KIInv
  BY <1>1, <1>2 DEF KIInv
<1> QED
  BY <1>3, ClientInvariance, ClientSessionInvariance, UntroubledInvariance,
     NeverUpgraded, PTL

-----------------------------------------------------------------------------
(* The two together take finitely many steps. *)

\* The operations the client has still before it, and the cut.
Before == [resolving |-> 6, connecting |-> 5, handshaking |-> 4, writing |-> 3,
           reading |-> 2, shutting |-> 1, done |-> 0, failed |-> 0]

Ahead == Before[phase] + (IF cut THEN 0 ELSE 1)

\* Every step of either side uses up some of what both have before them.
KEffort == Effort + Ahead

\* What it is, and never more than.
WithinKEffort == KEffort \in 0 .. 6 * MaxRequests + 11

\* The client's handlers follow each other in one direction, and leave the
\* session's effort to it.
LEMMA ClientEffort ==
  ASSUME ClientHandlers \/ (~Gone /\ Fail) \/ Cut, KInv
  PROVE  Effort' = Effort /\ Ahead' < Ahead
<1>1. UNCHANGED vars
  BY DEF ClientHandlers, OnResolve, OnConnect, OnHandshaken, OnWritten,
         OnResponse, OnClosed, OnLost, Goes, Fail, Cut
<1>2. Effort' = Effort
  BY <1>1 DEF vars, opVars, queueVars, endVars, Effort, Incoming, Outgoing,
              Expiring, CanReceive
<1>3. phase \in Phases
  BY DEF KInv, KTypeOK
<1>4. CASE OnResolve \/ OnConnect \/ OnHandshaken \/ OnWritten
  BY <1>2, <1>4 DEF OnResolve, OnConnect, OnHandshaken, OnWritten, Goes, Ahead,
                    Before
<1>5. CASE OnResponse \/ OnClosed
  BY <1>2, <1>5 DEF OnResponse, OnClosed, Goes, Ahead, Before
<1>6. CASE OnLost \/ (~Gone /\ Fail)
  <2>1. phase' = "failed" /\ phase # "failed" /\ phase # "done"
    BY <1>6 DEF OnLost, Gone, Fail
  <2> QED
    BY <1>2, <1>3, <1>6, <2>1 DEF OnLost, Fail, Phases, Ahead, Before
<1>7. CASE Cut
  BY <1>2, <1>3, <1>7 DEF Cut, Phases, Ahead, Before
<1> QED
  BY <1>2, <1>4, <1>5, <1>6, <1>7 DEF ClientHandlers

\* A session's step leaves the client where it is.
LEMMA ServerEffort ==
  ASSUME IInv, EffortType, EffortType', KNext, ~ClientHandlers,
         ~(~Gone /\ Fail), ~Cut, ~Over
  PROVE  Effort' < Effort /\ Ahead' = Ahead
<1>1. /\ phase' = phase /\ cut' = cut
      /\ SessionHandlers \/ Timeout \/ \E w \in writing : WriteError(w)
  BY DEF KNext, SessionHandlers, Expires, Misfortune, Served
<1>2. Next
  <2>1. CASE SessionHandlers
    <3>1. Closes \in BOOLEAN
      BY DEF Closes
    <3> QED
      BY <2>1, <3>1
         DEF SessionHandlers, Handshaken, Received, Responded, ShutDown, Next,
             OnHandshake, OnRead, OnWrite
  <2> QED
    BY <1>1, <2>1 DEF Next, OnWrite
<1> QED
  BY <1>1, <1>2, StepEffort DEF Ahead

\* A sum descends if one summand does and the other stays.
LEMMA SumsDescend ==
  \A a, b, c, d \in Nat :
    /\ a + b \in Nat
    /\ (c = a /\ d < b) \/ (c < a /\ d = b) => c + d < a + b
OBVIOUS

\* The client's run ends and the session with it after at most 6 n + 11 steps,
\* with n requests of which the client makes one: neither side begins again
\* what it has done, and nothing they do together goes round in circles.
THEOREM ClientTermination ==
  KSpec => []WithinKEffort /\ [][KEffort' < KEffort]_kvars
<1> DEFINE Measured == Effort \in Nat /\ Ahead \in 0 .. 7
<1>1. IInv /\ WithinBound => EffortType
  BY EffortTyped
<1>2. EffortType /\ KInv => Measured
  <2> SUFFICES ASSUME EffortType, KInv
               PROVE  Measured
    OBVIOUS
  <2>1. Ahead \in 0 .. 7
    BY DEF KInv, KTypeOK, Phases, Ahead, Before
  <2> QED
    BY <2>1, EffortNat
<1>3. KInit /\ Measured => WithinKEffort
  <2> SUFFICES ASSUME KInit, Measured
               PROVE  WithinKEffort
    OBVIOUS
  <2>1. Effort <= 6 * MaxRequests + 4
    BY InitEffort DEF KInit
  <2> QED
    BY <2>1, MaxRequestsAssumption DEF WithinKEffort, KEffort
<1>4. /\ IInv /\ KInv /\ EffortType /\ EffortType' /\ Measured /\ Measured'
      /\ [KNext]_kvars
      => [KEffort' < KEffort]_kvars
  <2> SUFFICES ASSUME IInv, KInv, EffortType, EffortType', Measured, Measured',
                      KNext, ~UNCHANGED kvars
               PROVE  KEffort' < KEffort
    OBVIOUS
  <2>1. ~Over
    BY DEF Over
  <2>2. \/ Effort' = Effort /\ Ahead' < Ahead
        \/ Effort' < Effort /\ Ahead' = Ahead
    BY <2>1, ClientEffort, ServerEffort
  <2>3. /\ Effort \in Nat /\ Effort' \in Nat
        /\ Ahead \in Nat /\ Ahead' \in Nat
    OBVIOUS
  <2>4. KEffort' = Effort' + Ahead' /\ KEffort = Effort + Ahead
    BY DEF KEffort
  <2> QED
    BY <2>2, <2>3, <2>4, SumsDescend
<1>5. /\ Measured /\ Measured' /\ WithinKEffort /\ [KEffort' < KEffort]_kvars
      => WithinKEffort'
  <2> SUFFICES ASSUME Measured, Measured', WithinKEffort,
                      [KEffort' < KEffort]_kvars
               PROVE  WithinKEffort'
    OBVIOUS
  <2>1. KEffort' = KEffort \/ KEffort' < KEffort
    BY DEF kvars, vars, opVars, queueVars, endVars, KEffort, Effort, Incoming,
           Outgoing, Expiring, CanReceive, Ahead
  <2>2. Effort' \in Nat /\ Ahead' \in Nat
    OBVIOUS
  <2>3. KEffort' = Effort' + Ahead'
    BY DEF KEffort
  <2>4. KEffort' \in Nat
    BY <2>2, <2>3, SumsDescend
  <2> QED
    BY <2>1, <2>4, MaxRequestsAssumption DEF WithinKEffort
<1> HIDE DEF Measured
<1> QED
  BY <1>1, <1>2, <1>3, <1>4, <1>5, ClientInvariance, ClientSessionInvariance,
     ClientUsesSession, ReadsWhatIsSent, PTL DEF KSpec

\* Shutdowns of this client's sessions overlap only for HTTP 1.0.
THEOREM OverlapOfShutdowns == KSpec => []ShutdownsOverlap
<1>1. IInv /\ KInv => ShutdownsOverlap
  BY UsedFacts DEF KInv, KTypeOK, ShutdownsOverlap, Closes
<1> QED
  BY <1>1, ClientSessionInvariance, ClientInvariance, PTL

\* A session does not close gracefully instead of responding.
THEOREM GoodbyeBehindResponse == KSpec => NoGoodbyeInstead
<1>1. KInv /\ IInv /\ [KNext]_kvars => [serverBye' # serverBye => UnderWay']_kvars
  <2> SUFFICES ASSUME KInv, IInv, [KNext]_kvars, serverBye' # serverBye
               PROVE  UnderWay'
    OBVIOUS
  <2>1. Served /\ (SessionHandlers \/ Expires \/ Misfortune)
    BY DEF KNext, ClientHandlers, OnResolve, OnConnect, OnHandshaken,
           OnWritten, OnResponse, OnClosed, OnLost, Goes, Fail,
           SessionHandlers, Expires, Misfortune, Cut, Over, kvars
  <2>2. stream # "shut" /\ stream' = "shut"
    BY <2>1 DEF Served, KInv, KTypeOK
  <2>3. (\E w \in writing : WriteClose(w)) \/ (ReadEof /\ clientBye)
    BY <2>1, <2>2
       DEF SessionHandlers, Handshaken, HandshakeDone, HandshakeError,
           Received, ReadRequest, ReadError, Responded, WriteNext, WriteError,
           ShutDown, OnShutdown, Expires, Timeout, Misfortune, Fail, endVars,
           vars
  <2>4. CASE \E w \in writing : WriteClose(w)
    <3>1. PICK w \in writing : sent' = Append(sent, w)
      BY <2>4 DEF WriteClose
    <3> QED
      BY <3>1, UsedFacts DEF UnderWay
  <2>5. CASE ReadEof /\ clientBye
    <3>1. stream = "open" /\ writing' = writing /\ sent' = sent
      BY <2>2, <2>5 DEF ReadEof, DoEof, SslDoEof, PlainDoEof, queueVars
    <3> QED
      BY <2>5, <3>1 DEF KInv, UnderWay
  <2> QED
    BY <2>3, <2>4, <2>5
<1> QED
  BY <1>1, ClientInvariance, ClientSessionInvariance, PTL
     DEF KSpec, NoGoodbyeInstead

=============================================================================
