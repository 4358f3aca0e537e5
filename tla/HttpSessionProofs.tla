-------------------------- MODULE HttpSessionProofs --------------------------
(***************************************************************************)
(* Theorems about HttpSession, for every queue limit, every number of      *)
(* requests and both kinds of stream.                                      *)
(***************************************************************************)
EXTENDS HttpSession, SequenceTheorems, TLAPS

(* Facts about the queue operations. *)

\* Pushing a work item keeps the queue well formed, puts it last and makes
\* it the front exactly when it is alone.
LEMMA PushFacts ==
  ASSUME NEW q \in Seq(Work), NEW w \in Work
  PROVE  /\ Push(q, w) \in Seq(Work)
         /\ Len(Push(q, w)) = Len(q) + 1
         /\ Push(q, w) # <<>>
         /\ \A i \in 1..Len(q) : Push(q, w)[i] = q[i]
         /\ Push(q, w)[Len(q) + 1] = w
         /\ Head(Push(q, w)) = IF q = <<>> THEN w ELSE Head(q)
         /\ StartsOnPush(Push(q, w)) <=> q = <<>>
BY DEF Push, StartsOnPush

\* Popping the front keeps the rest of the queue, shifted by one.
LEMMA PopFacts ==
  ASSUME NEW q \in Seq(Work), q # <<>>
  PROVE  /\ Tail(q) \in Seq(Work)
         /\ Len(q) \in Nat \ {0}
         /\ Len(Tail(q)) = Len(q) - 1
         /\ \A i \in 1..Len(Tail(q)) : Tail(q)[i] = q[i + 1]
         /\ Head(q) = q[1]
         /\ Head(q) \in Work
         /\ Tail(q) # <<>> => Head(Tail(q)) = q[2] /\ Head(Tail(q)) \in Work
BY HeadTailProperties, EmptySeq, LenProperties

\* The numbers of a queue from which the front was written and dropped.
LEMMA PopArithmetic ==
  ASSUME NEW s \in Nat, NEW n \in Nat, NEW i \in Nat, NEW q, q = i - 1,
         s + i = n
  PROVE  s + 1 + q = n + 0
OBVIOUS

\* The numbers of a queue whose front was written and stays.
LEMMA StayArithmetic ==
  ASSUME NEW s \in Nat, NEW n \in Nat, NEW i \in Nat, s + i = n
  PROVE  s + 1 + i = n + 1
OBVIOUS

-----------------------------------------------------------------------------
(* The inductive invariant, one lemma for each action. *)

\* A session is launched in a state that satisfies the invariant.
LEMMA InitIInv == Init => IInv
BY LimitAssumption
   DEF Init, IInv, TypeOK, Work, OneOperationPerDirection, Backpressure,
       ResponsesInOrder, Written, PlainRun, SslRun, Alive

\* A failed handshake leaves no operation behind and an empty queue.
LEMMA HandshakeErrorIInv ==
  ASSUME IInv, HandshakeError
  PROVE  IInv'
<1>1. items = <<>> /\ Len(items) < Limit
  BY LimitAssumption DEF HandshakeError, IInv
<1> QED
  BY <1>1
     DEF IInv, TypeOK, OneOperationPerDirection, Backpressure, ResponsesInOrder,
         Written, Alive, HandshakeError, queueVars, endVars

\* A handshake that succeeds is followed by the first read.
LEMMA HandshakeDoneIInv ==
  ASSUME IInv, HandshakeDone
  PROVE  IInv'
<1> USE LimitAssumption DEF HandshakeDone, queueVars, endVars
<1>1. /\ reads = 0 /\ items = <<>> /\ readEnd = "open"
  BY DEF IInv, OneOperationPerDirection
<1>2. /\ reads' = 1 /\ handshaking' = FALSE
      /\ readOk' \in BOOLEAN
  BY <1>1 DEF DoRead, CanReceive
<1>3. /\ items' = items /\ nread' = nread /\ sent' = sent /\ writing' = writing
      /\ writeOk' = writeOk /\ shutdowns' = shutdowns /\ ssl' = ssl
      /\ readEnd' = readEnd /\ writeEnd' = writeEnd /\ stream' = stream
  OBVIOUS
<1>4. TypeOK'
  BY <1>2, <1>3 DEF IInv, TypeOK
<1>5. OneOperationPerDirection'
  BY <1>2, <1>3 DEF IInv, OneOperationPerDirection
<1>6. Backpressure'
  BY <1>1, <1>2, <1>3 DEF Backpressure
<1>7. ResponsesInOrder'
  BY <1>3 DEF IInv, ResponsesInOrder, Written
<1>8. stream # "crashed"
  BY <1>1 DEF IInv
<1>9. QED
  BY <1>1, <1>2, <1>3, <1>4, <1>5, <1>6, <1>7, <1>8 DEF IInv

\* The end of the peer's stream stops the reading side only.
LEMMA ReadEofIInv ==
  ASSUME IInv, ReadEof
  PROVE  IInv'
BY LimitAssumption
   DEF IInv, TypeOK, OneOperationPerDirection, Backpressure, ResponsesInOrder,
       Written, Alive, ReadEof, NoRead, DoEof, PlainDoEof, SslDoEof, queueVars, endVars

\* A read error stops the reading side only.
LEMMA ReadErrorIInv ==
  ASSUME IInv, ReadError
  PROVE  IInv'
BY LimitAssumption
   DEF IInv, TypeOK, OneOperationPerDirection, Backpressure, ResponsesInOrder,
       Written, Alive, ReadError, NoRead, queueVars, endVars

\* An upgrade ends the reading side, with room left in the queue.
LEMMA ReadUpgradeIInv ==
  ASSUME IInv, ReadUpgrade
  PROVE  IInv'
BY LimitAssumption
   DEF IInv, TypeOK, OneOperationPerDirection, Backpressure, ResponsesInOrder,
       Written, Alive, ReadUpgrade, NoRead, queueVars, endVars

\* A request that is read leaves one response more in the queue, which is
\* started exactly if no other is before it.
LEMMA ReadRequestIInv ==
  ASSUME IInv, NEW close \in BOOLEAN, ReadRequest(close)
  PROVE  IInv'
<1> DEFINE w == [req |-> nread + 1, close |-> close]
           q == Push(items, w)
<1>1. w \in Work /\ items \in Seq(Work) /\ nread \in Nat
  BY DEF IInv, TypeOK, Work
<1>2. /\ q \in Seq(Work)
      /\ Len(q) = Len(items) + 1
      /\ q # <<>>
      /\ \A i \in 1..Len(items) : q[i] = items[i]
      /\ q[Len(items) + 1] = w
      /\ Head(q) = IF items = <<>> THEN w ELSE Head(items)
      /\ StartsOnPush(q) <=> items = <<>>
  BY <1>1, PushFacts
<1> HIDE DEF q, w
<1>3. /\ reads = 1 /\ handshaking = FALSE /\ readEnd = "open"
      /\ Len(items) \in Nat /\ Len(items) < Limit
      /\ stream \notin {"released", "crashed"}
  BY <1>1 DEF ReadRequest, IInv, TypeOK, OneOperationPerDirection, Backpressure
<1>4. /\ nread' = nread + 1 /\ items' = q /\ sent' = sent
      /\ handshaking' = handshaking /\ shutdowns' = shutdowns /\ ssl' = ssl
      /\ readEnd' = readEnd /\ writeEnd' = writeEnd /\ stream' = stream
  BY DEF ReadRequest, endVars, q, w
<1>5. /\ items = <<>> => writing' = writing \cup {w} /\ writeOk' \in BOOLEAN
      /\ items # <<>> => writing' = writing /\ writeOk' = writeOk
  BY <1>2 DEF ReadRequest, BeginWrite, CanSend, q, w
<1>6. /\ IsFull(q) => NoRead
      /\ ~IsFull(q) => DoRead(reads - 1)
  BY DEF ReadRequest, q, w
<1>7. /\ reads' = IF Len(items) + 1 >= Limit THEN 0 ELSE 1
      /\ readOk' \in BOOLEAN
  <2>1. readOk \in BOOLEAN /\ CanReceive \in BOOLEAN
    BY DEF IInv, TypeOK, CanReceive
  <2>2. CASE IsFull(q)
    BY <2>1, <2>2, <1>2, <1>3, <1>6, LimitAssumption DEF IsFull, NoRead
  <2>3. CASE ~IsFull(q)
    BY <2>1, <2>3, <1>2, <1>3, <1>6, LimitAssumption DEF IsFull, DoRead
  <2> QED
    BY <2>2, <2>3
<1>8. Written' = Written
  BY <1>4 DEF Written
<1>9. TypeOK'
  <2>1. writing' \in SUBSET Work /\ writeOk' \in BOOLEAN
    BY <1>1, <1>5 DEF IInv, TypeOK
  <2>2. reads' \in Nat
    BY <1>7
  <2>3. nread' \in Nat
    BY <1>1, <1>4
  <2> QED
    BY <2>1, <2>2, <2>3, <1>2, <1>4, <1>7 DEF IInv, TypeOK
<1>10. items = <<>> => writing = {}
  <2>1. SUFFICES ASSUME items = <<>>, NEW u \in writing PROVE FALSE
    OBVIOUS
  <2> QED
    BY <2>1 DEF IInv, OneOperationPerDirection
<1>11. \A u \in writing' : u = Head(items')
  BY <1>2, <1>4, <1>5, <1>10 DEF IInv, OneOperationPerDirection
<1>12. OneOperationPerDirection'
  BY <1>2, <1>3, <1>4, <1>7, <1>11, LimitAssumption DEF OneOperationPerDirection
<1>13. Backpressure'
  BY <1>2, <1>3, <1>4, <1>7, LimitAssumption DEF Backpressure
<1>14. ResponsesInOrder'
  <2>1. /\ Len(sent) \in Nat /\ Written \in Nat
        /\ Len(sent) + Len(items) = nread + Written
    BY DEF IInv, TypeOK, Written, ResponsesInOrder
  <2>2. Len(sent') + Len(items') = nread' + Written'
    BY <2>1, <1>1, <1>2, <1>3, <1>4, <1>8
  <2>3. \A i \in DOMAIN sent' :
          /\ sent'[i].req = i
          /\ sent'[i].close => i = Len(sent') /\ writeEnd' # "open"
    BY <1>4 DEF IInv, ResponsesInOrder
  <2>4. nread + 1 = Len(sent) - Written + (Len(items) + 1)
    BY <2>1, <1>1, <1>3
  <2>5. \A i \in 1..Len(items) : q[i].req = Len(sent) - Written + i
    BY <1>1, <1>2 DEF IInv, ResponsesInOrder
  <2>6. q[Len(items) + 1].req = nread + 1
    BY <1>2 DEF w
  <2>7. \A i \in DOMAIN q : i \in 1..Len(items) \/ i = Len(items) + 1
    BY <1>2, <1>3
  <2>8. \A i \in DOMAIN q : q[i].req = Len(sent) - Written + i
    BY <2>4, <2>5, <2>6, <2>7
  <2> QED
    BY <2>2, <2>3, <2>8, <1>4, <1>8 DEF ResponsesInOrder
<1>15. ASSUME writeEnd = "open"
       PROVE  writing' = {Head(items')}
  <2>1. CASE items = <<>>
    BY <2>1, <1>2, <1>4, <1>5, <1>10
  <2>2. CASE items # <<>>
    BY <2>2, <1>2, <1>3, <1>4, <1>5, <1>15 DEF IInv
  <2> QED
    BY <2>1, <2>2
<1>16. ASSUME writeEnd # "open"
       PROVE  writing' = {} /\ items' # <<>>
  BY <1>2, <1>4, <1>5, <1>16 DEF IInv
<1> QED
  BY <1>3, <1>4, <1>9, <1>12, <1>13, <1>14, <1>15, <1>16 DEF IInv

\* A failed write ends the writing side and leaves the queue as it is.
LEMMA WriteErrorIInv ==
  ASSUME IInv, NEW w \in writing, WriteError(w)
  PROVE  IInv'
BY LimitAssumption
   DEF IInv, TypeOK, OneOperationPerDirection, Backpressure, ResponsesInOrder,
       Written, Alive, WriteError, queueVars, endVars

\* While a write is outstanding it is that of the front of a queue which no
\* closing response has stopped.
LEMMA WriterFacts ==
  ASSUME IInv, NEW w \in writing
  PROVE  /\ items \in Seq(Work) /\ items # <<>> /\ w = Head(items)
         /\ w = items[1] /\ w \in Work
         /\ writeEnd = "open" /\ Written = 0
         /\ stream # "crashed"
         /\ writing = {w}
         /\ sent \in Seq(Work)
         /\ w.req = Len(sent) + 1
<1>1. items \in Seq(Work) /\ items # <<>> /\ w = Head(items) /\ sent \in Seq(Work)
  BY DEF IInv, TypeOK, OneOperationPerDirection
<1>2. w = items[1] /\ w \in Work /\ 1 \in DOMAIN items /\ Len(sent) \in Nat
  BY <1>1, PopFacts, LenProperties
<1>3. writeEnd = "open" /\ stream # "crashed"
  BY DEF IInv, Alive
<1>4. Written = 0
  BY <1>3 DEF Written
<1>5. writing = {w}
  BY <1>1, <1>3 DEF IInv
<1>6. w.req = Len(sent) + 1
  BY <1>2, <1>4 DEF IInv, ResponsesInOrder
<1> QED
  BY <1>1, <1>2, <1>3, <1>4, <1>5, <1>6

\* Writing the response in front extends the history of written responses by
\* the next one in turn.
LEMMA SentFacts ==
  ASSUME IInv, NEW w \in writing, sent' = Append(sent, w),
         w.close => writeEnd' # "open"
  PROVE  /\ sent' \in Seq(Work)
         /\ Len(sent') = Len(sent) + 1
         /\ \A i \in DOMAIN sent' :
              /\ sent'[i].req = i
              /\ sent'[i].close => i = Len(sent') /\ writeEnd' # "open"
<1>1. /\ w \in Work /\ sent \in Seq(Work) /\ w.req = Len(sent) + 1
      /\ writeEnd = "open"
  BY WriterFacts
<1>2. /\ sent' \in Seq(Work)
      /\ Len(sent) \in Nat
      /\ Len(sent') = Len(sent) + 1
      /\ \A i \in 1..Len(sent) : sent'[i] = sent[i]
      /\ sent'[Len(sent) + 1] = w
  BY <1>1
<1>3. \A i \in DOMAIN sent' : i \in 1..Len(sent) \/ i = Len(sent) + 1
  BY <1>2
<1>4. \A i \in 1..Len(sent) : sent[i].req = i /\ ~sent[i].close
  BY <1>1, <1>2 DEF IInv, ResponsesInOrder
<1>5. ASSUME NEW i \in DOMAIN sent'
      PROVE  /\ sent'[i].req = i
             /\ sent'[i].close => i = Len(sent') /\ writeEnd' # "open"
  BY <1>1, <1>2, <1>3, <1>4
<1> QED
  BY <1>2, <1>5

\* After the closing response nothing is written; the response stays in
\* front of the queue.
LEMMA WriteCloseIInv ==
  ASSUME IInv, NEW w \in writing, WriteClose(w)
  PROVE  IInv'
<1>1. /\ items # <<>> /\ writing = {w} /\ Written = 0 /\ sent \in Seq(Work)
      /\ items \in Seq(Work) /\ stream # "crashed"
  BY WriterFacts
<1>2. /\ writing' = {} /\ writeEnd' = "closed" /\ sent' = Append(sent, w)
      /\ w.close /\ items' = items /\ nread' = nread /\ reads' = reads
      /\ readOk' = readOk /\ writeOk' = writeOk /\ readEnd' = readEnd
      /\ handshaking' = handshaking /\ ssl' = ssl
  BY <1>1 DEF WriteClose
<1>3. /\ stream' \in {"open", "shut", "closed", "released", "crashed"}
      /\ shutdowns' \in Nat
      /\ stream' \in {"released", "crashed"} => stream' = stream
  BY DEF WriteClose, DoEof, PlainDoEof, SslDoEof, IInv, TypeOK
<1>4. /\ sent' \in Seq(Work)
      /\ Len(sent') = Len(sent) + 1
      /\ \A i \in DOMAIN sent' :
           /\ sent'[i].req = i
           /\ sent'[i].close => i = Len(sent') /\ writeEnd' # "open"
  BY <1>2, SentFacts
<1>5. TypeOK'
  BY <1>2, <1>3, <1>4 DEF IInv, TypeOK
<1>6. OneOperationPerDirection' /\ Backpressure'
  BY <1>2 DEF IInv, OneOperationPerDirection, Backpressure
<1>7. ResponsesInOrder'
  <2>1. /\ Len(sent) \in Nat /\ Len(items) \in Nat /\ nread \in Nat
        /\ Len(sent) + Len(items) = nread
        /\ \A i \in DOMAIN items : items[i].req = Len(sent) + i
        /\ DOMAIN items = 1..Len(items)
    BY <1>1 DEF IInv, TypeOK, ResponsesInOrder
  <2>2. Written' = 1
    BY <1>2 DEF Written
  <2>3. Len(sent') + Len(items') = nread' + Written'
    BY <2>1, <2>2, <1>2, <1>4
  <2>4. \A i \in DOMAIN items : items[i].req = Len(sent) + 1 - 1 + i
    BY <2>1
  <2>5. \A i \in DOMAIN items' : items'[i].req = Len(sent') - Written' + i
    BY <2>2, <2>4, <1>2, <1>4
  <2> QED
    BY <2>3, <2>5, <1>4 DEF ResponsesInOrder
<1> QED
  BY <1>1, <1>2, <1>3, <1>5, <1>6, <1>7 DEF IInv

\* Dropping the front of the queue starts the next response and resumes the
\* reading exactly if the queue was full.
LEMMA WriteNextIInv ==
  ASSUME IInv, NEW w \in writing, WriteNext(w)
  PROVE  IInv'
<1> DEFINE q == Tail(items)
<1>1. /\ items # <<>> /\ writing = {w} /\ Written = 0 /\ sent \in Seq(Work)
      /\ items \in Seq(Work) /\ stream # "crashed" /\ writeEnd = "open"
  BY WriterFacts
<1>2. /\ q \in Seq(Work)
      /\ Len(items) \in Nat \ {0} /\ Len(q) = Len(items) - 1
      /\ \A i \in 1..Len(q) : q[i] = items[i + 1]
      /\ q # <<>> => Head(q) \in Work
      /\ DOMAIN q = 1..Len(q)
  BY <1>1, PopFacts
<1>3. /\ items' = q /\ sent' = Append(sent, w) /\ ~w.close
      /\ nread' = nread /\ handshaking' = handshaking
      /\ shutdowns' = shutdowns /\ readEnd' = readEnd
      /\ writeEnd' = writeEnd /\ stream' = stream /\ ssl' = ssl
      /\ WasFull(items) => DoRead(reads)
      /\ ~WasFull(items) => UNCHANGED <<reads, readOk>>
      /\ StartsOnPop(q) => BeginWrite(writing \ {w}, Head(q))
      /\ ~StartsOnPop(q) => writing' = writing \ {w} /\ UNCHANGED writeOk
  BY DEF WriteNext, endVars
<1> HIDE DEF q
<1>4. /\ writing' = IF q # <<>> THEN {Head(q)} ELSE {}
      /\ writeOk' \in BOOLEAN
  <2>1. CanSend \in BOOLEAN /\ writeOk \in BOOLEAN
    BY DEF CanSend, IInv, TypeOK
  <2>2. CASE q # <<>>
    BY <2>1, <2>2, <1>1, <1>3 DEF StartsOnPop, BeginWrite
  <2>3. CASE q = <<>>
    BY <2>1, <2>3, <1>1, <1>3 DEF StartsOnPop
  <2> QED
    BY <2>2, <2>3
<1>5. handshaking = FALSE
  BY <1>1 DEF IInv, TypeOK
<1>6. Len(items) <= Limit /\ reads \in Nat /\ Limit \in Nat \ {0}
  BY LimitAssumption DEF IInv, TypeOK, Backpressure
<1>7. /\ reads' \in Nat /\ reads' <= 1
      /\ readOk' \in BOOLEAN
      /\ readEnd = "open" => reads' = 1
      /\ readEnd # "open" => reads' = 0
  <2>1. readOk \in BOOLEAN /\ CanReceive \in BOOLEAN
    BY DEF IInv, TypeOK, CanReceive
  <2>2. CASE WasFull(items)
    <3>1. reads = 0 /\ readEnd = "open"
      BY <2>2, <1>2, <1>5, <1>6 DEF WasFull, IsFull, IInv, Backpressure
    <3> QED
      BY <2>1, <2>2, <3>1, <1>3 DEF DoRead
  <2>3. CASE ~WasFull(items)
    <3>1. Len(items) < Limit
      BY <2>3, <1>2, <1>6 DEF WasFull, IsFull
    <3>2. readEnd = "open" => reads > 0
      BY <3>1, <1>5 DEF IInv, Backpressure
    <3>3. readEnd # "open" => reads = 0
      BY DEF IInv
    <3>4. reads <= 1
      BY DEF IInv, OneOperationPerDirection
    <3> QED
      BY <2>1, <2>3, <3>2, <3>3, <3>4, <1>3, <1>6
  <2> QED
    BY <2>2, <2>3
<1>8. /\ sent' \in Seq(Work)
      /\ Len(sent') = Len(sent) + 1
      /\ \A i \in DOMAIN sent' :
           /\ sent'[i].req = i
           /\ sent'[i].close => i = Len(sent') /\ writeEnd' # "open"
  BY <1>3, SentFacts
<1>9. TypeOK'
  <2>1. writing' \in SUBSET Work
    BY <1>2, <1>4
  <2> QED
    BY <2>1, <1>2, <1>3, <1>4, <1>7, <1>8 DEF IInv, TypeOK
<1>10. OneOperationPerDirection'
  BY <1>3, <1>4, <1>5, <1>7 DEF OneOperationPerDirection
<1>11. Len(items') < Limit
  BY <1>2, <1>3, <1>6
<1>12. Backpressure'
  <2>1. Len(items') <= Limit
    BY <1>2, <1>3, <1>6
  <2> QED
    BY <2>1, <1>3, <1>7, <1>11 DEF Backpressure
<1>13. ResponsesInOrder'
  <2>1. /\ Len(sent) \in Nat /\ nread \in Nat
        /\ Len(sent) + Len(items) = nread
        /\ \A i \in 1..Len(items) : items[i].req = Len(sent) + i
        /\ DOMAIN items = 1..Len(items)
    BY <1>1 DEF IInv, TypeOK, ResponsesInOrder
  <2>2. Written' = 0
    BY <1>1, <1>3 DEF Written
  <2>3. Len(sent') = Len(sent) + 1 /\ items' = q /\ nread' = nread
    BY <1>3, <1>8
  <2>4. Len(sent) + 1 + Len(q) = nread + 0
    BY <2>1, <1>2, PopArithmetic
  <2>5. \A i \in 1..Len(q) : q[i].req = Len(sent) + 1 - 0 + i
    BY <2>1, <1>2
  <2>6. Len(sent') + Len(items') = nread' + Written'
    BY <2>2, <2>3, <2>4
  <2>7. \A i \in DOMAIN items' : items'[i].req = Len(sent') - Written' + i
    BY <2>2, <2>3, <2>5, <1>2
  <2> QED
    BY <2>6, <2>7, <1>8 DEF ResponsesInOrder
<1> QED
  BY <1>1, <1>3, <1>4, <1>5, <1>7, <1>9, <1>10, <1>11, <1>12, <1>13 DEF IInv

\* A null dereference ends everything the session had outstanding.
LEMMA WriteBreaksOffIInv ==
  ASSUME IInv, NEW w \in writing, WriteBreaksOff(w)
  PROVE  IInv'
<1>1. writeEnd = "open" /\ readEnd = "upgraded" /\ handshaking = FALSE
  BY WriterFacts DEF WriteBreaksOff, IInv, TypeOK
<1> QED
  BY <1>1, LimitAssumption
     DEF IInv, TypeOK, OneOperationPerDirection, Backpressure, ResponsesInOrder,
         Written, Alive, WriteBreaksOff, Crash

\* And so does the one in on_write.
LEMMA WriteCrashIInv ==
  ASSUME IInv, NEW w \in writing, WriteCrash(w)
  PROVE  IInv'
<1>1. /\ items # <<>> /\ writing = {w} /\ Written = 0 /\ sent \in Seq(Work)
      /\ items \in Seq(Work) /\ writeEnd = "open"
  BY WriterFacts
<1>2. /\ sent' = Append(sent, w) /\ nread' = nread
      /\ stream' = "crashed" /\ reads' = 0 /\ writing' = {} /\ shutdowns' = 0
      /\ handshaking' = handshaking /\ readOk' = readOk /\ writeOk' = writeOk
      /\ readEnd' = readEnd /\ ssl' = ssl
  BY DEF WriteCrash, Crash
<1>3. /\ w.close => writeEnd' = "closed" /\ items' = items
      /\ ~w.close => writeEnd' = writeEnd /\ items' = Tail(items)
  BY DEF WriteCrash
<1>4. readEnd = "upgraded" /\ handshaking = FALSE
  BY <1>1 DEF WriteCrash, DerefsReleased, IInv, TypeOK
<1>5. /\ Tail(items) \in Seq(Work)
      /\ Len(items) \in Nat \ {0} /\ Len(Tail(items)) = Len(items) - 1
      /\ \A i \in 1..Len(Tail(items)) : Tail(items)[i] = items[i + 1]
  BY <1>1, PopFacts
<1>6. /\ sent' \in Seq(Work)
      /\ Len(sent') = Len(sent) + 1
      /\ \A i \in DOMAIN sent' :
           /\ sent'[i].req = i
           /\ sent'[i].close => i = Len(sent') /\ writeEnd' # "open"
  BY <1>2, <1>3, SentFacts
<1>7. /\ items' \in Seq(Work)
      /\ Len(items') <= Len(items)
      /\ writeEnd' \in {"open", "closed"}
      /\ writeEnd' # "open" => items' # <<>>
  BY <1>1, <1>3, <1>5, PopFacts
<1>8. TypeOK'
  BY <1>2, <1>6, <1>7 DEF IInv, TypeOK
<1>9. Len(items) < Limit /\ Limit \in Nat
  BY <1>4, LimitAssumption DEF IInv
<1>10. Len(items') \in Nat
  BY <1>7, LenProperties
<1>11. Len(items') < Limit
  BY <1>5, <1>7, <1>9, <1>10
<1>12. OneOperationPerDirection' /\ Backpressure'
  BY <1>2, <1>4, <1>9, <1>10, <1>11 DEF OneOperationPerDirection, Backpressure
<1>13. ResponsesInOrder'
  <2>1. /\ Len(sent) \in Nat /\ nread \in Nat
        /\ Len(sent) + Len(items) = nread
        /\ \A i \in 1..Len(items) : items[i].req = Len(sent) + i
        /\ DOMAIN items = 1..Len(items)
    BY <1>1 DEF IInv, TypeOK, ResponsesInOrder
  <2>2. Len(sent') = Len(sent) + 1 /\ nread' = nread
    BY <1>2, <1>6
  <2>3. CASE w.close
    <3>1. Written' = 1 /\ items' = items
      BY <2>3, <1>3 DEF Written
    <3>2. \A i \in 1..Len(items) : items[i].req = Len(sent) + 1 - 1 + i
      BY <2>1
    <3>3. Len(sent) + 1 + Len(items) = nread + 1
      BY <2>1, <1>5, StayArithmetic
    <3>4. Len(sent') + Len(items') = nread' + Written'
      BY <2>2, <3>1, <3>3
    <3>5. \A i \in DOMAIN items' : items'[i].req = Len(sent') - Written' + i
      BY <2>1, <2>2, <3>1, <3>2
    <3> QED
      BY <3>4, <3>5, <1>6 DEF ResponsesInOrder
  <2>4. CASE ~w.close
    <3>1. Written' = 0 /\ items' = Tail(items)
      BY <2>4, <1>1, <1>3 DEF Written
    <3>2. \A i \in 1..Len(Tail(items)) :
            Tail(items)[i].req = Len(sent) + 1 - 0 + i
      BY <2>1, <1>5
    <3>3. Len(sent) + 1 + Len(Tail(items)) = nread + 0
      BY <2>1, <1>5, PopArithmetic
    <3>4. DOMAIN Tail(items) = 1..Len(Tail(items))
      BY <1>5
    <3>5. Len(sent') + Len(items') = nread' + Written'
      BY <2>2, <3>1, <3>3
    <3>6. \A i \in DOMAIN items' : items'[i].req = Len(sent') - Written' + i
      BY <2>2, <3>1, <3>2, <3>4
    <3> QED
      BY <3>5, <3>6, <1>6 DEF ResponsesInOrder
  <2> QED
    BY <2>3, <2>4
<1>14. ~Alive'
  BY <1>2, <1>4 DEF Alive
<1> QED
  BY <1>2, <1>4, <1>7, <1>8, <1>11, <1>12, <1>13, <1>14 DEF IInv

\* The end of a TLS shutdown leaves everything else as it is.
LEMMA OnShutdownIInv ==
  ASSUME IInv, OnShutdown
  PROVE  IInv'
BY LimitAssumption
   DEF IInv, TypeOK, OneOperationPerDirection, Backpressure, ResponsesInOrder,
       Written, Alive, OnShutdown, queueVars, endVars

\* A deadline changes what the outstanding operations can still do, never
\* which of them are outstanding.
LEMMA TimeoutIInv ==
  ASSUME IInv, Timeout
  PROVE  IInv'
BY LimitAssumption
   DEF IInv, TypeOK, OneOperationPerDirection, Backpressure, ResponsesInOrder,
       Written, Alive, Timeout, CanReceive, queueVars, endVars

-----------------------------------------------------------------------------
(* The theorems. *)

\* IInv is inductive: it holds in every reachable state of a session.
THEOREM Invariance == Spec => []IInv
<1>1. Init => IInv
  BY InitIInv
<1>2. IInv /\ [Next]_vars => IInv'
  <2> SUFFICES ASSUME IInv, [Next]_vars PROVE IInv'
    OBVIOUS
  <2>1. CASE OnHandshake
    BY <2>1, HandshakeErrorIInv, HandshakeDoneIInv DEF OnHandshake
  <2>2. CASE OnRead
    <3>1. ASSUME NEW close \in BOOLEAN, ReadRequest(close) PROVE IInv'
      BY <3>1, ReadRequestIInv
    <3> QED
      BY <2>2, <3>1, ReadEofIInv, ReadErrorIInv, ReadUpgradeIInv DEF OnRead
  <2>3. CASE OnWrite
    <3> PICK w \in writing :
          \/ WriteError(w) \/ WriteClose(w) \/ WriteNext(w)
          \/ WriteCrash(w) \/ WriteBreaksOff(w)
      BY <2>3 DEF OnWrite
    <3>1. CASE WriteError(w)
      BY <3>1, WriteErrorIInv
    <3>2. CASE WriteClose(w)
      BY <3>2, WriteCloseIInv
    <3>3. CASE WriteNext(w)
      BY <3>3, WriteNextIInv
    <3>4. CASE WriteCrash(w)
      BY <3>4, WriteCrashIInv
    <3>5. CASE WriteBreaksOff(w)
      BY <3>5, WriteBreaksOffIInv
    <3> QED
      BY <3>1, <3>2, <3>3, <3>4, <3>5
  <2>4. CASE OnShutdown
    BY <2>4, OnShutdownIInv
  <2>5. CASE Timeout
    BY <2>5, TimeoutIInv
  <2>6. CASE UNCHANGED vars
    BY <2>6
       DEF IInv, TypeOK, OneOperationPerDirection, Backpressure,
           ResponsesInOrder, Written, Alive, vars, opVars, queueVars, endVars
  <2> QED
    BY <2>1, <2>2, <2>3, <2>4, <2>5, <2>6 DEF Next
<1> QED
  BY <1>1, <1>2, PTL DEF Spec

\* The session never has two reads or two writes outstanding, and the write
\* is that of the front of its queue.
THEOREM AtMostOneOperation == Spec => []OneOperationPerDirection
<1>1. IInv => OneOperationPerDirection
  BY DEF IInv
<1> QED
  BY <1>1, Invariance, PTL

\* The queue keeps its limit and the session reads exactly while it has room.
THEOREM QueueIsBounded == Spec => []Backpressure
<1>1. IInv => Backpressure
  BY DEF IInv
<1> QED
  BY <1>1, Invariance, PTL

\* Every request has one response, written in the order of the requests.
THEOREM Order == Spec => []ResponsesInOrder
<1>1. IInv => ResponsesInOrder
  BY DEF IInv
<1> QED
  BY <1>1, Invariance, PTL

\* A session that is gone had a stated reason to go.
THEOREM Death == Spec => []DeathIsExplained
<1>1. IInv => DeathIsExplained
  <2> SUFFICES ASSUME IInv, ~Alive, stream # "crashed"
               PROVE  /\ readEnd # "open" \/ writeEnd # "open"
                      /\ items # <<>> => writeEnd # "open"
    BY DEF DeathIsExplained
  <2>1. /\ reads = 0 /\ handshaking = FALSE /\ writing = {}
        /\ items \in Seq(Work)
    BY DEF Alive, IInv, TypeOK
  <2>2. items # <<>> => writeEnd # "open"
    BY <2>1 DEF IInv
  <2>3. items = <<>> => readEnd # "open"
    BY <2>1, LimitAssumption DEF IInv, Backpressure
  <2> QED
    BY <2>2, <2>3
<1> QED
  BY <1>1, Invariance, PTL

\* An upgrade with no response waiting leaves nothing of the session behind.
THEOREM Transfer == Spec => []CleanTransfer
<1>1. IInv => CleanTransfer
  <2> SUFFICES ASSUME IInv, stream = "released", items = <<>>
               PROVE  ~Alive
    BY DEF CleanTransfer
  <2>1. readEnd = "upgraded" /\ reads = 0 /\ handshaking = FALSE
    BY DEF IInv, TypeOK
  <2>2. writing = {} /\ writeEnd = "open"
    BY DEF IInv, OneOperationPerDirection
  <2>3. shutdowns = 0
    BY <2>1, <2>2 DEF IInv, TypeOK
  <2> QED
    BY <2>1, <2>2, <2>3 DEF Alive
<1> QED
  BY <1>1, Invariance, PTL

\* After the closing response, or a failed write, nothing is written.
THEOREM Closing == Spec => CloseIsFinal
<1>1. IInv /\ IInv' /\ [Next]_vars =>
        [writeEnd # "open" => writing = {} /\ writing' = {} /\ sent' = sent]_vars
  <2> SUFFICES ASSUME IInv, IInv', Next, writeEnd # "open"
               PROVE  writing = {} /\ writing' = {} /\ sent' = sent
    OBVIOUS
  <2>1. writing = {} /\ items # <<>> /\ items \in Seq(Work) /\ nread \in Nat
    BY DEF IInv, TypeOK
  <2>2. CASE OnHandshake
    BY <2>1, <2>2
       DEF OnHandshake, HandshakeError, HandshakeDone, queueVars, endVars
  <2>3. ASSUME NEW close \in BOOLEAN, ReadRequest(close)
        PROVE  writing' = {} /\ sent' = sent
    <3> DEFINE w == [req |-> nread + 1, close |-> close]
    <3>1. w \in Work
      BY <2>1 DEF Work
    <3>2. ~StartsOnPush(Push(items, w))
      BY <2>1, <3>1, PushFacts
    <3> QED
      BY <2>1, <2>3, <3>2 DEF ReadRequest
  <2>4. CASE OnRead
    BY <2>1, <2>3, <2>4 DEF OnRead, ReadEof, ReadError, ReadUpgrade, queueVars
  <2>5. CASE OnWrite
    BY <2>1, <2>5 DEF OnWrite
  <2>6. CASE OnShutdown
    BY <2>1, <2>6 DEF OnShutdown, queueVars, endVars
  <2>7. CASE Timeout
    BY <2>1, <2>7 DEF Timeout, queueVars
  <2> QED
    BY <2>1, <2>2, <2>4, <2>5, <2>6, <2>7 DEF Next
<1> QED
  BY <1>1, Invariance, PTL DEF Spec, CloseIsFinal

-----------------------------------------------------------------------------
(* The session implements the safety part of Pipeline. *)

\* The numbers of the requests whose responses were written, in that order:
\* what "answered" of Pipeline stands for.
Answered == [i \in DOMAIN sent |-> sent[i].req]

\* Every element of a sequence of work items names a request.
LEMMA RequestFacts ==
  ASSUME NEW s \in Seq(Work)
  PROVE  /\ DOMAIN s = 1..Len(s) /\ Len(s) \in Nat
         /\ \A i \in 1..Len(s) : s[i].req \in Nat
<1>1. \A i \in 1..Len(s) : s[i] \in Work
  OBVIOUS
<1>2. \A w \in Work : w.req \in Nat
  BY DEF Work
<1> QED
  BY <1>1, <1>2, LenProperties

\* Appending the next work item in turn to the responses written appends its
\* request to the requests answered.
LEMMA AnsweredFacts ==
  ASSUME NEW s \in Seq(Work), NEW w \in Work, w.req = Len(s) + 1
  PROVE  /\ Len([i \in DOMAIN s |-> s[i].req]) = Len(s)
         /\ [i \in DOMAIN Append(s, w) |-> Append(s, w)[i].req] =
              Append([i \in DOMAIN s |-> s[i].req], Len(s) + 1)
<1> DEFINE a == [i \in DOMAIN s |-> s[i].req]
           t == Append(s, w)
           b == [i \in DOMAIN t |-> t[i].req]
<1>1. /\ DOMAIN s = 1..Len(s) /\ Len(s) \in Nat
      /\ \A i \in 1..Len(s) : s[i].req \in Nat
  BY RequestFacts
<1>2. a \in Seq(Nat) /\ Len(a) = Len(s) /\ \A i \in 1..Len(s) : a[i] = s[i].req
  BY <1>1
<1>3. /\ t \in Seq(Work) /\ DOMAIN t = 1..(Len(s) + 1) /\ Len(t) = Len(s) + 1
      /\ \A i \in 1..Len(s) : t[i] = s[i]
      /\ t[Len(s) + 1] = w
  OBVIOUS
<1>4. /\ b \in Seq(Nat) /\ Len(b) = Len(s) + 1
      /\ \A i \in 1..Len(s) : b[i] = s[i].req
      /\ b[Len(s) + 1] = Len(s) + 1
  <2>1. \A i \in 1..(Len(s) + 1) : t[i].req \in Nat
    BY <1>3, RequestFacts
  <2>2. b = [i \in 1..(Len(s) + 1) |-> t[i].req]
    BY <1>3
  <2> HIDE DEF b, t
  <2>3. b \in Seq(Nat) /\ Len(b) = Len(s) + 1
    BY <1>1, <2>1, <2>2
  <2>4. \A i \in 1..Len(s) : b[i] = s[i].req
    BY <1>1, <1>3, <2>2
  <2>5. b[Len(s) + 1] = Len(s) + 1
    BY <1>1, <1>3, <2>2
  <2> QED
    BY <2>3, <2>4, <2>5
<1> HIDE DEF a, b
<1> DEFINE c == Append(a, Len(s) + 1)
<1>5. /\ c \in Seq(Nat)
      /\ Len(c) = Len(a) + 1
      /\ \A i \in 1..Len(a) : c[i] = a[i]
      /\ c[Len(a) + 1] = Len(s) + 1
  <2>1. Len(s) + 1 \in Nat
    BY <1>1
  <2> QED
    BY <2>1, <1>2, AppendProperties
<1> HIDE DEF c
<1>6. b = c
  <2>1. Len(b) = Len(c)
    BY <1>2, <1>4, <1>5
  <2>2. \A i \in 1..Len(s) : b[i] = c[i]
    BY <1>2, <1>4, <1>5
  <2>3. b[Len(s) + 1] = c[Len(s) + 1]
    BY <1>2, <1>4, <1>5
  <2>4. \A i \in 1..Len(b) : i \in 1..Len(s) \/ i = Len(s) + 1
    BY <1>1, <1>4
  <2>5. \A i \in 1..Len(b) : b[i] = c[i]
    BY <2>2, <2>3, <2>4
  <2> QED
    BY <2>1, <2>5, <1>4, <1>5, SeqEqual
<1> QED
  BY <1>2, <1>6 DEF a, b, c

\* Every session behaviour is one of Pipeline with the queue's limit as its
\* window, up to steps that leave what the peer sees as it is.
THEOREM ImplementsSafety == Spec => Promise!Safety
<1>1. Init => Promise!Init
  BY DEF Init, Promise!Init
<1>2. IInv /\ IInv' /\ [Next]_vars => [Promise!Next]_Promise!vars
  <2> DEFINE Finished == writeEnd # "open" \/ stream = "crashed"
  <2> SUFFICES ASSUME IInv, IInv', [Next]_vars
               PROVE  Promise!Next \/ UNCHANGED <<nread, Answered, Finished>>
    BY DEF Promise!vars, Answered
  <2>1. /\ nread \in Nat /\ sent \in Seq(Work) /\ items \in Seq(Work)
        /\ Len(items) \in Nat /\ Len(sent) \in Nat
        /\ Len(Answered) = Len(sent)
        /\ Len(sent) + Len(items) = nread + Written
    <3>1. sent \in Seq(Work)
      BY DEF IInv, TypeOK
    <3>2. Answered = [i \in 1..Len(sent) |-> sent[i].req]
      BY <3>1, RequestFacts DEF Answered
    <3>3. Len(Answered) = Len(sent)
      BY <3>1, <3>2, LenProperties
    <3> QED
      BY <3>1, <3>3, LenProperties DEF IInv, TypeOK, ResponsesInOrder
  <2>2. ASSUME nread' = nread, sent' = sent, writeEnd' = writeEnd,
               (stream' = "crashed") = (stream = "crashed")
        PROVE  UNCHANGED <<nread, Answered, Finished>>
    BY <2>2 DEF Answered
  <2>3. CASE OnHandshake
    BY <2>2, <2>3
       DEF OnHandshake, HandshakeError, HandshakeDone, queueVars, endVars
  <2>4. ASSUME NEW close \in BOOLEAN, ReadRequest(close)
        PROVE  Promise!Next
    <3>1. /\ nread' = nread + 1 /\ sent' = sent /\ writeEnd' = writeEnd
          /\ stream' = stream /\ reads > 0
      BY <2>4 DEF ReadRequest, endVars
    <3>2. Len(items) < Limit
      BY <3>1, <2>1 DEF IInv, Backpressure, TypeOK, OneOperationPerDirection
    <3>3. nread - Len(Answered) < Limit
      BY <2>1, <3>2, LimitAssumption DEF Written
    <3>4. UNCHANGED <<Answered, Finished>>
      BY <3>1 DEF Answered
    <3>5. Promise!Receive
      BY <3>1, <3>3, <3>4 DEF Promise!Receive, Answered
    <3> QED
      BY <3>5 DEF Promise!Next
  <2>5. CASE ReadEof \/ ReadError \/ ReadUpgrade
    <3>1. stream' = "crashed" <=> stream = "crashed"
      BY <2>5 DEF ReadEof, ReadError, ReadUpgrade, DoEof, PlainDoEof,
                  SslDoEof, IInv, TypeOK
    <3> QED
      BY <2>2, <2>5, <3>1 DEF ReadEof, ReadError, ReadUpgrade, queueVars
  <2>6. ASSUME NEW w \in writing, WriteError(w)
        PROVE  Promise!Next
    BY <2>6, WriterFacts
       DEF WriteError, queueVars, Promise!Next, Promise!Stop
  <2>7. ASSUME NEW w \in writing, WriteClose(w) \/ WriteNext(w) \/ WriteCrash(w)
        PROVE  Promise!Next
    <3>1. /\ sent' = Append(sent, w) /\ nread' = nread
      BY <2>7 DEF WriteClose, WriteNext, WriteCrash, Crash
    <3>2. /\ w \in Work /\ w.req = Len(sent) + 1 /\ items # <<>>
          /\ writeEnd = "open" /\ stream # "crashed" /\ Written = 0
      BY WriterFacts
    <3>3. Answered' = Append(Answered, Len(sent) + 1)
      BY <2>1, <3>1, <3>2, AnsweredFacts DEF Answered
    <3>4. Len(items) > 0
      BY <2>1, <3>2, EmptySeq
    <3>5. Len(Answered) < nread
      BY <2>1, <3>2, <3>4
    <3>6. Finished' \in BOOLEAN /\ ~Finished
      BY <3>2
    <3>7. Promise!Answer
      BY <2>1, <3>1, <3>3, <3>5, <3>6 DEF Promise!Answer, Answered
    <3> QED
      BY <3>7 DEF Promise!Next
  <2>8. ASSUME NEW w \in writing, WriteBreaksOff(w)
         PROVE  Promise!Next
    BY <2>8, WriterFacts
       DEF WriteBreaksOff, Crash, Promise!Next, Promise!Stop
  <2>9. CASE OnShutdown
    BY <2>2, <2>9 DEF OnShutdown, queueVars, endVars
  <2>10. CASE Timeout
    <3>1. stream # "crashed" /\ stream' # "crashed"
      BY <2>10 DEF Timeout, CanReceive
    <3> QED
      BY <2>2, <2>10, <3>1 DEF Timeout, queueVars
  <2>11. CASE UNCHANGED vars
    BY <2>2, <2>11 DEF vars, queueVars, endVars
  <2> QED
    BY <2>3, <2>4, <2>5, <2>6, <2>7, <2>8, <2>9, <2>10,
       <2>11
       DEF Next, OnRead, OnWrite
<1> QED
  BY <1>1, <1>2, Invariance, PTL DEF Spec, Promise!Safety

-----------------------------------------------------------------------------
(* A session takes finitely many steps: the safety half of SessionEnds. *)

\* The outstanding operations, each weighed with what it can begin when it
\* ends, and the one deadline that may pass.
Incoming == IF handshaking THEN 3 ELSE IF reads > 0 THEN 2 ELSE 0
Outgoing == IF writing # {} THEN 2 ELSE 0
Expiring == IF CanReceive THEN 1 ELSE 0

\* What a session has still before it: the requests that may come, the
\* responses queued and the operations outstanding.
Effort ==
  6 * (MaxRequests - nread) + 3 * Len(items)
    + Incoming + Outgoing + shutdowns + Expiring

\* The session has read no more requests than the peer sends.
WithinBound == nread <= MaxRequests

\* The numbers that Effort is made of.
EffortType ==
  /\ MaxRequests \in Nat /\ nread \in Nat /\ MaxRequests - nread \in Nat
  /\ Len(items) \in Nat /\ reads \in Nat /\ shutdowns \in Nat
  /\ Incoming \in 0 .. 3 /\ Outgoing \in 0 .. 2 /\ Expiring \in 0 .. 1

\* No more requests are read than come.
LEMMA ReadsWhatIsSent == Spec => []WithinBound
<1>1. Init => WithinBound
  BY MaxRequestsAssumption DEF Init, WithinBound
<1>2. IInv /\ WithinBound /\ [Next]_vars => WithinBound'
  <2> SUFFICES ASSUME IInv, WithinBound, [Next]_vars
               PROVE  nread' <= MaxRequests
    BY DEF WithinBound
  <2>1. ASSUME NEW close \in BOOLEAN, ReadRequest(close)
        PROVE  nread' <= MaxRequests
    BY <2>1, MaxRequestsAssumption DEF ReadRequest, IInv, TypeOK
  <2>2. CASE UNCHANGED nread
    BY <2>2 DEF WithinBound
  <2> QED
    BY <2>1, <2>2
       DEF Next, OnHandshake, HandshakeError, HandshakeDone, OnRead, ReadEof,
           ReadError, ReadUpgrade, OnWrite, WriteError, WriteClose, WriteNext,
           WriteCrash, WriteBreaksOff, Crash, OnShutdown, Timeout, vars,
           queueVars
<1> QED
  BY <1>1, <1>2, Invariance, PTL DEF Spec

\* They are numbers, as the invariant says.
LEMMA EffortTyped ==
  ASSUME IInv, WithinBound
  PROVE  EffortType
<1>1. /\ MaxRequests \in Nat /\ nread \in Nat /\ nread <= MaxRequests
      /\ items \in Seq(Work) /\ reads \in Nat /\ shutdowns \in Nat
  BY MaxRequestsAssumption DEF IInv, TypeOK, WithinBound
<1> QED
  BY <1>1, LenProperties DEF EffortType, Incoming, Outgoing, Expiring

\* So their weighted sum is one.
LEMMA EffortNat ==
  ASSUME EffortType
  PROVE  Effort \in Nat
BY DEF EffortType, Effort

\* on_handshake leaves at most the first read.
LEMMA HandshakeEffort ==
  ASSUME IInv, EffortType, EffortType', OnHandshake
  PROVE  Effort' < Effort
<1>1. /\ UNCHANGED <<nread, items, writing, shutdowns, stream>>
      /\ handshaking /\ ~handshaking' /\ reads' \in {reads, reads + 1}
      /\ reads = 0
  BY DEF OnHandshake, HandshakeError, HandshakeDone, DoRead, queueVars,
         endVars, IInv, OneOperationPerDirection
<1>2. Incoming' < Incoming
  <2>1. Incoming = 3 /\ Incoming' \in {0, 2}
    BY <1>1 DEF Incoming
  <2> QED
    BY <2>1
<1>3. Outgoing' = Outgoing /\ Expiring' = Expiring
  BY <1>1 DEF Outgoing, Expiring, CanReceive
<1> QED
  BY <1>1, <1>2, <1>3 DEF Effort, EffortType

\* on_read leaves a response to write and the next read, or a shutdown.
LEMMA ReadEffort ==
  ASSUME IInv, EffortType, EffortType', OnRead
  PROVE  Effort' < Effort
<1>1. /\ reads = 1 /\ handshaking' = handshaking /\ ~handshaking
      /\ Incoming = 2
  <2>1. reads > 0 /\ handshaking' = handshaking
    BY DEF OnRead, ReadEof, ReadError, ReadUpgrade, ReadRequest
  <2>2. ~handshaking /\ reads = 1
    BY <2>1 DEF IInv, OneOperationPerDirection, EffortType
  <2> QED
    BY <2>1, <2>2 DEF Incoming
<1>2. CASE ReadEof
  <2>1. /\ reads' = reads - 1 /\ shutdowns' \in {shutdowns, shutdowns + 1}
        /\ UNCHANGED <<nread, items>> /\ Outgoing' = Outgoing
        /\ Expiring' = Expiring
    BY <1>2 DEF ReadEof, NoRead, DoEof, PlainDoEof, SslDoEof, queueVars,
                Outgoing, Expiring, CanReceive
  <2>2. Incoming' = 0
    BY <1>1, <2>1 DEF Incoming
  <2> QED
    BY <1>1, <2>1, <2>2 DEF Effort, EffortType
<1>3. CASE ReadError \/ ReadUpgrade
  <2>1. /\ reads' = reads - 1 /\ shutdowns' = shutdowns
        /\ UNCHANGED <<nread, items>> /\ Outgoing' = Outgoing
        /\ Expiring' <= Expiring
    BY <1>3 DEF ReadError, ReadUpgrade, NoRead, queueVars, Outgoing, Expiring,
                CanReceive
  <2>2. Incoming' = 0
    BY <1>1, <2>1 DEF Incoming
  <2> QED
    BY <1>1, <2>1, <2>2 DEF Effort, EffortType
<1>4. ASSUME NEW close \in BOOLEAN, ReadRequest(close)
      PROVE  Effort' < Effort
  <2> DEFINE w == [req |-> nread + 1, close |-> close]
  <2>1. /\ nread' = nread + 1 /\ items' = Push(items, w)
        /\ UNCHANGED <<shutdowns, stream>>
    BY <1>4 DEF ReadRequest, DoRead, NoRead, endVars
  <2>2. Len(items') = Len(items) + 1
    <3>1. w \in Work /\ items \in Seq(Work)
      BY DEF EffortType, IInv, TypeOK, Work
    <3> HIDE DEF w
    <3> QED
      BY <2>1, <3>1, PushFacts
  <2>3. Outgoing' <= Outgoing + 2 /\ Expiring' = Expiring
    BY <2>1 DEF Outgoing, Expiring, CanReceive
  <2>4. Incoming' <= Incoming
    BY <1>1 DEF Incoming
  <2> HIDE DEF w
  <2> QED
    BY <2>1, <2>2, <2>3, <2>4 DEF Effort, EffortType
<1> QED
  BY <1>2, <1>3, <1>4 DEF OnRead

\* A response less outweighs the read it can start again.
LEMMA PopWeighs ==
  ASSUME NEW m \in Nat, NEW s \in Nat, NEW e \in Nat,
         NEW l \in Nat, NEW i \in Nat, NEW o \in Nat,
         NEW k \in Nat, NEW j \in Nat, NEW p \in Nat,
         k = l - 1, j <= i + 2, p <= o
  PROVE  6 * m + 3 * k + j + p + s + e < 6 * m + 3 * l + i + o + s + e
OBVIOUS

\* on_write leaves the next write, and a read for the response it takes off
\* the queue, or a shutdown.
LEMMA WriteEffort ==
  ASSUME IInv, EffortType, EffortType', OnWrite
  PROVE  Effort' < Effort
<1> PICK w \in writing :
      \/ WriteError(w) \/ WriteClose(w) \/ WriteNext(w)
      \/ WriteCrash(w) \/ WriteBreaksOff(w)
  BY DEF OnWrite
<1>1. /\ writing = {w} /\ items \in Seq(Work) /\ items # <<>> /\ Outgoing = 2
  BY WriterFacts DEF Outgoing
<1>2. handshaking' = handshaking /\ ~handshaking
  BY <1>1 DEF WriteError, WriteClose, WriteNext, WriteCrash, WriteBreaksOff,
              Crash, IInv
<1>3. nread' = nread
  BY DEF WriteError, WriteClose, WriteNext, WriteCrash, WriteBreaksOff, Crash,
         queueVars
<1>4. CASE WriteError(w)
  <2>1. /\ writing' = {} /\ UNCHANGED <<items, reads, shutdowns, stream>>
    BY <1>1, <1>4 DEF WriteError, queueVars
  <2>2. Outgoing' = 0 /\ Expiring' = Expiring /\ Incoming' = Incoming
    BY <1>2, <2>1 DEF Outgoing, Expiring, CanReceive, Incoming
  <2> QED
    BY <1>1, <1>2, <1>3, <2>1, <2>2 DEF Effort, EffortType
<1>5. CASE WriteClose(w)
  <2>1. /\ writing' = {} /\ shutdowns' \in {shutdowns, shutdowns + 1}
        /\ UNCHANGED <<items, reads>> /\ Expiring' = Expiring
    BY <1>1, <1>5 DEF WriteClose, DoEof, PlainDoEof, SslDoEof, Expiring,
                      CanReceive
  <2>2. Outgoing' = 0 /\ Incoming' = Incoming
    BY <1>2, <2>1 DEF Outgoing, Incoming
  <2> QED
    BY <1>1, <1>2, <1>3, <2>1, <2>2 DEF Effort, EffortType
<1>6. CASE WriteNext(w)
  <2>1. /\ items' = Tail(items)
        /\ UNCHANGED <<shutdowns, stream>>
    BY <1>6 DEF WriteNext, DoRead, endVars
  <2>2. Len(items') = Len(items) - 1
    BY <1>1, <2>1, PopFacts
  <2>3. Expiring' = Expiring
    BY <2>1 DEF Expiring, CanReceive
  <2>4. Incoming' <= Incoming + 2
    <3>1. Incoming \in 0 .. 3 /\ Incoming' \in {0, 2}
      BY <1>2 DEF EffortType, Incoming
    <3> QED
      BY <3>1
  <2>5. Outgoing' <= Outgoing
    BY <1>1 DEF EffortType
  <2>6. Effort' = 6 * (MaxRequests - nread) + 3 * Len(items')
                  + Incoming' + Outgoing' + shutdowns + Expiring
    BY <1>3, <2>1, <2>3, Zenon DEF Effort
  <2>7. /\ MaxRequests - nread \in Nat /\ shutdowns \in Nat /\ Expiring \in Nat
        /\ Len(items) \in Nat /\ Incoming \in Nat /\ Outgoing \in Nat
        /\ Len(items') \in Nat /\ Incoming' \in Nat /\ Outgoing' \in Nat
    BY DEF EffortType
  <2> QED
    BY <2>2, <2>4, <2>5, <2>6, <2>7, PopWeighs DEF Effort
<1>7. CASE WriteCrash(w) \/ WriteBreaksOff(w)
  <2>1. /\ writing' = {} /\ reads' = 0 /\ shutdowns' = 0
        /\ items' \in {items, Tail(items)} /\ stream' = "crashed"
    BY <1>7 DEF WriteCrash, WriteBreaksOff, Crash
  <2>2. Len(items') <= Len(items)
    BY <1>1, <2>1, PopFacts DEF EffortType
  <2>3. Outgoing' = 0 /\ Expiring' = 0 /\ Incoming' = 0
    BY <1>2, <2>1 DEF Outgoing, Expiring, CanReceive, Incoming
  <2>4. Effort' = 6 * (MaxRequests - nread) + 3 * Len(items')
    BY <1>3, <2>1, <2>3 DEF Effort, EffortType
  <2>5. Effort >= 6 * (MaxRequests - nread) + 3 * Len(items) + 2
    BY <1>1 DEF Effort, EffortType
  <2> QED
    BY <2>2, <2>4, <2>5, EffortNat DEF EffortType
<1> QED
  BY <1>4, <1>5, <1>6, <1>7

\* on_shutdown leaves nothing.
LEMMA ShutdownEffort ==
  ASSUME EffortType, EffortType', OnShutdown
  PROVE  Effort' < Effort
<1>1. /\ UNCHANGED <<nread, items>> /\ shutdowns' = shutdowns - 1
      /\ Incoming' = Incoming /\ Outgoing' = Outgoing /\ Expiring' = Expiring
  BY DEF OnShutdown, queueVars, endVars, Incoming, Outgoing, Expiring,
         CanReceive
<1> QED
  BY <1>1 DEF Effort, EffortType

\* The socket is closed once.
LEMMA TimeoutEffort ==
  ASSUME EffortType, EffortType', Timeout
  PROVE  Effort' < Effort
<1>1. /\ UNCHANGED <<nread, items, shutdowns>>
      /\ Incoming' = Incoming /\ Outgoing' = Outgoing
      /\ Expiring = 1 /\ Expiring' = 0
  BY DEF Timeout, queueVars, Incoming, Outgoing, Expiring, CanReceive
<1> QED
  BY <1>1 DEF Effort, EffortType

\* Every step of a session uses up some of its effort.
LEMMA StepEffort ==
  ASSUME IInv, EffortType, EffortType', Next
  PROVE  Effort' < Effort
BY HandshakeEffort, ReadEffort, WriteEffort, ShutdownEffort, TimeoutEffort
   DEF Next

\* A session that is launched has at most this before it.
LEMMA InitEffort ==
  ASSUME Init
  PROVE  Effort <= 6 * MaxRequests + 4
<1>1. /\ nread = 0 /\ Len(items) = 0 /\ shutdowns = 0 /\ Outgoing = 0
      /\ Expiring = 1 /\ Incoming \in {2, 3}
  BY DEF Init, PlainRun, SslRun, Incoming, Outgoing, Expiring, CanReceive
<1> QED
  BY <1>1, MaxRequestsAssumption DEF Effort

\* The effort left is a number, and never more than that.
WithinEffort == Effort \in 0 .. 6 * MaxRequests + 4

THEOREM Termination ==
  Spec => []WithinEffort /\ [][Effort' < Effort]_vars
<1>1. Init => Effort <= 6 * MaxRequests + 4
  BY InitEffort
<1>2. IInv /\ WithinBound => EffortType
  BY EffortTyped
<1> DEFINE Measured == Effort \in Nat
<1>3. EffortType => Measured
  BY EffortNat
<1>4. Init /\ EffortType => WithinEffort
  BY <1>1, <1>3, MaxRequestsAssumption DEF WithinEffort
<1>5. IInv /\ EffortType /\ EffortType' /\ [Next]_vars => [Effort' < Effort]_vars
  BY StepEffort
<1>6. /\ Measured /\ Measured' /\ WithinEffort /\ [Effort' < Effort]_vars
      => WithinEffort'
  <2> SUFFICES ASSUME Effort \in Nat, Effort' \in Nat, WithinEffort,
                      [Effort' < Effort]_vars
               PROVE  WithinEffort'
    OBVIOUS
  <2>1. Effort' = Effort \/ Effort' < Effort
    BY DEF vars, opVars, queueVars, endVars, Effort, Incoming, Outgoing,
           Expiring, CanReceive
  <2> QED
    BY <2>1, MaxRequestsAssumption DEF WithinEffort
<1> HIDE DEF Measured
<1> QED
  BY <1>2, <1>3, <1>4, <1>5, <1>6, Invariance, ReadsWhatIsSent, PTL DEF Spec

=============================================================================
