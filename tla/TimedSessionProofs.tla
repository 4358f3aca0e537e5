------------------------- MODULE TimedSessionProofs -------------------------
(***************************************************************************)
(* Theorems about TimedSession, for every deadline: a session with time is *)
(* one of HttpSession, so all that is proved of that holds of it, and its  *)
(* timers keep reads and writes within the deadline.                       *)
(***************************************************************************)
EXTENDS TimedSession, HttpSessionProofs

-----------------------------------------------------------------------------
(* Every step of a timed session is one of HttpSession or leaves it alone. *)

LEMMA TimedStepsAreSessionSteps ==
  ASSUME [TNext]_tvars
  PROVE  [Next]_vars
<1>1. CASE Handlers
  BY <1>1 DEF Handlers, THandshake, TRead, TWrite, TShutdown, Next
<1>2. CASE Expire
  BY <1>2 DEF Expire, Next
<1>3. CASE Tick
  BY <1>3 DEF Tick
<1>4. CASE UNCHANGED tvars
  BY <1>4 DEF tvars
<1> QED
  BY <1>1, <1>2, <1>3, <1>4 DEF TNext

\* Time takes nothing away from what HttpSession says.
THEOREM ImplementsUntimed == TSpec => Spec
<1>1. TInit => Init
  BY DEF TInit
<1>2. [TNext]_tvars => [Next]_vars
  BY TimedStepsAreSessionSteps
<1> QED
  BY <1>1, <1>2, PTL DEF TSpec, Spec

\* So the session's invariant holds.
THEOREM TimedSessionInvariance == TSpec => []IInv
BY ImplementsUntimed, Invariance, PTL

-----------------------------------------------------------------------------
(* The timers. *)

\* What the session's invariant says of the operations outstanding.
LEMMA OutstandingFacts ==
  ASSUME IInv
  PROVE  /\ reads \in {0, 1}
         /\ handshaking \in BOOLEAN /\ ssl \in BOOLEAN
         /\ shutdowns \in Nat
         /\ handshaking => reads = 0 /\ writing = {} /\ readEnd = "open"
         /\ reads > 0 => readEnd = "open"
         /\ writing # {} => writeEnd = "open"
         /\ shutdowns > 0 => readEnd = "eof" \/ writeEnd = "closed"
<1>1. reads \in Nat /\ reads <= 1
  BY DEF IInv, TypeOK, OneOperationPerDirection
<1>2. reads \in {0, 1}
  BY <1>1
<1>3. handshaking => writing = {}
  BY DEF IInv, OneOperationPerDirection
<1> QED
  BY <1>2, <1>3 DEF IInv, TypeOK, OneOperationPerDirection

\* What expires_after leaves on the timers.
LEMMA SetDeadlineFacts ==
  ASSUME TInv, NEW receiving \in BOOLEAN, SetDeadline(receiving)
  PROVE  /\ readLeft' \in 0..Never /\ writeLeft' \in 0..Never
         /\ ~receiving => readLeft' = Deadline
         /\ receiving => readLeft' = readLeft
         /\ writing' # {} => writeLeft' = writeLeft
         /\ writeLeft' \in {writeLeft, Deadline}
         /\ readLeft <= Deadline => readLeft' <= Deadline
         /\ writeLeft <= Deadline => writeLeft' <= Deadline
BY DeadlineAssumption DEF SetDeadline, TInv, TTypeOK, Never

\* What do_read leaves on them, with no shutdown under way.
LEMMA SetReadDeadlineFacts ==
  ASSUME TInv, SetReadDeadline, shutdowns \in Nat
  PROVE  /\ readLeft' \in 0..Never /\ writeLeft' \in 0..Never
         /\ shutdowns = 0 => readLeft' = Deadline
         /\ writing' # {} => writeLeft' = writeLeft
         /\ writeLeft' \in {writeLeft, Deadline}
         /\ readLeft <= Deadline => readLeft' <= Deadline
         /\ writeLeft <= Deadline => writeLeft' <= Deadline
<1>1. PICK receiving \in BOOLEAN :
        (receiving => shutdowns > 0) /\ SetDeadline(receiving)
  BY DEF SetReadDeadline
<1> QED
  BY <1>1, SetDeadlineFacts

\* run() sets both timers.
LEMMA InitTInv == TInit => TInv
BY DeadlineAssumption
   DEF TInit, Init, TInv, TTypeOK, NothingWaitsTooLong, ReadHasFullTime,
       YoungSessionsWrite, Never, CanReceive, Alive, PlainRun, SslRun

\* A handshake is followed by nothing, or by a read under fresh timers.
LEMMA THandshakeTInv ==
  ASSUME IInv, IInv', TInv, THandshake
  PROVE  TInv'
<1>0. Deadline \in Nat \ {0} /\ Never = Deadline + 1
  BY DeadlineAssumption DEF Never
<1>1. /\ handshaking /\ handshaking' = FALSE
      /\ reads = 0 /\ writing = {} /\ writing' = {} /\ shutdowns = 0
      /\ shutdowns' = shutdowns /\ ssl' = ssl /\ stream' = stream
      /\ readAge' = 0 /\ writeAge' = writeAge /\ life' = life /\ life = 0
      /\ writeEnd' = writeEnd /\ readEnd # "upgraded" /\ readEnd' # "upgraded"
  BY OutstandingFacts
     DEF THandshake, OnHandshake, HandshakeError, HandshakeDone, TInv, endVars
<1>2. CASE reads' > 0
  <2>1. readLeft' = Deadline /\ writeLeft' \in {writeLeft, Deadline}
        /\ writeLeft' = Deadline
    BY <1>1, <1>2 DEF THandshake, SetReadDeadline, SetDeadline
  <2> QED
    BY <1>0, <1>1, <1>2, <2>1
       DEF TInv, TTypeOK, NothingWaitsTooLong, ReadHasFullTime,
           YoungSessionsWrite, CanReceive, Alive
<1>3. CASE ~(reads' > 0)
  <2>1. UNCHANGED timers /\ ~Alive'
    BY <1>1, <1>3 DEF THandshake, Alive
  <2> QED
    BY <1>0, <1>1, <1>3, <2>1
       DEF TInv, TTypeOK, NothingWaitsTooLong, ReadHasFullTime,
           YoungSessionsWrite, CanReceive, Alive, timers
<1> QED
  BY <1>2, <1>3

\* After a read, what is outstanding in the other direction keeps its timer.
LEMMA TReadTInv ==
  ASSUME IInv, IInv', TInv, TRead
  PROVE  TInv'
<1>0. Deadline \in Nat \ {0} /\ Never = Deadline + 1
  BY DeadlineAssumption DEF Never
<1>1. /\ reads = 1 /\ readEnd = "open" /\ handshaking = FALSE
      /\ handshaking' = FALSE /\ ssl' = ssl /\ reads' \in {0, 1}
      /\ shutdowns \in Nat /\ shutdowns' \in Nat
      /\ Alive
  <2>1. reads > 0 /\ handshaking' = handshaking /\ ssl' = ssl
    BY DEF TRead, OnRead, ReadEof, ReadError, ReadUpgrade, ReadRequest
  <2>2. Alive
    BY <2>1 DEF Alive
  <2> QED
    BY <2>1, <2>2, OutstandingFacts DEF IInv, TypeOK, OneOperationPerDirection
<1>2. /\ readAge' = 0 /\ life' = life
      /\ writeAge' = IF writing' = writing THEN writeAge ELSE 0
  BY DEF TRead
<1>3. /\ readLeft \in 0..Deadline /\ writeLeft \in 0..Deadline
      /\ writeLeft + life >= Deadline /\ life \in 0..Deadline
      /\ writeAge \in 0..Never
  BY <1>0, <1>1 DEF TInv, TTypeOK
<1>4. /\ shutdowns' > 0 => ssl
      /\ shutdowns' > 0 /\ reads' > 0 => writeEnd' = "closed"
      /\ shutdowns > 0 /\ reads' > 0 => writeEnd' = "closed" /\ ssl
      /\ CanReceive' => CanReceive
      /\ readEnd' = "upgraded" => ~CanReceive' /\ reads' = 0
      /\ reads' > 0 => readEnd' = "open"
  <2>1. reads' > 0 => readEnd' = "open" /\ writeEnd' = writeEnd
                      /\ shutdowns' = shutdowns
    <3>1. CASE ReadEof \/ ReadError \/ ReadUpgrade
      BY <3>1, <1>1 DEF ReadEof, ReadError, ReadUpgrade, NoRead
    <3>2. CASE \E close \in BOOLEAN : ReadRequest(close)
      BY <3>2, <1>1 DEF ReadRequest, endVars
    <3> QED
      BY <3>1, <3>2 DEF TRead, OnRead
  <2>2. CanReceive' => CanReceive
    BY DEF TRead, OnRead, ReadEof, ReadError, ReadUpgrade, ReadRequest, DoEof,
           PlainDoEof, SslDoEof, CanReceive, endVars
  <2>3. readEnd' = "upgraded" => ~CanReceive' /\ reads' = 0
    BY <1>1 DEF TRead, OnRead, ReadEof, ReadError, ReadUpgrade, ReadRequest,
           NoRead, CanReceive, endVars
  <2>4. shutdowns' > 0 => ssl
    BY <1>1 DEF TRead, OnRead, ReadEof, ReadError, ReadUpgrade, ReadRequest,
           DoEof, PlainDoEof, SslDoEof, TInv
  <2> QED
    BY <1>1, <2>1, <2>2, <2>3, <2>4, OutstandingFacts DEF TInv
<1>5. /\ readLeft' \in 0..Never /\ writeLeft' \in 0..Never
      /\ writeLeft' + life >= Deadline
      /\ writing' # {} => writeLeft' = writeLeft
      /\ readEnd' # "upgraded" => readLeft' <= Deadline /\ writeLeft' <= Deadline
      /\ reads' > 0 => \/ readLeft' = Deadline
                       \/ shutdowns > 0 /\ readLeft' = readLeft
  <2>1. CASE reads' > 0
    <3>1. PICK receiving \in BOOLEAN :
            (receiving => shutdowns > 0) /\ SetDeadline(receiving)
      BY <2>1 DEF TRead, SetReadDeadline
    <3> QED
      BY <3>1, <2>1, <1>0, <1>3, SetDeadlineFacts
  <2>2. CASE ~(reads' > 0) /\ shutdowns' > shutdowns
    <3>1. /\ readLeft' \in {readLeft, Deadline}
          /\ writeLeft' = IF writing' # {} THEN writeLeft ELSE Deadline
      BY <2>2 DEF TRead, SetDeadline
    <3> QED
      BY <3>1, <2>2, <1>0, <1>3
  <2>3. CASE ~(reads' > 0) /\ ~(shutdowns' > shutdowns) /\ readEnd' = "upgraded"
    <3>1. SetNever
      BY <2>3 DEF TRead
    <3> QED
      BY <3>1, <2>3, <1>0, <1>3 DEF SetNever
  <2>4. CASE ~(reads' > 0) /\ ~(shutdowns' > shutdowns) /\ readEnd' # "upgraded"
    <3>1. UNCHANGED timers
      BY <2>4 DEF TRead
    <3> QED
      BY <3>1, <2>4, <1>0, <1>3 DEF timers
  <2> QED
    BY <2>1, <2>2, <2>3, <2>4
<1>6. writing' # {} => writing' = writing \/ writeAge' = 0
  BY <1>2
<1>7. (CanReceive' /\ writing' # {}) => writeLeft' + writeAge' <= Deadline
  <2> SUFFICES ASSUME CanReceive', writing' # {}
               PROVE  writeLeft' + writeAge' <= Deadline
    OBVIOUS
  <2>1. CanReceive /\ writeLeft' = writeLeft
    BY <1>4, <1>5
  <2>2. CASE writing' = writing
    BY <2>1, <2>2, <1>2 DEF TInv
  <2>3. CASE writing' # writing
    BY <2>1, <2>3, <1>0, <1>2, <1>3
  <2> QED
    BY <2>2, <2>3
<1>8. TTypeOK'
  BY <1>0, <1>2, <1>3, <1>5 DEF TTypeOK
<1>9. NothingWaitsTooLong'
  <2>1. CanReceive' /\ writing' # {} => writeAge' <= Deadline
    <3> SUFFICES ASSUME CanReceive', writing' # {}
                 PROVE  writeAge' <= Deadline
      OBVIOUS
    <3>1. CASE writing' = writing
      BY <3>1, <1>2, <1>4 DEF TInv, NothingWaitsTooLong
    <3>2. CASE writing' # writing
      BY <3>2, <1>0, <1>2
    <3> QED
      BY <3>1, <3>2
  <2> QED
    BY <2>1, <1>0, <1>1, <1>2 DEF NothingWaitsTooLong
<1>10. ReadHasFullTime'
  <2> SUFFICES ASSUME reads' > 0, ~(ssl' /\ writeEnd' = "closed")
               PROVE  readLeft' + readAge' = Deadline
    BY DEF ReadHasFullTime
  <2>1. readLeft' = Deadline
    BY <1>1, <1>4, <1>5
  <2> QED
    BY <2>1, <1>0, <1>2
<1>11. YoungSessionsWrite'
  BY <1>2, <1>5 DEF YoungSessionsWrite
<1>12. reads' > 0 => readLeft' + readAge' <= Deadline
  <2>1. reads' > 0 => readLeft' \in 0..Deadline
    BY <1>0, <1>3, <1>5
  <2> QED
    BY <2>1, <1>0, <1>2
<1> QED
  BY <1>1, <1>2, <1>4, <1>5, <1>7, <1>8, <1>9, <1>10, <1>11, <1>12 DEF TInv

\* What the handler of a write changes besides the timers.
LEMMA TWriteFacts ==
  ASSUME IInv, IInv', TInv, TWrite
  PROVE  /\ Alive /\ handshaking = FALSE /\ handshaking' = FALSE
         /\ writeEnd = "open" /\ readEnd' = readEnd /\ ssl' = ssl
         /\ life' = life /\ writeAge' = 0
         /\ CanReceive' => CanReceive
         /\ reads \in {0, 1} /\ reads' \in {0, 1}
         /\ shutdowns' > shutdowns => ssl /\ writeEnd' = "closed"
         /\ shutdowns' > 0 => ssl
         /\ reads' > reads => shutdowns = 0
<1>1. PICK w \in writing :
        \/ WriteError(w) \/ WriteClose(w) \/ WriteNext(w)
        \/ WriteCrash(w) \/ WriteBreaksOff(w)
  BY DEF TWrite, OnWrite
<1>2. /\ handshaking' = handshaking /\ readEnd' = readEnd /\ ssl' = ssl
      /\ reads' > reads => writeEnd' = writeEnd
  BY <1>1, OutstandingFacts
     DEF WriteError, WriteClose, WriteNext, WriteCrash, WriteBreaksOff, Crash,
         endVars
<1>3. CanReceive' => CanReceive
  BY <1>1 DEF WriteError, WriteClose, WriteNext, WriteCrash, WriteBreaksOff,
              Crash, endVars, CanReceive, DoEof, PlainDoEof, SslDoEof
<1>4. /\ shutdowns' > shutdowns => ssl /\ writeEnd' = "closed"
      /\ shutdowns' > 0 => ssl
  BY <1>1, OutstandingFacts
     DEF WriteError, WriteClose, WriteNext, WriteCrash, WriteBreaksOff, Crash,
         endVars, DoEof, PlainDoEof, SslDoEof, TInv
<1>5. writing # {} /\ Alive /\ writeEnd = "open" /\ handshaking = FALSE
  BY <1>1, OutstandingFacts DEF Alive
<1>6. reads' \in {0, 1} /\ (reads' > 0 => readEnd' = "open")
  <2>1. reads' \in Nat /\ reads' <= 1
    BY DEF IInv, TypeOK, OneOperationPerDirection
  <2> QED
    BY <2>1 DEF IInv
<1>7. reads' > reads => shutdowns = 0
  BY <1>2, <1>5, <1>6, OutstandingFacts
<1> QED
  BY <1>2, <1>3, <1>4, <1>5, <1>6, <1>7, OutstandingFacts DEF TWrite

\* After a write, an outstanding read keeps its timer; the write begun next
\* runs under what is left.
LEMMA TWriteTInv ==
  ASSUME IInv, IInv', TInv, TWrite
  PROVE  TInv'
<1>0. Deadline \in Nat \ {0} /\ Never = Deadline + 1
  BY DeadlineAssumption DEF Never
<1>1. /\ Alive /\ handshaking = FALSE /\ handshaking' = FALSE
      /\ writeEnd = "open" /\ readEnd' = readEnd /\ ssl' = ssl
      /\ life' = life /\ writeAge' = 0
      /\ CanReceive' => CanReceive
      /\ reads \in {0, 1} /\ reads' \in {0, 1}
      /\ shutdowns' > shutdowns => ssl /\ writeEnd' = "closed"
      /\ shutdowns' > 0 => ssl
      /\ reads' > reads => shutdowns = 0
  BY TWriteFacts
<1>2. /\ readLeft \in 0..Never /\ writeLeft \in 0..Never
      /\ writeLeft + life >= Deadline /\ life \in 0..Deadline
      /\ readEnd # "upgraded" => readLeft <= Deadline /\ writeLeft <= Deadline
      /\ readAge \in 0..Never
  BY <1>1 DEF TInv, TTypeOK
<1>3. readAge' = IF reads' > reads THEN 0 ELSE readAge
  BY DEF TWrite
<1>4. /\ readLeft' \in {readLeft, Deadline}
      /\ writeLeft' \in {writeLeft, Deadline}
      /\ writing' # {} => writeLeft' = writeLeft
      /\ reads' > reads => readLeft' = Deadline
      /\ ~(reads' > reads) /\ reads > 0 => readLeft' = readLeft
  <2>1. CASE reads' > reads
    <3>1. PICK receiving \in BOOLEAN :
            (receiving => shutdowns > 0) /\ SetDeadline(receiving)
      BY <2>1 DEF TWrite, SetReadDeadline
    <3>2. receiving = FALSE
      BY <3>1, <2>1, <1>1
    <3> QED
      BY <3>1, <3>2, <2>1 DEF SetDeadline
  <2>2. CASE ~(reads' > reads) /\ shutdowns' > shutdowns
    <3>1. SetDeadline(Receiving)
      BY <2>2 DEF TWrite
    <3>2. readLeft' = IF Receiving THEN readLeft ELSE Deadline
      BY <3>1 DEF SetDeadline
    <3>3. writeLeft' = IF writing' # {} THEN writeLeft ELSE Deadline
      BY <3>1 DEF SetDeadline
    <3> QED
      BY <3>2, <3>3, <2>2 DEF Receiving
  <2>3. CASE ~(reads' > reads) /\ ~(shutdowns' > shutdowns)
    BY <2>3 DEF TWrite, timers
  <2> QED
    BY <2>1, <2>2, <2>3
<1>5. TTypeOK'
  BY <1>0, <1>1, <1>2, <1>3, <1>4 DEF TTypeOK
<1>6. (CanReceive' /\ reads' > 0) => readLeft' + readAge' <= Deadline
  <2> SUFFICES ASSUME CanReceive', reads' > 0
               PROVE  readLeft' + readAge' <= Deadline
    OBVIOUS
  <2>1. CASE reads' > reads
    BY <2>1, <1>0, <1>3, <1>4
  <2>2. CASE ~(reads' > reads)
    <3>1. reads > 0 /\ CanReceive
      BY <2>2, <1>1
    <3> QED
      BY <3>1, <2>2, <1>3, <1>4 DEF TInv
  <2> QED
    BY <2>1, <2>2
<1>7. (CanReceive' /\ writing' # {}) => writeLeft' + writeAge' <= Deadline
  <2> SUFFICES ASSUME CanReceive', writing' # {}
               PROVE  writeLeft' + writeAge' <= Deadline
    OBVIOUS
  <2>1. CanReceive /\ writeLeft' = writeLeft /\ writeAge' = 0
    BY <1>1, <1>4
  <2>2. writeLeft <= Deadline
    BY <2>1, <1>2 DEF TInv
  <2> QED
    BY <2>1, <2>2, <1>0, <1>2
<1>8. NothingWaitsTooLong'
  <2>0. writeAge' <= Deadline /\ ~handshaking'
    BY <1>0, <1>1
  <2>1. CASE reads' > reads
    <3>1. readAge' <= Deadline
      BY <2>1, <1>0, <1>3
    <3> QED
      BY <2>0, <3>1 DEF NothingWaitsTooLong
  <2>2. CASE ~(reads' > reads)
    <3>1. reads' > 0 => reads > 0
      BY <2>2, <1>1
    <3>2. readAge' = readAge
      BY <2>2, <1>3
    <3>3. CanReceive' /\ reads' > 0 => readAge' <= Deadline
      BY <1>1, <3>1, <3>2 DEF TInv, NothingWaitsTooLong
    <3> QED
      BY <2>0, <3>3 DEF NothingWaitsTooLong
  <2> QED
    BY <2>1, <2>2
<1>9. ReadHasFullTime'
  <2> SUFFICES ASSUME CanReceive', reads' > 0, ~(ssl' /\ writeEnd' = "closed")
               PROVE  readLeft' + readAge' = Deadline
    BY DEF ReadHasFullTime
  <2>1. CASE reads' > reads
    BY <2>1, <1>0, <1>3, <1>4
  <2>2. CASE ~(reads' > reads)
    <3>1. reads > 0 /\ CanReceive /\ writeEnd # "closed"
      BY <2>2, <1>1
    <3> QED
      BY <3>1, <2>2, <1>3, <1>4 DEF TInv, ReadHasFullTime
  <2> QED
    BY <2>1, <2>2
<1>10. writeLeft' + life' >= Deadline
  <2>1. CASE writeLeft' = writeLeft
    BY <2>1, <1>1, <1>2
  <2>2. CASE writeLeft' = Deadline
    BY <2>2, <1>0, <1>1, <1>2
  <2> QED
    BY <2>1, <2>2, <1>4
<1>11. readEnd' # "upgraded" => readLeft' <= Deadline /\ writeLeft' <= Deadline
  BY <1>0, <1>1, <1>2, <1>4
<1>12. readEnd' = "upgraded" => ~CanReceive'
  BY <1>1 DEF TInv
<1> QED
  BY <1>1, <1>5, <1>6, <1>7, <1>8, <1>9, <1>10, <1>11, <1>12
     DEF TInv, YoungSessionsWrite

\* The end of a shutdown, and a step that changes nothing, touch no timer.
LEMMA TShutdownTInv ==
  ASSUME IInv, TInv, TShutdown
  PROVE  TInv'
BY OutstandingFacts
   DEF TShutdown, OnShutdown, TInv, TTypeOK, NothingWaitsTooLong,
       ReadHasFullTime, YoungSessionsWrite, timers, ages, endVars, CanReceive,
       Alive, Never

\* A socket that was closed owes nobody any time.
LEMMA ExpireTInv ==
  ASSUME IInv, TInv, Expire
  PROVE  TInv'
BY OutstandingFacts
   DEF Expire, Timeout, TInv, TTypeOK, NothingWaitsTooLong,
       ReadHasFullTime, YoungSessionsWrite, timers, ages, endVars, CanReceive,
       Alive, Never

\* What a tick takes from a timer it adds to a life that is not at its bound.
LEMMA LifeMakesUp ==
  \A d, left, lived, left2, lived2 \in Nat :
    /\ lived <= d
    /\ left + lived >= d
    /\ left2 \in {left, left - 1}
    /\ lived2 = IF lived = d THEN lived ELSE lived + 1
    => lived2 \in 0..d /\ left2 + lived2 >= d
OBVIOUS

\* On a stream that was moved away a tick takes from the timers at most what it
\* adds to the life of the session.
LEMMA MovedTickTInv ==
  ASSUME IInv, TInv, Tick, ~CanReceive
  PROVE  TInv'
<1>0. Deadline \in Nat \ {0} /\ Never = Deadline + 1
  BY DeadlineAssumption DEF Never
<1>1. /\ UNCHANGED vars /\ stream = "released" /\ readEnd = "upgraded"
      /\ handshaking = FALSE /\ Alive
  BY OutstandingFacts DEF Tick, IInv
<1>2. /\ handshaking' = FALSE /\ shutdowns' = shutdowns /\ ssl' = ssl
      /\ stream' = "released" /\ readEnd' = "upgraded" /\ ~CanReceive'
  BY <1>1 DEF vars, opVars, endVars, CanReceive
<1>3. /\ readLeft \in 0..Never /\ writeLeft \in 0..Never
      /\ readAge \in 0..Never /\ writeAge \in 0..Never /\ life \in 0..Deadline
      /\ writeLeft + life >= Deadline
  BY <1>1 DEF TInv, TTypeOK
<1>4. /\ readLeft' \in 0..Never /\ writeLeft' \in 0..Never
      /\ writeLeft' \in {writeLeft, writeLeft - 1}
      /\ writeLeft = 0 => writeLeft' = 0
  BY <1>0, <1>3 DEF Tick, Less
<1>5. /\ readAge' \in 0..Never /\ writeAge' \in 0..Never
  BY <1>0, <1>3 DEF Tick, Older
<1>6. life' = IF life = Deadline THEN life ELSE life + 1
  BY <1>1 DEF Tick
<1>7. life' \in 0..Deadline /\ writeLeft' + life' >= Deadline
  <2>1. /\ Deadline \in Nat /\ writeLeft \in Nat /\ life \in Nat
        /\ writeLeft' \in Nat /\ life' \in Nat /\ life <= Deadline
    BY <1>0, <1>3, <1>4, <1>6
  <2> QED
    BY <2>1, <1>3, <1>4, <1>6, LifeMakesUp
<1> QED
  BY <1>1, <1>2, <1>4, <1>5, <1>7
     DEF TInv, TTypeOK, NothingWaitsTooLong, ReadHasFullTime, YoungSessionsWrite

\* Elsewhere a tick takes from the timers what it adds to the ages, and none
\* passes with a timer at its end.
LEMMA TickTInv ==
  ASSUME IInv, TInv, Tick, CanReceive
  PROVE  TInv'
<1>0. Deadline \in Nat \ {0} /\ Never = Deadline + 1
  BY DeadlineAssumption DEF Never
<1>1. UNCHANGED vars /\ Alive /\ readEnd # "upgraded"
  BY DEF Tick, TInv
<1>2. /\ handshaking' = handshaking /\ reads' = reads /\ writing' = writing
      /\ shutdowns' = shutdowns /\ ssl' = ssl /\ stream' = stream
      /\ readEnd' = readEnd /\ writeEnd' = writeEnd
      /\ (Alive' <=> Alive) /\ (CanReceive' <=> CanReceive)
  BY <1>1 DEF vars, opVars, endVars, Alive, CanReceive
<1>3. /\ readLeft \in 0..Deadline /\ writeLeft \in 0..Deadline
      /\ readAge \in 0..Never /\ writeAge \in 0..Never /\ life \in 0..Deadline
  BY <1>0, <1>1 DEF TInv, TTypeOK
<1>4. /\ readLeft' = IF readLeft = 0 THEN 0 ELSE readLeft - 1
      /\ writeLeft' = IF writeLeft = 0 THEN 0 ELSE writeLeft - 1
  BY <1>0, <1>3 DEF Tick, Less
<1>5. handshaking \/ reads > 0 =>
        /\ readLeft > 0 /\ readLeft + readAge <= Deadline
        /\ readLeft' = readLeft - 1 /\ readAge' = readAge + 1
  <2> SUFFICES ASSUME handshaking \/ reads > 0
               PROVE  /\ readLeft > 0 /\ readLeft + readAge <= Deadline
                      /\ readLeft' = readLeft - 1 /\ readAge' = readAge + 1
    OBVIOUS
  <2>1. readLeft + readAge <= Deadline
    BY <1>1 DEF TInv
  <2>2. readLeft > 0
    BY <1>1, <1>3 DEF Tick, ReadOverdue, Receiving
  <2>3. readAge' = Older(readAge)
    BY DEF Tick
  <2> QED
    BY <2>1, <2>2, <2>3, <1>0, <1>3, <1>4 DEF Older
<1>6. writing # {} =>
        /\ writeLeft > 0 /\ writeLeft + writeAge <= Deadline
        /\ writeLeft' = writeLeft - 1 /\ writeAge' = writeAge + 1
  <2> SUFFICES ASSUME writing # {}
               PROVE  /\ writeLeft > 0 /\ writeLeft + writeAge <= Deadline
                      /\ writeLeft' = writeLeft - 1 /\ writeAge' = writeAge + 1
    OBVIOUS
  <2>1. writeLeft + writeAge <= Deadline
    BY <1>1 DEF TInv
  <2>2. writeLeft > 0
    BY <1>1, <1>3 DEF Tick, WriteOverdue
  <2>3. writeAge' = Older(writeAge)
    BY DEF Tick
  <2> QED
    BY <2>1, <2>2, <2>3, <1>0, <1>3, <1>4 DEF Older
<1>7. /\ readAge' \in 0..Never /\ writeAge' \in 0..Never
      /\ life' \in 0..Deadline
      /\ handshaking => life' = life
      /\ ~handshaking /\ life # Deadline => life' = life + 1
      /\ life = Deadline => life' = Deadline
  BY <1>0, <1>3 DEF Tick, Older
<1>8. TTypeOK' /\ readLeft' <= Deadline /\ writeLeft' <= Deadline
  BY <1>0, <1>3, <1>4, <1>7 DEF TTypeOK
<1>9. ~handshaking /\ Alive => writeLeft' + life' >= Deadline
  <2>1. ~handshaking /\ Alive => writeLeft + life >= Deadline
    BY DEF TInv
  <2>2. ASSUME ~handshaking, Alive
        PROVE  writeLeft' + life' >= Deadline
    <3>1. CASE life = Deadline
      BY <3>1, <1>0, <1>3, <1>4, <1>7
    <3>2. CASE life # Deadline
      <4>1. life' = life + 1
        BY <2>2, <3>2, <1>7
      <4> QED
        BY <4>1, <2>1, <2>2, <1>0, <1>3, <1>4
    <3> QED
      BY <3>1, <3>2
  <2> QED
    BY <2>2
<1>10. /\ handshaking \/ reads > 0 => readLeft' + readAge' <= Deadline
       /\ writing # {} => writeLeft' + writeAge' <= Deadline
  BY <1>0, <1>3, <1>5, <1>6
<1>11. NothingWaitsTooLong'
  BY <1>0, <1>2, <1>3, <1>5, <1>6 DEF NothingWaitsTooLong
<1>12. ReadHasFullTime'
  <2>1. reads > 0 /\ ~(ssl /\ writeEnd = "closed") =>
          readLeft + readAge = Deadline
    BY <1>1 DEF TInv, ReadHasFullTime
  <2> QED
    BY <2>1, <1>0, <1>2, <1>3, <1>5 DEF ReadHasFullTime
<1>13. YoungSessionsWrite'
  <2>1. writing # {} => handshaking = FALSE /\ Alive
    BY OutstandingFacts DEF Alive
  <2> QED
    BY <2>1, <1>2, <1>9 DEF YoungSessionsWrite
<1> QED
  BY <1>1, <1>2, <1>7, <1>8, <1>9, <1>10, <1>11, <1>12, <1>13 DEF TInv

\* The session's timers are what TInv says, for every deadline.
THEOREM TimersInvariance == TSpec => []TInv
<1>1. TInit => TInv
  BY InitTInv
<1>2. IInv /\ IInv' /\ TInv /\ [TNext]_tvars => TInv'
  <2> SUFFICES ASSUME IInv, IInv', TInv, [TNext]_tvars
               PROVE  TInv'
    OBVIOUS
  <2>1. CASE THandshake
    BY <2>1, THandshakeTInv
  <2>2. CASE TRead
    BY <2>2, TReadTInv
  <2>3. CASE TWrite
    BY <2>3, TWriteTInv
  <2>4. CASE TShutdown
    BY <2>4, TShutdownTInv
  <2>5. CASE Expire
    BY <2>5, ExpireTInv
  <2>6. CASE Tick
    BY <2>6, TickTInv, MovedTickTInv
  <2>7. CASE UNCHANGED tvars
    BY <2>7
       DEF TInv, TTypeOK, NothingWaitsTooLong, ReadHasFullTime,
           YoungSessionsWrite, tvars, vars, timers, ages, opVars, endVars,
           CanReceive, Alive
  <2> QED
    BY <2>1, <2>2, <2>3, <2>4, <2>5, <2>6, <2>7 DEF TNext, Handlers
<1> QED
  BY <1>1, <1>2, TimedSessionInvariance, PTL DEF TSpec

\* No read, handshake or write is outstanding for longer than the deadline, on
\* a stream that the session still has.
THEOREM DeadlinesHold == TSpec => []NothingWaitsTooLong
<1>1. TInv => NothingWaitsTooLong
  BY DEF TInv
<1> QED
  BY <1>1, TimersInvariance, PTL

\* A peer has the whole deadline for each of its requests.
THEOREM FullTimeToRead == TSpec => []ReadHasFullTime
<1>1. TInv => ReadHasFullTime
  BY DEF TInv
<1> QED
  BY <1>1, TimersInvariance, PTL

\* No response of a session younger than the deadline is cut off.
THEOREM TimeToWrite == TSpec => []YoungSessionsWrite
<1>1. TInv => YoungSessionsWrite
  BY DEF TInv
<1> QED
  BY <1>1, TimersInvariance, PTL

-----------------------------------------------------------------------------
(* Neither handlers nor time go on for ever. *)

\* What is left on the two timers.
TimeLeft == readLeft + writeLeft

Measured == Effort \in Nat /\ TimeLeft \in Nat

\* A tick takes something off a timer that an outstanding operation is under,
\* if the session has its stream.
LEMMA TickUsesTime ==
  ASSUME IInv, TInv, Tick
  PROVE  Effort' = Effort /\ (CanReceive => TimeLeft' < TimeLeft)
<1>1. Effort' = Effort
  BY DEF Tick, vars, opVars, queueVars, endVars, Effort, Incoming, Outgoing,
         Expiring, CanReceive
<1>2. ASSUME CanReceive
      PROVE  TimeLeft' < TimeLeft
  <2>1. /\ Deadline \in Nat /\ Never = Deadline + 1
        /\ readLeft \in 0 .. Deadline /\ writeLeft \in 0 .. Deadline
    BY <1>2, DeadlineAssumption DEF TInv, TTypeOK, Never
  <2>2. readLeft # 0 \/ writeLeft # 0
    BY <1>2, OutstandingFacts
       DEF Tick, Alive, ReadOverdue, WriteOverdue, Receiving
  <2>3. /\ readLeft' = IF readLeft = 0 THEN 0 ELSE readLeft - 1
        /\ writeLeft' = IF writeLeft = 0 THEN 0 ELSE writeLeft - 1
    BY <2>1 DEF Tick, Less
  <2> QED
    BY <2>1, <2>2, <2>3 DEF TimeLeft
<1> QED
  BY <1>1, <1>2

\* Every step of a session under its timers does something towards its end, or
\* lets time pass that an outstanding operation has only so much of.  So with a
\* peer that never sends and never takes anything the session ends too.  On a
\* stream that was moved away it may only let time pass.
TowardsEnd ==
  \/ Effort' < Effort
  \/ Effort' = Effort /\ (CanReceive => TimeLeft' < TimeLeft)

THEOREM TimedTermination == TSpec => []Measured /\ [][TowardsEnd]_tvars
<1>1. IInv /\ WithinBound => EffortType
  BY EffortTyped
<1>2. EffortType /\ TInv => Measured
  <2> SUFFICES ASSUME EffortType, TInv
               PROVE  Measured
    OBVIOUS
  <2>1. readLeft \in Nat /\ writeLeft \in Nat
    BY DeadlineAssumption DEF TInv, TTypeOK, Never
  <2>2. TimeLeft \in Nat
    BY <2>1 DEF TimeLeft
  <2> QED
    BY <2>2, EffortNat DEF Measured
<1>3. /\ IInv /\ TInv /\ EffortType /\ EffortType' /\ [TNext]_tvars
      => [TowardsEnd]_tvars
  <2> SUFFICES ASSUME IInv, TInv, EffortType, EffortType', TNext
               PROVE  TowardsEnd
    OBVIOUS
  <2>1. CASE Tick
    BY <2>1, TickUsesTime DEF TowardsEnd
  <2>2. CASE Handlers \/ Expire
    <3>1. Next
      BY <2>2 DEF Handlers, THandshake, TRead, TWrite, TShutdown, Expire, Next
    <3> QED
      BY <3>1, StepEffort DEF TowardsEnd
  <2> QED
    BY <2>1, <2>2 DEF TNext
<1> QED
  BY <1>1, <1>2, <1>3, TimersInvariance, TimedSessionInvariance,
     ImplementsUntimed, ReadsWhatIsSent, PTL DEF TSpec

=============================================================================
