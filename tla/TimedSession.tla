---------------------------- MODULE TimedSession ----------------------------
(***************************************************************************)
(* HttpSession with time: the two timers of a tcp_stream, one for reading  *)
(* and one for writing, that the session sets with expires_after.          *)
(*                                                                         *)
(* expires_after sets a timer only if no operation is outstanding in its   *)
(* direction.  An operation runs under the time its timer has left when it *)
(* begins; the timer goes on from there to the next operation.  When it    *)
(* has run out under an operation the socket is closed.                    *)
(*                                                                         *)
(* HttpSession lets a deadline pass at any moment and assumes that every   *)
(* operation completes; here both follow from the passing of time.  Time   *)
(* goes in ticks of which Deadline make 30 seconds.                        *)
(***************************************************************************)
EXTENDS HttpSession

CONSTANT Deadline   \* the time do_read, run and do_eof set, in ticks

ASSUME DeadlineAssumption == Deadline \in Nat \ {0}

VARIABLES
  readLeft,    \* what is left on the timer for reading
  writeLeft,   \* and on the one for writing
  readAge,     \* history: how long the read or handshake is outstanding
  writeAge,    \* history: how long the write is outstanding
  life         \* history: time since the first read was begun, to Deadline

timers == <<readLeft, writeLeft>>
ages == <<readAge, writeAge, life>>
tvars == <<vars, timers, ages>>

\* A timer that was set to expire never.
Never == Deadline + 1

\* An operation is under the timer for reading: a TLS shutdown is, while it
\* waits for the peer's.
Receiving == handshaking \/ reads > 0 \/ shutdowns > 0

\* Mutant: the timer is set only if both directions are idle.
SetDeadlineIfIdle(receiving) ==
  IF receiving \/ writing' # {}
    THEN UNCHANGED timers
    ELSE readLeft' = Deadline /\ writeLeft' = Deadline

\* Mutant: both timers are set, whatever is outstanding.
SetDeadlineAlways(receiving) ==
  /\ readLeft' = Deadline
  /\ writeLeft' = Deadline

\* Mutant: the deadline is taken off instead of set.
SetDeadlineOff(receiving) ==
  /\ readLeft' = IF receiving THEN readLeft ELSE Never
  /\ writeLeft' = IF writing' # {} THEN writeLeft ELSE Never

\* expires_after, with an operation under the timer for reading or not.  A
\* write that was just begun is outstanding already.
SetDeadline(receiving) ==
  /\ readLeft' = IF receiving THEN readLeft ELSE Deadline
  /\ writeLeft' = IF writing' # {} THEN writeLeft ELSE Deadline

\* expires_never, with no read outstanding.
SetNever ==
  /\ readLeft' = Never
  /\ writeLeft' = IF writing' # {} THEN writeLeft ELSE Never

\* do_read sets the deadline when no read is outstanding.  If a TLS shutdown
\* is, either of the two may be the one that waits for the socket.
SetReadDeadline ==
  \E receiving \in BOOLEAN :
    /\ receiving => shutdowns > 0
    /\ SetDeadline(receiving)

\* run() sets the deadline before the first operation, for plain and TLS.
TInit ==
  /\ Init
  /\ readLeft = Deadline
  /\ writeLeft = Deadline
  /\ readAge = 0
  /\ writeAge = 0
  /\ life = 0

\* Mutant: the first read of a TLS session runs under the time that the
\* handshake has left.
THandshakeLeftOver ==
  /\ OnHandshake
  /\ readAge' = 0
  /\ UNCHANGED <<timers, writeAge, life>>

THandshake ==
  /\ OnHandshake
  /\ IF reads' > 0 THEN SetReadDeadline ELSE UNCHANGED timers
  /\ readAge' = 0
  /\ UNCHANGED <<writeAge, life>>

\* on_read, which may begin a write, and then the next read or a shutdown; an
\* upgrade takes the deadline off.
TRead ==
  /\ OnRead
  /\ IF reads' > 0 THEN SetReadDeadline
     ELSE IF shutdowns' > shutdowns THEN SetDeadline(shutdowns > 0)
     ELSE IF readEnd' = "upgraded" THEN SetNever
     ELSE UNCHANGED timers
  /\ readAge' = 0
  /\ writeAge' = IF writing' = writing THEN writeAge ELSE 0
  /\ UNCHANGED life

\* on_write, which may begin the next write, a read, or a shutdown.
TWrite ==
  /\ OnWrite
  /\ IF reads' > reads THEN SetReadDeadline
     ELSE IF shutdowns' > shutdowns THEN SetDeadline(Receiving)
     ELSE UNCHANGED timers
  /\ readAge' = IF reads' > reads THEN 0 ELSE readAge
  /\ writeAge' = 0
  /\ UNCHANGED life

TShutdown == OnShutdown /\ UNCHANGED <<timers, ages>>

\* The timer ran out under an operation.
ReadOverdue == CanReceive /\ Receiving /\ readLeft = 0
WriteOverdue == CanReceive /\ writing # {} /\ writeLeft = 0

Expire ==
  /\ Timeout
  /\ \/ ReadOverdue /\ writeOk' = writeOk
     \/ WriteOverdue /\ ~writeOk'
  /\ UNCHANGED <<timers, ages>>

Less(t) == IF t \in {0, Never} THEN t ELSE t - 1

\* Bound: an age is not told apart from any other beyond the deadline.
Older(age) == IF age > Deadline THEN age ELSE age + 1

\* A tick passes.  Nobody looks at a clock while the timers of an outstanding
\* operation have run out or its socket was closed: that comes first.  On a
\* stream that was moved away time passes, but no timer of the session ends
\* what is still outstanding there.
Tick ==
  /\ Alive
  /\ CanReceive \/ stream = "released"
  /\ ~ReadOverdue
  /\ ~WriteOverdue
  /\ readLeft' = Less(readLeft)
  /\ writeLeft' = Less(writeLeft)
  /\ readAge' = IF handshaking \/ reads > 0 THEN Older(readAge) ELSE readAge
  /\ writeAge' = IF writing # {} THEN Older(writeAge) ELSE writeAge
  /\ life' = IF handshaking \/ life = Deadline THEN life ELSE life + 1
  /\ UNCHANGED vars

Handlers == THandshake \/ TRead \/ TWrite \/ TShutdown

TNext == Handlers \/ Expire \/ Tick

TSpec == TInit /\ [][TNext]_tvars

\* Time passes, a timer that ran out has its effect, and the operations of a
\* socket that was closed complete and are handled.  So do those of one that
\* was moved into a WebSocket session: this is assumed, for no timer here ends
\* them.  That a peer sends or takes anything is not assumed.
TFairness ==
  /\ WF_tvars(Tick)
  /\ WF_tvars(Expire)
  /\ WF_tvars(~CanReceive /\ Handlers)

TFairSpec == TSpec /\ TFairness

-----------------------------------------------------------------------------
(* Properties *)

TTypeOK ==
  /\ readLeft \in 0..Never /\ writeLeft \in 0..Never
  /\ readAge \in 0..Never /\ writeAge \in 0..Never
  /\ life \in 0..Deadline

\* While the session has its socket, no read, handshake or write is outstanding
\* for longer than the deadline, although most operations begin under a timer
\* some earlier one was given (sessions.hpp 366-369, 516-526).  A write that an
\* upgrade leaves behind on the stream it moves may be: there this fails.
NothingWaitsTooLong ==
  CanReceive =>
    /\ handshaking \/ reads > 0 => readAge <= Deadline
    /\ writing # {} => writeAge <= Deadline

\* A peer has the whole deadline for each request, counted from when the
\* session begins to read it: also for the one after a handshake, and for the
\* one whose reading had to wait for room in the queue.  Only once
\* a TLS session shuts down may a read have less (sessions.hpp 366-379,
\* 430-435).
ReadHasFullTime ==
  (CanReceive /\ reads > 0 /\ ~(ssl /\ writeEnd = "closed")) =>
    readLeft + readAge = Deadline

\* A response may have less, since its timer is not set again while responses
\* are written one after another; but not because of a handshake, and not
\* before the session is as old as the deadline: no response of a young session
\* is cut off (sessions.hpp 366-369, 416-436).
YoungSessionsWrite ==
  (writing # {} /\ stream # "released") => writeLeft + life >= Deadline

\* The inductive invariant behind the three, with HttpSession's.
TInv ==
  /\ TTypeOK
  /\ (CanReceive /\ (handshaking \/ reads > 0)) =>
       readLeft + readAge <= Deadline
  /\ (CanReceive /\ writing # {}) => writeLeft + writeAge <= Deadline
  /\ (Alive /\ ~handshaking) => writeLeft + life >= Deadline
  /\ handshaking => life = 0 /\ shutdowns = 0
  /\ shutdowns > 0 => ssl
  /\ readEnd = "upgraded" => ~CanReceive
  /\ readEnd # "upgraded" => readLeft <= Deadline /\ writeLeft <= Deadline
  /\ NothingWaitsTooLong
  /\ ReadHasFullTime
  /\ YoungSessionsWrite

\* What HttpSession assumes of deadlines and of the completion of operations
\* follows from the timers: they keep every operation from waiting for ever,
\* with a peer that never sends and never takes anything, on any stream that
\* was not moved away.
TimeMakesFair == FairSpec

=============================================================================
