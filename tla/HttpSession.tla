---------------------------- MODULE HttpSession ----------------------------
(***************************************************************************)
(* One HTTP connection: http_session<Derived> with its pipelining queue,   *)
(* and the two derived classes, plain_http_session and ssl_http_session    *)
(* (http/server/sessions.hpp).                                             *)
(*                                                                         *)
(* Every handler of a connection runs on the connection's own strand, so a *)
(* handler is one atomic step.  Between two handlers live the asynchronous *)
(* operations the session has begun: each is a piece of state here, and    *)
(* its completion is an action.  The session object itself lives exactly   *)
(* as long as some operation holds a shared_ptr to it (Alive).             *)
(*                                                                         *)
(* Time is abstract: the 30 second deadline a handler sets before it       *)
(* begins an operation may pass at any moment while one is outstanding     *)
(* (Timeout).  Requests are numbered in the order they are read; of their  *)
(* content only what the session tells apart is kept: whether the          *)
(* connection must close after the response, or is upgraded to WebSocket.  *)
(*                                                                         *)
(* Definitions whose comment starts with "Mutant" are not part of the      *)
(* model: each is a plausible mistake in the definition after it, used to  *)
(* show that the properties notice the difference.                         *)
(***************************************************************************)
EXTENDS Naturals, Sequences

CONSTANTS
  Limit,         \* queue::limit, the most responses the queue holds (8)
  MaxRequests    \* bound: how many requests the peer sends

\* static_assert(limit > 0) in the queue's constructor.
ASSUME LimitAssumption == Limit \in Nat \ {0}
ASSUME MaxRequestsAssumption == MaxRequests \in Nat

VARIABLES
  ssl,           \* TRUE: ssl_http_session, FALSE: plain_http_session; rigid
  handshaking,   \* a TLS handshake is outstanding
  reads,         \* how many async_read operations are outstanding
  readOk,        \* FALSE: the outstanding read or handshake can only fail
  writing,       \* the work items whose async_write is outstanding
  writeOk,       \* FALSE: the outstanding write can only fail
  shutdowns,     \* how many async_shutdown operations are outstanding (TLS)
  items,         \* items_, the responses queued, the one being sent first
  nread,         \* how many requests were handed to the request handler
  sent,          \* history: the responses written completely, in that order
  readEnd,       \* why no further read will be begun, "open" until then
  writeEnd,      \* why no further response will be written
  stream         \* the state of the socket the session talks through

opVars == <<handshaking, reads, readOk, writing, writeOk, shutdowns>>
queueVars == <<items, nread, sent>>
endVars == <<readEnd, writeEnd, stream>>
vars == <<ssl, opVars, queueVars, endVars>>

\* A queued response: the request it answers, and whether its message needs
\* the end of the connection to delimit it or ends a "Connection: close"
\* exchange (need_eof).
Work == [req : Nat, close : BOOLEAN]

TypeOK ==
  /\ ssl \in BOOLEAN
  /\ handshaking \in BOOLEAN
  /\ reads \in Nat
  /\ readOk \in BOOLEAN
  /\ writing \in SUBSET Work
  /\ writeOk \in BOOLEAN
  /\ shutdowns \in Nat
  /\ items \in Seq(Work)
  /\ nread \in Nat
  /\ sent \in Seq(Work)
  /\ readEnd \in {"open", "eof", "error", "upgraded"}
  /\ writeEnd \in {"open", "closed", "failed"}
  /\ stream \in {"open", "shut", "closed", "released", "crashed"}

\* The session exists: an outstanding operation's handler holds it.
Alive == handshaking \/ reads > 0 \/ writing # {} \/ shutdowns > 0

\* Data can still be received from, and sent to, the peer.  "shut" is a
\* socket whose sending side was shut down, "closed" one closed by a deadline
\* and "released" one moved into a WebSocket session.
CanReceive == stream \in {"open", "shut"}
CanSend == stream = "open"

-----------------------------------------------------------------------------
(* The queue. *)

\* Mutant: the queue takes one response too many.
IsFullLate(q) == Len(q) > Limit

IsFull(q) == Len(q) >= Limit

\* Mutant: the newest response goes ahead of the waiting ones.
PushFront(q, w) == IF Len(q) < 2 THEN Append(q, w)
                   ELSE <<Head(q), w>> \o Tail(q)

Push(q, w) == Append(q, w)

\* Mutant: every response is sent as soon as it is queued.
AlwaysStarts(q) == q # <<>>

\* queue::operator() starts the write of a response queued behind no other.
StartsOnPush(q) == Len(q) = 1

\* Mutant: the fullness of the queue is taken after the erase.
FullAfterErase(q) == IsFull(Tail(q))

\* What queue::on_write returns for the queue it finds: should a read be
\* begun again.
WasFull(q) == IsFull(q)

-----------------------------------------------------------------------------
(* Beginning and ending operations. *)

\* do_read: a new parser, a new deadline, and an async_read.
DoRead(outstanding) ==
  /\ reads' = outstanding + 1
  /\ readOk' = CanReceive

\* The read completed and no other is begun.
NoRead ==
  /\ reads' = reads - 1
  /\ UNCHANGED readOk

\* Work items start their async_write on the session's stream.
BeginWrite(others, w) ==
  /\ writing' = others \cup {w}
  /\ writeOk' = CanSend

\* do_eof of the plain session shuts down the sending side of the socket.  On
\* a socket already closed or moved away that fails, and is ignored.
PlainDoEof ==
  /\ stream' = IF stream = "open" THEN "shut" ELSE stream
  /\ UNCHANGED shutdowns

\* do_eof of the TLS session begins an async_shutdown, whose close_notify has
\* the same effect on the stream.
SslDoEof ==
  /\ stream' = IF stream = "open" THEN "shut" ELSE stream
  /\ shutdowns' = shutdowns + 1

DoEof == IF ssl THEN SslDoEof ELSE PlainDoEof

\* After release_stream a TLS session has no implementation object left: what
\* still begins a write or a shutdown on it dereferences null.  This is what
\* on_write does for the response w.
DerefsReleased(w) ==
  ssl /\ stream = "released" /\ (w.close \/ Len(items) > 1)

-----------------------------------------------------------------------------
(* run(): the state in which a session is launched. *)

PlainRun == ~handshaking /\ reads = 1
SslRun == handshaking /\ reads = 0

Init ==
  /\ ssl \in BOOLEAN
  /\ handshaking \in BOOLEAN
  /\ reads \in {0, 1}
  /\ IF ssl THEN SslRun ELSE PlainRun
  /\ readOk = TRUE
  /\ writing = {}
  /\ writeOk = TRUE
  /\ shutdowns = 0
  /\ items = <<>>
  /\ nread = 0
  /\ sent = <<>>
  /\ readEnd = "open"
  /\ writeEnd = "open"
  /\ stream = "open"

-----------------------------------------------------------------------------
(* on_handshake *)

HandshakeError ==
  /\ handshaking
  /\ handshaking' = FALSE
  /\ readEnd' = "error"
  /\ UNCHANGED <<ssl, reads, readOk, writing, writeOk, shutdowns, queueVars,
                 writeEnd, stream>>

HandshakeDone ==
  /\ handshaking
  /\ readOk
  /\ handshaking' = FALSE
  /\ DoRead(reads)
  /\ UNCHANGED <<ssl, writing, writeOk, shutdowns, queueVars, endVars>>

OnHandshake == HandshakeError \/ HandshakeDone

-----------------------------------------------------------------------------
(* on_read: one action for each way the handler can go. *)

\* end_of_stream: the peer ended its side of the connection.
ReadEof ==
  /\ reads > 0
  /\ readOk
  /\ NoRead
  /\ readEnd' = "eof"
  /\ DoEof
  /\ UNCHANGED <<ssl, handshaking, writing, writeOk, queueVars, writeEnd>>

\* Mutant: the read is retried after an error.
ReadErrorRetried ==
  /\ reads > 0
  /\ DoRead(reads - 1)
  /\ UNCHANGED <<ssl, handshaking, writing, writeOk, shutdowns, queueVars,
                 endVars>>

\* Any other error: reported, and the reading side stops.
ReadError ==
  /\ reads > 0
  /\ NoRead
  /\ readEnd' = "error"
  /\ UNCHANGED <<ssl, handshaking, writing, writeOk, shutdowns, queueVars,
                 writeEnd, stream>>

\* Mutant: on_read goes on to the next read after it made the websocket.
ReadUpgradeGoesOn ==
  /\ reads > 0
  /\ readOk
  /\ reads' = reads
  /\ readOk' = FALSE
  /\ readEnd' = "upgraded"
  /\ stream' = "released"
  /\ UNCHANGED <<ssl, handshaking, writing, writeOk, shutdowns, queueVars,
                 writeEnd>>

\* A WebSocket upgrade: the stream is moved into a websocket session.
ReadUpgrade ==
  /\ reads > 0
  /\ readOk
  /\ NoRead
  /\ readEnd' = "upgraded"
  /\ stream' = "released"
  /\ UNCHANGED <<ssl, handshaking, writing, writeOk, shutdowns, queueVars,
                 writeEnd>>

\* A request: handle_request queues exactly one response, which is started if
\* it is alone; another request is read unless the queue is now full.
ReadRequest(close) ==
  LET w == [req |-> nread + 1, close |-> close]
      q == Push(items, w)
  IN  /\ reads > 0
      /\ readOk
      /\ nread < MaxRequests
      /\ nread' = nread + 1
      /\ items' = q
      /\ IF StartsOnPush(q) THEN BeginWrite(writing, w)
                            ELSE UNCHANGED <<writing, writeOk>>
      /\ IF IsFull(q) THEN NoRead ELSE DoRead(reads - 1)
      /\ UNCHANGED <<ssl, handshaking, shutdowns, sent, endVars>>

OnRead ==
  \/ ReadEof
  \/ ReadError
  \/ ReadUpgrade
  \/ \E close \in BOOLEAN : ReadRequest(close)

-----------------------------------------------------------------------------
(* on_write for the work item w, one action for each way it can go. *)

\* Mutant: on_write goes on to do_eof after an error.
WriteErrorShutsDown(w) ==
  /\ w \in writing
  /\ writing' = writing \ {w}
  /\ writeEnd' = "failed"
  /\ DoEof
  /\ UNCHANGED <<ssl, handshaking, reads, readOk, writeOk, queueVars, readEnd>>

\* A failed write is reported.  The queue is left as it is, so nothing is
\* written any more; an outstanding read goes on.
WriteError(w) ==
  /\ w \in writing
  /\ writing' = writing \ {w}
  /\ writeEnd' = "failed"
  /\ UNCHANGED <<ssl, handshaking, reads, readOk, writeOk, shutdowns, queueVars,
                 readEnd, stream>>

\* Mutant: the queue is advanced before the close flag is looked at.
WriteCloseErases(w) ==
  /\ w \in writing
  /\ writeOk
  /\ w.close
  /\ ~DerefsReleased(w)
  /\ writing' = writing \ {w}
  /\ items' = Tail(items)
  /\ sent' = Append(sent, w)
  /\ writeEnd' = "closed"
  /\ DoEof
  /\ UNCHANGED <<ssl, handshaking, reads, readOk, writeOk, nread, readEnd>>

\* The response that ends the connection was written: the sending side is
\* shut down and the queue, w still in front of it, is not advanced.
WriteClose(w) ==
  /\ w \in writing
  /\ writeOk
  /\ w.close
  /\ ~DerefsReleased(w)
  /\ writing' = writing \ {w}
  /\ sent' = Append(sent, w)
  /\ writeEnd' = "closed"
  /\ DoEof
  /\ UNCHANGED <<ssl, handshaking, reads, readOk, writeOk, items, nread,
                 readEnd>>

\* Mutant: the next response waits for somebody else to start it.
NeverStarts(q) == FALSE

\* queue::on_write starts the response that is now in front.
StartsOnPop(q) == q # <<>>

\* Any other response: the queue drops it and starts the next one; if it was
\* full, reading had stopped and is begun again.
WriteNext(w) ==
  /\ w \in writing
  /\ writeOk
  /\ ~w.close
  /\ ~DerefsReleased(w)
  /\ sent' = Append(sent, w)
  /\ items' = Tail(items)
  /\ IF StartsOnPop(Tail(items))
       THEN BeginWrite(writing \ {w}, Head(Tail(items)))
       ELSE /\ writing' = writing \ {w}
            /\ UNCHANGED writeOk
  /\ IF WasFull(items) THEN DoRead(reads) ELSE UNCHANGED <<reads, readOk>>
  /\ UNCHANGED <<ssl, handshaking, shutdowns, nread, endVars>>

\* A null dereference ends the process.
Crash ==
  /\ stream' = "crashed"
  /\ reads' = 0
  /\ writing' = {}
  /\ shutdowns' = 0
  /\ UNCHANGED <<ssl, handshaking, readOk, writeOk, nread, readEnd>>

\* In do_eof, or in the start of the next response.
WriteCrash(w) ==
  /\ w \in writing
  /\ writeOk
  /\ DerefsReleased(w)
  /\ sent' = Append(sent, w)
  /\ IF w.close THEN writeEnd' = "closed" /\ UNCHANGED items
                ELSE items' = Tail(items) /\ UNCHANGED writeEnd
  /\ Crash

\* Or before on_write, where async_write goes on to the rest of a message of
\* which it has sent a part.
WriteBreaksOff(w) ==
  /\ w \in writing
  /\ writeOk
  /\ ssl /\ stream = "released"
  /\ Crash
  /\ UNCHANGED <<items, sent, writeEnd>>

OnWrite ==
  \E w \in writing :
    \/ WriteError(w) \/ WriteClose(w) \/ WriteNext(w)
    \/ WriteCrash(w) \/ WriteBreaksOff(w)

-----------------------------------------------------------------------------
(* on_shutdown: successful or not, nothing follows. *)

OnShutdown ==
  /\ shutdowns > 0
  /\ shutdowns' = shutdowns - 1
  /\ UNCHANGED <<ssl, handshaking, reads, readOk, writing, writeOk, queueVars,
                 endVars>>

\* A deadline passes: the socket is closed, the operation that waited too
\* long fails, and any other may have completed already or fails too.
Timeout ==
  /\ CanReceive
  /\ \/ /\ handshaking \/ reads > 0
        /\ readOk' = FALSE
        /\ UNCHANGED writeOk
     \/ /\ writing # {}
        /\ writeOk' = FALSE
        /\ UNCHANGED readOk
     \/ /\ shutdowns > 0
        /\ UNCHANGED <<readOk, writeOk>>
  /\ stream' = "closed"
  /\ UNCHANGED <<ssl, handshaking, reads, writing, shutdowns, queueVars,
                 readEnd, writeEnd>>

Next == OnHandshake \/ OnRead \/ OnWrite \/ OnShutdown \/ Timeout

Spec == Init /\ [][Next]_vars

\* Every operation is begun under a deadline and completes, with an error if
\* nothing else, and the threads in io_context::run call every handler.
Fairness ==
  /\ WF_vars(OnHandshake)
  /\ WF_vars(OnRead)
  /\ WF_vars(OnWrite)
  /\ WF_vars(OnShutdown)

FairSpec == Spec /\ Fairness

-----------------------------------------------------------------------------
(* Properties *)

\* How many of the responses in the queue were already written: the one that
\* closed the connection stays in front.
Written == IF writeEnd = "closed" THEN 1 ELSE 0

\* do_read replaces parser_ and a work item owns the message its write reads
\* from, so the session may have at most one async_read outstanding, and at
\* most one async_write, always that of the response in front of items_:
\* two reads, two interleaved responses or an item erased under its write
\* would be undefined (sessions.hpp 281-289, 358-379).
OneOperationPerDirection ==
  /\ reads <= 1
  /\ handshaking => reads = 0
  /\ \A w \in writing : items # <<>> /\ w = Head(items)

\* The queue never holds more than limit responses, and the session reads
\* exactly while the queue has room: a full queue stops the reading and the
\* write that makes room resumes it, whichever of on_read and on_write comes
\* first (sessions.hpp 410-412, 430-435).
Backpressure ==
  /\ Len(items) <= Limit
  /\ (readEnd = "open" /\ ~handshaking) => (reads > 0 <=> Len(items) < Limit)

\* Every request handed to the handler has exactly one response, which is
\* written or queued; responses are written in the order the requests were
\* read, and none after the one that closes the connection (sessions.hpp
\* 243-331, 415-436).
ResponsesInOrder ==
  /\ Len(sent) + Len(items) = nread + Written
  /\ \A i \in DOMAIN sent :
       /\ sent[i].req = i
       /\ sent[i].close => i = Len(sent) /\ writeEnd # "open"
  /\ \A i \in DOMAIN items : items[i].req = Len(sent) - Written + i

\* Once the closing response was written, or a write failed, the session may
\* go on reading requests until the queue is full, but no response is begun
\* or written any more: on_write returns before it advances the queue, so the
\* queue never becomes empty again (sessions.hpp 420-428, 327-329).
CloseIsFinal ==
  [][writeEnd # "open" => writing = {} /\ writing' = {} /\ sent' = sent]_vars

\* A session whose last operation completed is destroyed.  That happens only
\* after one of its sides ended for a stated reason, and with unanswered
\* requests only if the writing side did: it never just stops with a healthy
\* peer waiting (sessions.hpp 416-436).
DeathIsExplained ==
  (~Alive /\ stream # "crashed") =>
    /\ readEnd # "open" \/ writeEnd # "open"
    /\ items # <<>> => writeEnd # "open"

\* sessions.hpp 400-401: "Create a websocket session, transferring ownership
\* of both the socket and the HTTP request".  When no response is waiting, the
\* upgrade leaves the HTTP session without any operation on the socket, and so
\* without any owner: neither a read it began again nor a shutdown under way
\* can take bytes from the WebSocket session (sessions.hpp 393-405).  With a
\* response waiting that is not so: its write goes on, on a moved-from stream.
CleanTransfer == (stream = "released" /\ items = <<>>) => ~Alive

\* The inductive invariant behind the safety properties.
IInv ==
  /\ TypeOK
  /\ OneOperationPerDirection
  /\ Backpressure
  /\ ResponsesInOrder
  /\ handshaking => readEnd = "open" /\ items = <<>>
  /\ readEnd # "open" => reads = 0 /\ Len(items) < Limit
  /\ (writeEnd = "open" /\ items # <<>> /\ stream # "crashed") =>
       writing = {Head(items)}
  /\ writeEnd # "open" => writing = {} /\ items # <<>>
  /\ stream \in {"released", "crashed"} => readEnd = "upgraded"
  /\ stream = "crashed" => ~Alive
  /\ shutdowns > 0 => readEnd = "eof" \/ writeEnd = "closed"

\* A peer sends finitely many requests here: the session then ends, and its
\* object with it, whatever fails and in whatever order.  No handler begins
\* operations for ever on a connection that is over (sessions.hpp 381-436).
SessionEnds == <>[]~Alive

\* The session implements the promise of Pipeline: received requests are
\* answered in turn, and one that can be answered is.
Promise ==
  INSTANCE Pipeline WITH
    Window <- Limit,
    received <- nread,
    answered <- [i \in DOMAIN sent |-> sent[i].req],
    finished <- writeEnd # "open" \/ stream = "crashed"

ImplementsPipeline == Promise!Spec

\* sessions.hpp 492 and 587: "At this point the connection is closed
\* gracefully".  When the session shuts down its sending side because the
\* peer ended its own, no response may be queued behind one being written
\* that does not end the connection: it could only be lost.
GracefulEof ==
  (readEnd = "eof" /\ stream = "shut" /\ items # <<>> /\ ~Head(items).close)
    => Len(items) = 1

=============================================================================
