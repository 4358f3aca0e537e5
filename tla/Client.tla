------------------------------- MODULE Client -------------------------------
(***************************************************************************)
(* The repository's HTTP client, class signing of http/client/api.hpp with *)
(* the main function that runs it, talking to a TLS session of the server. *)
(* It sends one GET, reads the response, shuts TLS down and is gone.       *)
(*                                                                         *)
(* HttpSession's operations complete here because of what the client does, *)
(* or because a deadline of the server passes.  The client has none.       *)
(***************************************************************************)
EXTENDS HttpSession

VARIABLES
  version,     \* the HTTP version of the request, 10 or 11; rigid
  phase,       \* the client's outstanding operation, or how it ended
  requested,   \* its request is on its way
  clientBye,   \* its close_notify is on its way
  serverBye,   \* the server's is
  cut,         \* the network carries nothing any more between the two
  trouble      \* history: something outside the two programs went wrong

kvars == <<vars, version, phase, requested, clientBye, serverBye, cut, trouble>>

Phases == {"resolving", "connecting", "handshaking", "writing", "reading",
           "shutting", "done", "failed"}

\* The operation of the other side cannot go on.
Gone == phase \in {"done", "failed"}

\* A response is on its way to the client: its write is outstanding or done.
UnderWay == writing # {} \/ sent # <<>>

\* Mutant: the handler does not carry the request's keep-alive over.
ClosesAlways == TRUE

\* A request without keep-alive is answered with Connection: close; the client
\* sets no such field, so its version decides.
Closes == version = 10

\* main: the version that was asked for, and run(), which gives up if the
\* host name cannot be set for TLS.
KInit ==
  /\ Init
  /\ ssl
  /\ version \in {10, 11}
  /\ phase \in {"resolving", "failed"}
  /\ requested = FALSE
  /\ clientBye = FALSE
  /\ serverBye = FALSE
  /\ cut = FALSE
  /\ trouble = (phase = "failed")

-----------------------------------------------------------------------------
(* The client's handlers.  Each begins the next operation. *)

\* One operation completed, the next was begun.
Goes(from, to) ==
  /\ phase = from
  /\ phase' = to
  /\ UNCHANGED <<vars, version, serverBye, cut, trouble>>

OnResolve ==
  /\ Goes("resolving", "connecting")
  /\ UNCHANGED <<requested, clientBye>>

OnConnect ==
  /\ Goes("connecting", "handshaking")
  /\ UNCHANGED <<requested, clientBye>>

OnHandshaken ==
  /\ CanReceive
  /\ ~cut
  /\ Goes("handshaking", "writing")
  /\ requested' = TRUE
  /\ UNCHANGED clientBye

\* Mutant: the client says it is done as soon as it has sent its request.
OnWrittenShutsDown ==
  /\ Goes("writing", "reading")
  /\ clientBye' = TRUE
  /\ UNCHANGED requested

\* The operating system takes the request, whether the network does or not.
OnWritten ==
  /\ Goes("writing", "reading")
  /\ UNCHANGED <<requested, clientBye>>

\* Mutant: after the response the client reads on.
OnResponseReadsOn ==
  /\ UnderWay
  /\ Goes("reading", "reading")
  /\ UNCHANGED <<requested, clientBye>>

OnResponse ==
  /\ UnderWay
  /\ ~cut
  /\ Goes("reading", "shutting")
  /\ clientBye' = TRUE
  /\ UNCHANGED requested

\* The shutdown ends well only with the server's close_notify.
OnClosed ==
  /\ serverBye
  /\ ~cut
  /\ Goes("shutting", "done")
  /\ UNCHANGED <<requested, clientBye>>

\* The server's socket is closed, or it will say nothing of what is awaited.
ServerLost ==
  \/ stream = "closed"
  \/ phase = "reading" /\ ~UnderWay /\ ~Alive
  \/ phase = "shutting" /\ ~serverBye /\ ~Alive

\* A handler that gets an error reports it and begins nothing: run() of the
\* io_context returns, and the socket is destroyed.
Fail ==
  /\ phase' = "failed"
  /\ UNCHANGED <<vars, version, requested, clientBye, serverBye, cut>>

\* A network that is cut does not carry the end of the connection either.
OnLost ==
  /\ ~cut
  /\ phase \in {"handshaking", "writing", "reading", "shutting"}
  /\ ServerLost
  /\ Fail
  /\ UNCHANGED trouble

ClientHandlers ==
  \/ OnResolve \/ OnConnect \/ OnHandshaken \/ OnWritten \/ OnResponse
  \/ OnClosed \/ OnLost

-----------------------------------------------------------------------------
(* The session's handlers, as far as the client lets them run. *)

Connected == phase \notin {"resolving", "connecting"}

\* A session that begins to shut down says so.
Served ==
  /\ serverBye' = (serverBye \/ stream' = "shut")
  /\ UNCHANGED <<version, phase, requested, clientBye, cut>>

\* What is outstanding for reading fails: its deadline passed, the socket was
\* closed under it, or the client's end of the connection was.
ReadingFails == ~readOk \/ stream = "closed" \/ (phase = "failed" /\ ~cut)

Handshaken ==
  \/ HandshakeDone /\ (phase = "handshaking" \/ requested) /\ ~cut
  \/ HandshakeError /\ ReadingFails

\* What the client sent arrives in order.
Received ==
  \/ ReadRequest(Closes) /\ requested /\ nread = 0 /\ ~cut
  \/ ReadEof /\ clientBye /\ nread = 1 /\ ~cut
  \/ ReadError /\ ReadingFails

\* A response is written when the operating system has taken it.
Responded ==
  \E w \in writing :
    \/ WriteClose(w) \/ WriteNext(w)
    \/ WriteError(w) /\ (~writeOk \/ (phase = "failed" /\ ~clientBye /\ ~cut))

ShutDown ==
  /\ OnShutdown
  /\ stream = "closed" \/ ((clientBye \/ Gone) /\ ~cut)

SessionHandlers ==
  /\ Connected
  /\ Handshaken \/ Received \/ Responded \/ ShutDown
  /\ Served
  /\ UNCHANGED trouble

\* Mutant: reads have no deadline.
ExpiresUnlessReading ==
  /\ Connected
  /\ reads = 0
  /\ Timeout
  /\ Served
  /\ trouble' = TRUE

\* A deadline of the server's.
Expires ==
  /\ Connected
  /\ Timeout
  /\ Served
  /\ trouble' = TRUE

\* What neither program decides: an operation of the client fails, or the file
\* the server sends cannot be read, so that the client has not all of it.
Misfortune ==
  /\ \/ ~Gone /\ Fail
     \/ ~clientBye /\ (\E w \in writing : WriteError(w)) /\ Served
  /\ trouble' = TRUE

\* From here on the network carries nothing, no end of a connection either.
Cut ==
  /\ Connected
  /\ ~cut
  /\ cut' = TRUE
  /\ trouble' = TRUE
  /\ UNCHANGED <<vars, version, phase, requested, clientBye, serverBye>>

\* The run is over.
Over == Gone /\ (~Alive \/ ~Connected) /\ UNCHANGED kvars

KNext == ClientHandlers \/ SessionHandlers \/ Expires \/ Misfortune \/ Cut \/ Over

KSpec == KInit /\ [][KNext]_kvars

\* Handlers whose operation completed are called.  Deadlines and misfortunes
\* may come, but are not waited for.
KFairness == WF_kvars(ClientHandlers) /\ WF_kvars(SessionHandlers)

KFairSpec == KSpec /\ KFairness

-----------------------------------------------------------------------------
(* Properties *)

KTypeOK ==
  /\ version \in {10, 11}
  /\ phase \in Phases
  /\ requested \in BOOLEAN /\ clientBye \in BOOLEAN
  /\ serverBye \in BOOLEAN /\ cut \in BOOLEAN /\ trouble \in BOOLEAN

\* The two programs never wait for each other: without a misfortune and with
\* no need of a deadline the client gets its response, and both sides close
\* the connection gracefully (api.hpp 133-160, sessions.hpp 381-436, 552-588).
BothFinish == <>(trouble \/ (phase = "done" /\ ~Alive))

\* tst/.../client/api.cpp 124-125: "The call will return when the get
\* operation is complete".  The client has no timeouts, but as long as the
\* network carries the end of a connection the deadlines of the server end the
\* client's run too.  A client that is cut off waits for ever, or for its
\* operating system (api.hpp 105-160).
ClientReturns == WF_kvars(Expires) => <>(Gone \/ cut)

\* The session never closes gracefully on this client without its response: a
\* response whose write failed, or whose body broke off, is not followed by a
\* close_notify, which would make it look complete (api.hpp 118-148,
\* sessions.hpp 381-391, 416-426).
NoGoodbyeInstead == [][serverBye' # serverBye => UnderWay']_kvars

\* do_eof begins a TLS shutdown each time it is called, even while another is
\* outstanding on the same stream.  With this client that takes a response
\* that closes the connection (sessions.hpp 386-388, 423-428, 552-564).
ShutdownsOverlap == shutdowns <= 2 /\ (shutdowns = 2 => version = 10)

\* The invariant behind the last two, inductive with HttpSession's.
KInv ==
  /\ KTypeOK
  /\ ssl
  /\ nread <= 1
  /\ nread > 0 => requested
  /\ clientBye => nread = 1
  /\ readEnd = "eof" => nread = 1
  /\ \A i \in DOMAIN items : items[i].close = Closes
  /\ shutdowns <= (IF readEnd = "eof" THEN 1 ELSE 0)
                  + (IF writeEnd = "closed" THEN 1 ELSE 0)
  /\ writeEnd = "closed" => Closes /\ sent # <<>>
  /\ serverBye => readEnd = "eof" \/ writeEnd = "closed"
  /\ stream = "shut" => serverBye
  /\ clientBye /\ stream = "open" => UnderWay
  /\ writing # {} /\ ~writeOk => stream # "open"

\* Without a misfortune the client and the session agree on how far they are.
Untroubled ==
  /\ phase # "failed"
  /\ ~cut
  /\ stream \in {"open", "shut"}
  /\ readOk /\ writeOk
  /\ readEnd \in {"open", "eof"} /\ writeEnd \in {"open", "closed"}
  /\ requested <=> phase \in {"writing", "reading", "shutting", "done"}
  /\ clientBye <=> phase \in {"shutting", "done"}
  /\ UnderWay <=> nread = 1
  /\ nread = 0 => stream = "open" /\ shutdowns = 0 /\ (handshaking \/ reads > 0)
  /\ handshaking => nread = 0
  /\ serverBye <=> readEnd = "eof" \/ writeEnd = "closed"
  /\ stream = "open" <=> ~serverBye
  /\ phase = "done" => serverBye
  /\ readEnd = "open" =>
       handshaking \/ reads > 0 \/ writing # {} \/ writeEnd = "closed"

\* One of ClientHandlers may run.
ClientMayGoOn ==
  \/ phase \in {"resolving", "connecting", "writing"}
  \/ /\ ~cut
     /\ \/ phase = "handshaking" /\ CanReceive
        \/ phase = "reading" /\ UnderWay
        \/ phase = "shutting" /\ serverBye

\* One of SessionHandlers may run.
SessionMayGoOn ==
  /\ Connected /\ ~cut
  /\ \/ handshaking /\ readOk /\ (phase = "handshaking" \/ requested)
     \/ reads > 0 /\ readOk /\ nread = 0 /\ requested /\ MaxRequests > 0
     \/ reads > 0 /\ readOk /\ nread = 1 /\ clientBye
     \/ \E w \in writing : writeOk /\ ~DerefsReleased(w)
     \/ shutdowns > 0 /\ clientBye

\* Until both have finished, one of the two is not waiting for the other.
NeitherWaitsForEver ==
  MaxRequests > 0 /\ ~trouble =>
    (phase = "done" /\ ~Alive) \/ ClientMayGoOn \/ SessionMayGoOn

\* Whatever has happened but a cut, the client goes on, has lost the server, or
\* waits for a session that a deadline of its own ends.
ClientNotStranded ==
  \/ Gone \/ cut \/ ClientMayGoOn
  \/ phase \in {"handshaking", "writing", "reading", "shutting"} /\ ServerLost
  \/ Connected /\ CanReceive /\ Alive

\* The inductive invariant, and what it says about waiting.
KIInv ==
  /\ KInv
  /\ readEnd # "upgraded"
  /\ ~trouble => Untroubled
  /\ NeitherWaitsForEver
  /\ ClientNotStranded

=============================================================================
