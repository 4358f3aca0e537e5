------------------------------ MODULE Listener ------------------------------
(***************************************************************************)
(* How a connection reaches its HTTP session: the listener accepts it, a   *)
(* detect_session looks at its first bytes, and then hands the stream and  *)
(* those bytes to a plain or a TLS http_session (http/server/server.cpp).  *)
(*                                                                         *)
(* The listener and every connection have strands of their own, and the    *)
(* threads of the service interleave their handlers: a handler is one      *)
(* action.  An object lives as long as an operation or a posted handler    *)
(* holds it.  Of an HTTP session only what concerns this module is kept:   *)
(* that it handles requests, for which it reads the settings it was given  *)
(* a reference to, and that it ends; the rest is HttpSession.              *)
(*                                                                         *)
(* Definitions whose comment starts with "Mutant" are not part of the      *)
(* model: each is a plausible mistake in the definition after it.          *)
(***************************************************************************)
EXTENDS FiniteSets, Naturals

CONSTANTS
  Connections   \* bound: the connections that peers make

ASSUME ConnectionsAssumption == IsFiniteSet(Connections)

VARIABLES
  setup,      \* what the listener's constructor does next, then run()
  acceptor,   \* the state of the acceptor
  accepts,    \* how many async_accept operations are outstanding
  backlog,    \* the connections the kernel has not handed out yet
  arrived,    \* the connections made so far
  detector,   \* what each connection's detect_session waits for
  deadline,   \* the connections whose stream has a deadline
  peeked,     \* the connections whose detector has read their first bytes
  owners,     \* the sessions each connection's stream was moved into
  given,      \* the sessions that were given the bytes the detector read
  serving,    \* the connections whose http_session is alive
  stopped,    \* the io_context was stopped
  fault       \* a session read settings that no longer exist

vars == <<setup, acceptor, accepts, backlog, arrived, detector, deadline, peeked,
          owners, given, serving, stopped, fault>>

detectVars == <<detector, deadline, peeked>>
sessionVars == <<owners, given, serving, fault>>

TypeOK ==
  /\ setup \in {"open", "set_option", "bind", "listen", "run", "done"}
  /\ acceptor \in {"unopened", "open", "bound", "listening"}
  /\ accepts \in Nat
  /\ backlog \in SUBSET Connections
  /\ arrived \in SUBSET Connections
  /\ detector \in [Connections -> {"none", "posted", "detecting", "gone"}]
  /\ deadline \in SUBSET Connections
  /\ peeked \in SUBSET Connections
  /\ owners \in [Connections -> SUBSET {"plain", "ssl"}]
  /\ given \in [Connections -> SUBSET {"plain", "ssl"}]
  /\ serving \in SUBSET Connections
  /\ stopped \in BOOLEAN
  /\ fault \in BOOLEAN

Init ==
  /\ setup = "open"
  /\ acceptor = "unopened"
  /\ accepts = 0
  /\ backlog = {}
  /\ arrived = {}
  /\ detector = [c \in Connections |-> "none"]
  /\ deadline = {}
  /\ peeked = {}
  /\ owners = [c \in Connections |-> {}]
  /\ given = [c \in Connections |-> {}]
  /\ serving = {}
  /\ stopped = FALSE
  /\ fault = FALSE

-----------------------------------------------------------------------------
(* listener::listener and listener::run *)

\* A call of the constructor on the acceptor: the next one follows, unless it
\* fails, which is reported and ends the constructor.
Call(name, then, state) ==
  /\ setup = name
  /\ \/ acceptor' = state /\ setup' = then
     \/ UNCHANGED acceptor /\ setup' = "run"
  /\ UNCHANGED <<accepts, backlog, arrived, detectVars, sessionVars, stopped>>

Open == Call("open", "set_option", "open")
SetOption == Call("set_option", "bind", "open")
Bind == Call("bind", "listen", "bound")
Listen == Call("listen", "run", "listening")

\* do_accept begins one accept beside those outstanding.
DoAccept(outstanding) == accepts' = outstanding + 1

\* run(): do_accept, however the constructor ended.
Run ==
  /\ setup = "run"
  /\ setup' = "done"
  /\ DoAccept(accepts)
  /\ UNCHANGED <<acceptor, backlog, arrived, detectVars, sessionVars, stopped>>

Construct == Open \/ SetOption \/ Bind \/ Listen \/ Run

\* A peer connects: the kernel queues it, where the acceptor listens.
Connect(c) ==
  /\ acceptor = "listening"
  /\ c \notin arrived
  /\ arrived' = arrived \cup {c}
  /\ backlog' = backlog \cup {c}
  /\ UNCHANGED <<setup, acceptor, accepts, detectVars, sessionVars, stopped>>

-----------------------------------------------------------------------------
(* listener::on_accept *)

\* Mutant: nothing is accepted any more after an error.
AcceptErrorReturns ==
  /\ accepts > 0
  /\ accepts' = accepts - 1
  /\ UNCHANGED <<setup, acceptor, backlog, arrived, detectVars, sessionVars,
                 stopped>>

\* The accept failed: reported, and another one is begun at once.  Without a
\* listening acceptor that is all that ever happens.
AcceptError ==
  /\ accepts > 0
  /\ DoAccept(accepts - 1)
  /\ UNCHANGED <<setup, acceptor, backlog, arrived, detectVars, sessionVars,
                 stopped>>

\* A detector is made; its run() posts on_run to the connection's strand.
MakeDetector(c) == detector' = [detector EXCEPT ![c] = "posted"]

AcceptConnection(c) ==
  /\ accepts > 0
  /\ c \in backlog
  /\ backlog' = backlog \ {c}
  /\ MakeDetector(c)
  /\ DoAccept(accepts - 1)
  /\ UNCHANGED <<setup, acceptor, arrived, deadline, peeked, sessionVars,
                 stopped>>

-----------------------------------------------------------------------------
(* detect_session *)

\* Mutant: the detection has no deadline.
NoDeadline(c) == UNCHANGED deadline

\* stream_.expires_after(30s)
SetDeadline(c) == deadline' = deadline \cup {c}

OnRun(c) ==
  /\ detector[c] = "posted"
  /\ detector' = [detector EXCEPT ![c] = "detecting"]
  /\ SetDeadline(c)
  /\ UNCHANGED <<setup, acceptor, accepts, backlog, arrived, peeked,
                 sessionVars,
                 stopped>>

\* async_detect_ssl reads bytes into buffer_ until it can tell.
PeerSends(c) ==
  /\ detector[c] = "detecting"
  /\ c \notin peeked
  /\ peeked' = peeked \cup {c}
  /\ UNCHANGED <<setup, acceptor, accepts, backlog, arrived, detector, deadline,
                 sessionVars, stopped>>

\* The deadline passes, or the peer goes away, before the bytes tell.
DetectFails(c, why) ==
  /\ detector[c] = "detecting"
  /\ why = "deadline" => c \in deadline
  /\ detector' = [detector EXCEPT ![c] = "gone"]
  /\ UNCHANGED <<setup, acceptor, accepts, backlog, arrived, deadline, peeked,
                 sessionVars, stopped>>

\* Mutant: a plain session is launched after the TLS session too.
LaunchBoth(kind) == IF kind = "ssl" THEN {"ssl", "plain"} ELSE {"plain"}

\* The sessions that on_detect launches for what it detected.
Launch(kind) == {kind}

\* Mutant: the bytes read stay behind in the detector.
BufferLeft(kind) == {}

\* buffer_ is moved into the session.
MoveBuffer(kind) == Launch(kind)

OnDetect(c, kind) ==
  /\ detector[c] = "detecting"
  /\ c \in peeked
  /\ detector' = [detector EXCEPT ![c] = "gone"]
  /\ owners' = [owners EXCEPT ![c] = @ \cup Launch(kind)]
  /\ given' = [given EXCEPT ![c] = MoveBuffer(kind)]
  /\ serving' = serving \cup {c}
  /\ UNCHANGED <<setup, acceptor, accepts, backlog, arrived, deadline, peeked,
                 stopped, fault>>

-----------------------------------------------------------------------------
(* http_session *)

\* on_read calls handle_request with settings_, a reference to the settings_
\* member of the connection's detect_session.  Once that is gone the read is
\* undefined: unnoticed, or the end of the process.
HandleRequest(c) ==
  /\ c \in serving
  /\ detector[c] = "gone"
  /\ fault' \in BOOLEAN
  /\ UNCHANGED <<setup, acceptor, accepts, backlog, arrived, detectVars, owners,
                 given, serving, stopped>>

SessionEnds(c) ==
  /\ c \in serving
  /\ serving' = serving \ {c}
  /\ UNCHANGED <<setup, acceptor, accepts, backlog, arrived, detectVars, owners,
                 given, stopped, fault>>

-----------------------------------------------------------------------------
(* io_context::stop: no handler runs any more. *)

Stop ==
  /\ stopped' = TRUE
  /\ UNCHANGED <<setup, acceptor, accepts, backlog, arrived, detectVars,
                 sessionVars>>

OnAccept == AcceptError \/ \E c \in Connections : AcceptConnection(c)

Detect(c) ==
  \/ OnRun(c)
  \/ \E why \in {"deadline", "error"} : DetectFails(c, why)
  \/ \E kind \in {"plain", "ssl"} : OnDetect(c, kind)

\* The constructor runs in start(), whatever has become of the context.
Next ==
  /\ ~fault
  /\ \/ Construct
     \/ /\ ~stopped
        /\ \/ \E c \in Connections : Connect(c) \/ PeerSends(c)
           \/ OnAccept
           \/ \E c \in Connections : Detect(c) \/ HandleRequest(c) \/ SessionEnds(c)
           \/ Stop

Spec == Init /\ [][Next]_vars

\* The threads in io_context::run call every handler that is posted or whose
\* operation completed; a deadline passes; and the kernel hands out every
\* connection it queued to an accept that stays outstanding, which fails only
\* now and then.  What the peer sends, and whether it goes away, is its own.
Fairness ==
  /\ WF_vars(~fault /\ Construct)
  /\ \A c \in Connections :
       /\ WF_vars(~stopped /\ ~fault /\ AcceptConnection(c))
       /\ WF_vars(~stopped /\ ~fault /\ OnRun(c))
       /\ WF_vars(~stopped /\ ~fault /\ DetectFails(c, "deadline"))

FairSpec == Spec /\ Fairness

-----------------------------------------------------------------------------
(* Properties *)

\* Whatever fails, one accept is outstanding: the server never stops taking
\* connections, and never takes two at a time on one strand (server.cpp
\* 172-200).
AlwaysAccepting == accepts = IF setup = "done" THEN 1 ELSE 0

\* A connection's stream is moved once: from the backlog to its detector, and
\* from there into one session, of one kind, together with the bytes that
\* were read to tell the kind (server.cpp 89-113).
HandedOverOnce ==
  \A c \in Connections :
    /\ Cardinality(owners[c]) <= 1
    /\ owners[c] # {} => detector[c] = "gone" /\ c \in peeked
    /\ given[c] = owners[c]
    /\ detector[c] # "none" => c \notin backlog

\* A connection that waits in the backlog is accepted, and one that was
\* accepted does not stay with its detector, even if the peer sends nothing
\* (server.cpp 75-87, 182-200).
DetectionEnds ==
  \A c \in Connections :
    c \in backlog ~> (detector[c] = "gone" \/ stopped \/ fault)

\* The inductive invariant behind AlwaysAccepting and HandedOverOnce.
IInv ==
  /\ TypeOK
  /\ AlwaysAccepting
  /\ HandedOverOnce
  /\ backlog \subseteq arrived
  /\ \A c \in Connections :
       /\ c \notin arrived => detector[c] = "none"
       /\ detector[c] # "gone" => owners[c] = {}
       /\ c \in serving => detector[c] = "gone" /\ owners[c] # {}

\* Peers connect only where the constructor came to its end.
ListensFirst ==
  acceptor = "listening" \/ arrived # {} => setup \in {"run", "done"}

\* A connection that has arrived waits in the backlog or has a detector, and
\* what waits is waited for: the backlog by an accept, or by the run() that
\* begins one, and a detection by its deadline.
NobodyLeftBehind ==
  \A c \in Connections :
    /\ c \in arrived => c \in backlog \/ detector[c] # "none"
    /\ c \in backlog => accepts = 1 \/ setup = "run"
    /\ detector[c] = "detecting" => c \in deadline

\* With that, what is left to fairness is only that they are called.
LInv == IInv /\ ListensFirst /\ NobodyLeftBehind

\* handlers/handler.hpp 90-92: "This function produces an HTTP response for
\* the given request.  The type of the response object depends on the
\* contents of the request".  It does only while the settings it is passed
\* exist: those of the connection's detect_session.
SettingsExist ==
  \A c \in serving : detector[c] \in {"posted", "detecting"}
=============================================================================
