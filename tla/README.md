# Verification of the advanced-flex server

TLA+ models, TLC runs and TLAPS proofs of the HTTP server in this repository
(`src/c++/systemicai`). The server is a C++ program on Boost.Asio and
Boost.Beast: one `service` runs an `io_context` on several threads, a `listener`
accepts connections, a `detect_session` tells TLS from plain HTTP, an
`http_session` reads pipelined requests and writes the responses in order, and a
`websocket_session` echoes messages after an upgrade.

Line numbers below are those of the files under `src/c++/systemicai`;
`sessions.hpp`, `server.cpp`, `service.hpp`, `functions.cpp` and `settings.h` are
those of `http/server`, `handler.hpp` is `http/server/handlers/handler.hpp`,
`api.hpp` is `http/client/api.hpp`, `httpd.cpp` is `cmd/httpd.cpp`,
`certificate.h` is in `common`.

## 1. The system: inventory

| Component | Source | State it keeps | Operations | Module |
|---|---|---|---|---|
| Service | `service.hpp` | `_ioc`, a plain `shared_ptr`; inside `start` the `signal_set` and the vector of threads | `start`, `stop`, `running`, the signal handler | `Service` |
| Listener | `server.cpp` 116-200 | the acceptor, one outstanding accept | constructor (`open`, `set_option`, `bind`, `listen`), `run`, `do_accept`, `on_accept` | `Listener` |
| Detector | `server.cpp` 30-113 | stream, buffer, its own copy of the settings | `run`, `on_run`, `on_detect` | `Listener` |
| HTTP session | `sessions.hpp` 226-588 | stream, buffer, parser, the queue of responses; two timers of the socket | `run`, `on_handshake`, `do_read`, `on_read`, `on_write`, `do_eof`, `on_shutdown` | `HttpSession`, `TimedSession` |
| WebSocket session | `sessions.hpp` 26-225 | stream, buffer | `run`, `on_accept`, `do_read`, `on_read`, `on_write` | `WebsocketSession` |
| Request handler | `handler.hpp`, `functions.cpp`, `handlers/default.hpp` | none; a registry that is always empty | `handle_request`, `default_handle_request`, `path_cat`, `mime_type` | `RequestHandler`, `Connection` |
| Settings | `settings.h` | a record of values, one global | `load`, conversion to a property tree, `globals` | `Httpd` |
| Program start | `httpd.cpp`, `certificate.h` | the TLS context | `main`, `set_log_filter`, `certificate::load` | `Httpd` |
| Client | `api.hpp`, `tst/c++/systemicai/http/client/api.cpp` | resolver, stream, request, response | `run` and a chain of handlers | `Client` |

**Interaction.** `main` loads the settings and a certificate and calls
`service::start`. `start` makes the `io_context`, the listener (whose first
accept is begun by `run`) and the `signal_set`, and calls `io_context::run` on
`max(1, thread_io)` threads, its own included. All else happens in handlers the
`io_context` calls: `on_accept` makes a detector on a new strand; `on_detect`
moves the stream and the bytes read into a session; `on_read` calls
`handle_request`, which sends one response into the session's queue;
`on_read` moves the stream into a WebSocket session when the request is an
upgrade. The client, a program of its own, is one of the server's peers. Handlers
of one connection run on the strand of the connection, one at a
time; handlers of different connections, and `stop` and `running` of other
threads, interleave freely. An object lives as long as a pending handler holds a
`shared_ptr` to it; the settings are passed on by reference and held by nobody.

**What is hard.**

* Session: a read and a write are outstanding at the same time and complete in
  either order; the queue's limit couples them (a full queue stops the reading,
  and the write that makes room must resume it, once); the end of the stream, an
  error, the closing response, an upgrade and the deadline each end one side while
  the other goes on.
* Service: nothing guards `_ioc`. `start`, its workers, the signal handler,
  `stop` and `running` each read it at moments of their own; `start` may be left
  by an exception; the locals of `start` outlive the context they refer to.
* Listener: an accept that fails must be followed by another; a peer that says
  nothing must not be waited for; the stream, the buffer and the settings have
  owners that go away.
* WebSocket: one buffer, used for one message after another.
* Time: a socket has one timer for reading and one for writing; `expires_after`
  sets neither under an outstanding operation, and an operation begins under
  what its timer has left.
* Handler and peer: a response is delimited by the request it answers; what one
  side believes of the pipeline and what the other does must stay in step.
* Client: it sets no deadline, and each side's graceful close waits for the
  other's.
* Program start: numbers at the limits of their types, files that are missing or
  bad, in an order of statements that matters.

`PROJECT.json` lists these under "hazards", each at the line where it bites.

**What makes each component correct.** Session: at most one read and one write;
every request has exactly one response, in order; the queue keeps its limit; the
session neither stalls nor lives for ever; no operation on its socket waits longer
than the deadline, and a peer has all of it. Service: threads only use a living
context, their own; a stop is not lost; a stopped service can be started again;
`stop` and `running` are safe once `start` has made its context. Listener: always one
accept; a connection is handed over once with its bytes, and not stuck before.
WebSocket: what comes back is what was sent. Request handler: the response the
target calls for, from below the document root, that a pipelining peer can
delimit. Program start and settings: the program serves what its file asks, with
a whole certificate or not at all; settings survive being saved. Client: it gets
its response and returns, and neither side waits for the other for ever, as long
as the network carries the end of a connection.

## 2. The modules

A comment before each definition says which code it stands for; `PROJECT.json`
"map" gives the lines. Operators whose comment starts with "Mutant" are plausible
mistakes in the definition that follows them: with the mistake in place the run
of a property finds the property violated, which shows that the property looks
at something.

**`HttpSession`**, one connection. Handlers of a connection run on its strand, so
a handler is one action; `OnRead` and `OnWrite` have one disjunct for each way
through `on_read` and `on_write`. An asynchronous operation that is outstanding
is state: `reads`, `handshaking` and `shutdowns` count them, `writing` is the set
of work items whose write is outstanding (a set, not an item, because that there
is only one is something to be shown). Whether a completion can still be a
success is `readOk` and `writeOk`. `items`, `nread`, `sent` are the queue, the
requests handled and the responses written. `readEnd` and `writeEnd` record why a
side ended and `stream` what became of the socket. `ssl`, which never changes, is
the derived class: `PlainRun`/`SslRun`, `PlainDoEof`/`SslDoEof`, the handshake,
the shutdown, and the null pointer that `release_stream` leaves in a TLS session,
which a write meets when it goes on (`WriteBreaksOff`) or completes (`WriteCrash`).
Abstracted: the bytes of messages (a request is its number and whether its
response needs the end of the connection), wording, and time: a deadline may pass
whenever an operation is outstanding. `Connection` adds what the messages say,
`TimedSession` the time.

**`Pipeline`** is what `HttpSession` promises: requests answered one at a time in
order, at most `Window` waiting, none left waiting while the connection can
answer. `HttpSession!ImplementsPipeline` is the refinement, with `nread`, the
numbers in `sent`, and "the writing side ended" for its three variables.

**`Service`**, `start`, its threads, signals, `stop` and `running`. Every read of
`_ioc` and every use of a pointer read before is a step of its own, for code that
nothing guards: `RunningTest`, `RunningLoad` and `RunningAnswer` are the three
steps of `running`. Contexts are numbered, so that a context and its replacement
can be told apart. What the program cannot survive (null or dangling `_ioc`, a
vector of joinable threads destroyed, a `signal_set` whose context is gone) sets
`fault` and ends the behaviour; where the outcome is undefined, going on unharmed
is one of the choices. `Disciplined` makes controllers do as
`tst/c++/systemicai/http/server/server_test.cpp` does: they ask `running` and call
`stop` when they like, whatever `running` answered (the test does so after a second,
and its check of the answer lets it go on), and join the thread that called `start`
after a `stop`.

**`Listener`**, from the acceptor to the session: the constructor's four calls,
each of which may fail, `run`, the accept loop, the detection and the hand-over.
A connection's HTTP session appears here only as something that reads the
settings it was passed and ends; the rest of it is `HttpSession`.

**`WebsocketSession`** is the accept of the upgrade and the echo loop, with one
buffer and the two flags of the stream that say whether a message is text;
**`Echo`** is what it promises: every message comes back as it was, in order,
before the next is taken.

**`TimedSession`** EXTENDS `HttpSession` by the two timers and by time, in ticks of
which `Deadline` make 30 seconds. Each action is one of `HttpSession`'s with what
it does to the timers (`SetDeadline`, `SetNever`); `Expire` is a `Timeout` whose
timer ran out under its operation; `Tick` lets time pass, and does not run ahead
of a timer that is due; on a stream that was moved into a WebSocket session time
passes too, but no timer of this session ends anything there. `readAge`, `writeAge` and `life` are history, for stating
the properties. The proof and the run show that it implements `HttpSession`: every
deadline that passes here may pass there, and what `HttpSession` assumes by
fairness the timers bring about.

**`RequestHandler`** is `default_handle_request` with `path_cat` and `mime_type` as
operators from a request to a response. A path is a sequence of separators and
names; of a name matter whether it is `.` or `..`, whether it contains two dots in a
row, and its extension. The file system is a tree of names in which `Open` walks as
POSIX does: `.` and `..`, a missing name, a file taken for a directory, a file that
may not be opened, a directory, which opens but cannot be read; all directories may
be searched. The reference it is checked against (`ExpectedStatus`, `TargetLocation`,
`Fits`) speaks of locations, not paths. It leaves out what the repository does not say: the
status and header a request for a directory should get (`ForDirectory`). The document
root is any path: absolute, relative, with `.` or `..` in it, or of a directory that
does not exist. What goes along
a path (`WalkAlong`, `NamesAlong`) is a recursive function on the length walked, so
that it can be proved about as well as evaluated.

**`Connection`** joins `HttpSession` with `RequestHandler` and a pipelining peer.
`waiting` has the requests behind the work items in `items`, with the responses
made for them; `inStep` is whether the peer has taken every response for what it
was. The peer finds the end of a response by the method of its request and the
content length (`Delimited`). A body that cannot be read makes its write fail.

**`Client`** joins `HttpSession`, for TLS, with the client's chain of handlers
(`OnResolve` to `OnClosed`). Where `HttpSession` lets an operation complete, `Client`
says what must have arrived for it: the request, either side's `close_notify`,
the closing of the socket. `Misfortune` is what neither program decides: a lookup,
a connect or a handshake that fails, a file that cannot be read to its end. After a
`Cut` nothing arrives any more on either side, the end of the connection included.
`trouble` remembers whether such a thing, or a deadline, came.

**`Httpd`** is `main`, one action per statement, with the settings as a record of
words and numbers. `Load` and `Save` are the two conversions; the widths of
`unsigned short`, `int` and `size_t` are constants, and `Unsigned` and `Signed` do
what `ptree::get` does with a number that does not fit: the default, or, for a
negative number of small magnitude read as unsigned, the wrapped one. What lies
between the beginning and the end of `service::start` is `Service`.

The other modules are joined where one component makes another: the state in which
a session starts in `HttpSession` is the one in which `Listener!OnDetect` launches
it, and that of `WebsocketSession` the one in which `HttpSession!ReadUpgrade`
does; `Httpd!Start` ends in the state in which `Service!Listen` has run.

`MC*` modules hold the bounds, one per component; `*Proofs` modules hold the
theorems.

## 3. The runs

| Run | Instance | Shows |
|---|---|---|
| `session` | plain and TLS, queue limit 8 (the program's), 17 requests; 250 033 states | `OneOperationPerDirection`, `Backpressure`, `ResponsesInOrder`, `DeathIsExplained`, `CleanTransfer`, `CloseIsFinal`, `SessionEnds`, `ImplementsPipeline` with its liveness, and that `IInv` is an invariant |
| `connection` | queue limit 2, four of twenty requests, five document roots over one small tree; 120 449 states | `AnswersFit`, `ServesTheRootOnly`, `OutOfStepByHeadError`, `ImplementsSession` with its fairness, `CInv` |
| `session_timed` | plain and TLS, queue limit 3, seven requests, a deadline of three ticks; 28 783 states | `NothingWaitsTooLong`, `ReadHasFullTime`, `YoungSessionsWrite`, `TimeMakesFair`, `TInv` |
| `service_test` | one starter, three threads, one controller that calls `running` and `stop` at any time and joins after a `stop`, exceptions, two contexts; 401 states | `ThreadsHaveContext`, `ControlInv` with `ControlIsSafe`, `StopIsHonoured`, `IInv` |
| `service_signals` | two threads that call `start` also at once, one thread in each, a controller that calls at any time, signals, two contexts; 13 562 states | `FailureMeansStarted`, `StopIsHonoured` |
| `listener` | two connections; 310 states | `AlwaysAccepting`, `HandedOverOnce`, `DetectionEnds`, `LInv` |
| `websocket` | three messages, two payloads and the empty one, text or binary; 1 035 states | `EchoesAsReceived`, `ImplementsEcho`, `IInv` |
| `client` | one client, HTTP 1.0 or 1.1, one TLS session with queue limit 8, a network that may be cut; 686 states | `BothFinish`, `ClientReturns`, `NoGoodbyeInstead`, `ShutdownsOverlap`, `KIInv` with `NeitherWaitsForEver` |
| `httpd` | 588 settings files (one number in each beside the words), 81 states of the files for TLS; 461 904 states | `ServesAsAsked`, `SavedSettingsLoad`, `HInv` |

Each of the following runs finds the code at odds with what a comment says of it.

| Run | The comment | What the code does |
|---|---|---|
| `session_v_GracefulEof` | "At this point the connection is closed gracefully" (`sessions.hpp` 492) | a peer that half-closes after pipelining loses the responses still queued |
| `service_v_ResetIsLast` | "Reset our io context so we can be started again" (`service.hpp` 78) | the context is destroyed before the `signal_set` registered with it, on every normal return |
| `listener_v_SettingsExist` | "This function produces an HTTP response for the given request" (`handler.hpp` 90) | it does so from settings that were destroyed with the detector |

**Bounds.**

* `session`: `Limit` is the program's, 8; 17 requests fill the queue, drain it and
  fill it again, with one to spare. Safety, liveness and refinement are all
  checked there.
* `connection`: with a limit of 2 a response waits behind another and the queue is
  full; four requests let one follow the closing or the mistaken one. The requests
  take each way through the handler and the edges of what a target looks like; the
  five roots are relative to `.` with a last separator, as `cfg/settings.json` has
  one, absolute without, empty, one that goes up, and one that does not exist. The tree of files has a name of each kind
  in and outside the root.
* `session_timed`: with a deadline of three ticks a timer can be found unspent,
  spent in part, more for one direction than for the other, and spent. The queue
  is bounded by 3 and seven requests fill it twice.
* `service_*`: `MaxContexts = 2` allows a restart and the replacement of a context
  by a racing `start`; more contexts only repeat this. Three threads are the least
  where, of two workers, one has entered `run` and another has not; two racing
  starters are enough because the race is between a test and a set.
* `listener`: two connections, which share nothing but the acceptor.
* `websocket`: three messages let a message of each kind, or an empty one, follow
  any other.
* `client`: one request, since this client sends only one.
* `httpd`: `UShort` is the real one; `IntMax` and `Size` keep their order with
  smaller numbers. A settings file has at most one number, because the conversion
  of a key does not look at another; the numbers lie on both sides of each limit.

The proofs of section 5 do away with these bounds where they reach.

`CHECK_DEADLOCK FALSE` stands where the system really may stop: a session that is
over, a process that is gone, a server that nobody starts. In `client` and `httpd`
an end is a step of its own that changes nothing (`Over`, `Ended`), so any other
standstill would be reported as a deadlock.

## 4. Fairness

* `HttpSession`: weak fairness of each group of handlers. `do_read`, `run` and
  the handshake set a deadline of 30 seconds (`sessions.hpp` 367-369, 526,
  557), a write is under the last one set, and threads in `io_context::run`
  call every handler, so an outstanding operation completes, if only with an
  error. That the *peer* sends anything, or that an operation succeeds, is not
  assumed. `SessionEnds` holds for finitely many requests: a peer that keeps
  sending may be served for ever. `Connection` assumes the same.
* `TimedSession` assumes less and derives this (`TimeMakesFair`): time passes, a
  timer that ran out has its effect, and the operations of a socket that was closed
  complete. Those of one that was moved away are assumed to complete, too: no timer
  of the session ends them, the WebSocket session has its own. A peer may be silent
  for ever.
* `Service`: every thread of `start` is scheduled once `start` has made its
  context. Nothing is assumed about who calls `start`, `stop` or `running` or
  whether a signal comes; between the test of `_ioc` and its setting a starter may
  be delayed for ever, which the bound on contexts may cause.
* `Listener`: the constructor's calls return, `on_accept` is called for a
  connection the kernel has queued, `on_run` is called, and the detector's
  deadline (`server.cpp` 79) passes. That the peer sends anything is not assumed.
* `WebsocketSession`: an accept or a write completes or the session fails, as the
  stream's timeouts (30 seconds for the handshake, 300 idle) demand.
* `Client`: handlers whose operation can complete, in either program, are called.
  No misfortune and no deadline is waited for, so `BothFinish` shows that neither
  is needed. `ClientReturns` is about the server's deadlines and has them in its
  hypothesis. After a `Cut` nothing is assumed to arrive, and nothing does.
* `Httpd`: a sequence of statements, about which only safety is stated.

## 5. What is proved

TLAPS checks the theorems for every value of the constants that the `ASSUME`s
allow: any positive queue limit, any number of requests, both kinds of stream;
any deadline; any set of requests with targets of any length, any document roots
and any file system; any number
of threads, controllers and contexts; any finite set of connections; any payloads
and any number of messages; any settings files and any widths.

**`HttpSessionProofs`.** `ResponsesInOrder` is not inductive: that a write which
completes is that of the front of the queue, which makes its response the next
one, needs `OneOperationPerDirection`, and that needs to know that a queue with
something in it has its front being written. `HttpSession!IInv` adds what is
missing: while the writing side is open, the write outstanding is exactly that of
the front; after it ended nothing is written *and the queue is not empty*, so
that no later `ReadRequest` finds itself alone in the queue and starts a write;
a session that does not read any more has room in its queue, so that `WasFull`
never begins a second read or revives a reading side that ended; a stream is
released only by an upgrade. There is a lemma for each action. From `Invariance`
follow `AtMostOneOperation`, `QueueIsBounded`, `Order`, `Death`, `Transfer` (an
upgrade with no response waiting leaves no operation on the stream it moved) and,
from two consecutive states, `Closing`. `ImplementsSafety` shows each step of the session
to be a step of `Pipeline` or to leave `nread`, `sent` and the end of the writing
side alone.

`Termination` is the part of `SessionEnds` that is not about fairness. `Effort`
weighs what a session has still before it: six for each request that may come, three
for each response in the queue, two for a read or a write that is outstanding, three
for a handshake, one for a shutdown and one for the deadline that may pass. A handler
that begins operations always ends something heavier: the request that fills a
queue is more than the response, the write and the read it begins; the response that
leaves the queue is more than the read that it may resume. So every step makes
`Effort` less, which is a natural number and begins with at most
`6 * MaxRequests + 4`, for every queue limit and whatever fails in whatever order.

**`ConnectionProofs`.** Every step is one of `HttpSession` or a stutter
(`ImplementsSessionSafety`), which carries `IInv` over. `CInv` ties the two queues:
as long as each other, the response that of the request beside it, the session's
`close` that of the response (`HandlerInvariance`). From it and a lemma on the
handler's branches, `PeerInStep`: whatever the files and the requests, a peer is
only ever out of step by the error response to a HEAD request.

`EveryAnswerFits` and `OnlyTheRootIsServed` are about what the handler computes. A
response fits if the walk of the file system along the path that `path_cat` puts
together arrives where the names of the target lead from the document root, and
that is an induction over the path. The library's induction theorems take an
operator as a parameter, which none of the provers can instantiate, but induction
itself is within reach: `LeastNumber` follows from the well-foundedness of `<` on
the numbers; `Induction` states it for a *set* of numbers, which a lemma can name;
`Recursion` shows that a recursive function with the equations of `WalkAlong` and
`NamesAlong` exists, so that the equations may be used. On that rest the lemmas,
in this order: a walk along two paths joined is one walk after the other; it
depends on the names between separators only; without `..` among them it stays
below where it began, and a file or directory is reached exactly if the tree has
it there; a target that passes the handler's tests has no `..` among its names;
what `path_cat` makes of root and target leads to the root and from there along
the target; a `.` leads nowhere, but is looked for in what is there, which must not
be a file (`SearchesFile`). `HandlerFits` puts them together, one case for each return
of `default_handle_request`. Of the file system only `TreeAssumption` is used: the
tree is closed under prefixes, a file has nothing below it.

**`TimedSessionProofs`.** Every step is one of `HttpSession` or a stutter
(`ImplementsUntimed`). `TInv` relates what is left on each timer to the age of the
operation under it: their sum never exceeds the deadline while the socket can
receive, and what is left for writing together with the age of the session never
falls below it. It also needs facts of the session that `IInv` does not have: a
handshake comes before everything else, only a TLS session shuts down. From
`TimersInvariance` follow `DeadlinesHold`, `FullTimeToRead` and `TimeToWrite`.
`TimedTermination` carries `Termination` over: a step that does not make `Effort` less
is a tick, and a tick takes time off a timer that an outstanding operation is under
(`TickUsesTime`), because none of them is ever under a timer set to never. All of this
is about the session's own stream: for a write that an upgrade leaves behind on the
one it moves, neither the deadline nor the end is claimed, and `DeadlinesHold` would be
false.

**`ServiceProofs`.** `Invariance` and `OwnContextOnly` have the hypothesis
`SingleStarter`: two calls of `start` that race past the test of `_ioc` make them
false. `Service!IInv` ties each stage of `start` to `_ioc`: set from `MakeContext`
to `JoinAndReset`, empty outside, equal to the context the `signal_set` was
registered with; threads exist only between `Spawn` and `Return`, and all are done
when `_ioc` is reset, of which none was left out. That is what makes the worker
threads' own reads of `_ioc` safe (`OwnContextOnly`), whatever `stop`, `running`
and signals do meanwhile. `SafeControl` adds one controller that joins `start` after
a `stop` (`JoiningController`), and no signals: the context such a controller works
with is the one in `_ioc`, it lives until that controller stops it, and `start` resets
`_ioc` only then, while the controller waits to join (`ControlInv`). So it never uses
a context that was destroyed, and a null `_ioc` only where `ControlIsSafe` says: by a
`stop` that it calls before `start` has made a context, and without an answer of
`running` that was true. `FailsOnlyIfStarted`
holds for any number of racing starters, if nothing throws (`NoException`: no bad
address, no worker to be made): a context in `_ioc` has a `start` that is going to
reset it (`Attended`). Two theorems are the part of `StopIsHonoured` that is not
about fairness. `StoppedForGood`, for any number of starters: nothing makes a
stopped context run again, because contexts are made in turn and nobody has the
number of one before it is made (`MadeInTurn`). `StartIsNotHeld`: when its context
is stopped, every thread that `start` joins is done, has `run` still to enter, or
may leave it.

**`ListenerProofs`.** `IInv` adds to `AlwaysAccepting` and `HandedOverOnce` that a
connection which has not arrived has no detector and that a stream whose detector
is not done has no other owner. `NoConnectionIsLeftBehind` and `ConnectionsGoOnward`
are the part of `DetectionEnds` that is not about fairness: a connection in the
backlog has an accept outstanding, or `run` about to begin one, because nobody can
connect before the constructor came to its end (`ListensFirst`); one being detected
has a deadline; and each goes from the backlog to its detector and through it
without ever going back.

**`WebsocketSessionProofs`.** `IInv` adds where the message is between read and
write: in the buffer and the text flag, and that the buffer is empty when the next
read begins. `Echoing` and `ImplementsSafety` follow.

**`ClientProofs`.** The server's steps among those of `Client` are steps of
`HttpSession` (`ClientUsesSession`). `KInv` says which events of one side imply
which of the other: a client's goodbye the request it sent, a second shutdown the
response that closes the connection, a server's goodbye an end of its reading or
writing. `OverlapOfShutdowns` and `GoodbyeBehindResponse` follow.

`NobodyIsStranded` and `ClientTermination` are the part of `BothFinish` and
`ClientReturns` that is not about fairness. `Untroubled` is what both sides know of
each other as long as nothing outside them went wrong; it is inductive with `KInv`
and the session's `IInv`, and needs from them that one request has one response, and
that a session whose queue has room reads. `NeitherWaitsForEver` follows: unless the
client is done and the session gone, one of `ClientHandlers` or `SessionHandlers` may
run, so that no circle of "each waits for the other's `close_notify`" can close.
`ClientMayGoOn` and `SessionMayGoOn` spell out the conditions of the handlers, since
`ENABLED` is out of the prover's reach. `ClientNotStranded` is the same with
misfortunes, a cut network excepted: the client goes on, sees that the server is gone,
or waits for a session which a deadline ends. And every step makes `KEffort` less: the session's `Effort` with
the number of operations the client has ahead, and the cut (`ClientTermination`).

**`HttpdProofs`.** `HInv` says what each statement of `main` may rely on: the
settings are those of the file or the defaults, every file used was opened, the
context has exactly the files used so far. `ServesAsItShould` follows, for any
file and any state of the disk. `SettingsRoundTrip` is arithmetic on the widths:
what `Load` makes of any file is within its type, and `Save` followed by `Load`
gives it back, but for a header timeout above the largest `int`.

**Only model-checked.** Liveness (`SessionEnds`, `StopIsHonoured`,
`DetectionEnds`, `BothFinish`, `ClientReturns`, `TimeMakesFair`, and the fairness
part of `ImplementsPipeline`, `ImplementsEcho` and `ImplementsSession`) is out of
the prover's reach, as is `ENABLED`. The theorems on termination and on who waits for
whom leave to the runs only that a handler which may run is called, and that it may
run exactly when its conditions, as those theorems state them, hold. Every safety
property that a passing run checks is stated by a theorem.

## 6. Observations without a run

Seen while modelling, and reproducible with the modules where they model it:

* After an exception of `start` (an `interface_address` that is no address, or a
  first worker that cannot be made) `_ioc` stays set: every later `start` returns
  `EXIT_FAILURE`. `FailureMeansStarted` fails with `AddressMayThrow = TRUE`; this is
  why `service_signals` runs without exceptions.
* Two threads that call `start` at once may both pass its test, against the comment
  in line 26 of `service.hpp`; the second then replaces the context of the first,
  and destroys it under the first one's threads. `ThreadsHaveContext` fails with
  two starters. A `stop` of the replaced context is lost as well; `StopIsHonoured`
  excludes that case and only that.
* `running` is true before the listener listens, and also if it never will: it
  looks at the `io_context` only, whatever the comment in line 87 promises.
* `stop` dereferences `_ioc` whatever it is. `server_test.cpp` waits a second after it
  made the thread that calls `start` and then calls `stop`, also if `running` was still
  false (`BOOST_TEST` goes on): with a `start` that takes longer, that is a null
  pointer. `ControlIsSafe` shows that for such a controller there is no other way to
  one, so that a controller that calls `stop` only after `running` was true is safe.
* `stop` after a `running` that was true may still meet a null `_ioc`, when a signal
  ended the service in between. `ControlIsSafe` fails with
  `CatchesSignal = TRUE`; `service_test` is the case without signals.
* A listener whose `open`, `bind` or `listen` failed accepts all the same, and each
  accept fails at once: `AcceptError` is then all that happens, for ever.
* In `default_handle_request` an error response to a HEAD request has a body, which
  a pipelining peer takes for the beginning of the next response;
  `OutOfStepByHeadError` says that nothing else has this effect.
* A GET of a directory opens it and promises a length; its body cannot be read, so
  the write fails and the request is never answered.
* An upgrade that arrives behind another request moves the stream away while that
  request's response is being written (`sessions.hpp` 400-403). The session's deadline
  does not end that write any more (`NothingWaitsTooLong` fails without its
  `CanReceive`), and in a TLS session it goes on, or begins the next, through a null
  pointer.
* The client sets no deadline. Once the network carries nothing between the two, not
  even the closing of the server's socket, a client that waits for the server
  (`api.hpp` 105-160) waits for ever, or until its operating system gives up:
  `ClientReturns` fails without its `cut`.
* The timer for writing is not set again while responses are written: a response
  begun more than 30 seconds into a session may have less than its 30 seconds, or
  none. `YoungSessionsWrite` has the bound that does hold.
* A TLS session whose peer closes after a closing response calls `async_shutdown`
  twice on one stream (`ShutdownsOverlap`).
* The test in `handle_request` (`handler.hpp` 211) is inverted, without effect:
  `addHandler` (line 48) cannot be instantiated, so no handler is ever registered.
* `main` calls `set_log_filter(g)` before `g.load(tree)` (`httpd.cpp`), so the
  configured log level is never used. Neither are the configured timeouts: the
  sessions have 30 seconds in their code.
* A number in the settings file that does not fit its type silently becomes the
  default, and a negative one of small magnitude is wrapped where the type is
  unsigned: port -1 becomes 65535. A header timeout that was wrapped does
  not survive saving (`SavedSettingsLoad`).

## 7. What is not modelled

* **The registry of handlers**: nothing can be put into it (section 6).
* **Copies of the client**: `master` and `child` in `api.hpp` repeat `signing` and
  are never instantiated. The client's settings and the rest of its `main` only
  name a certificate and a log level.
* **`tst/c++/systemicai/http/server/server.cpp`**: an earlier `main`, which
  constructs the listener with arguments it no longer takes.
* **Inside Boost**: the parser, TLS records, WebSocket frames, pings and close
  handshakes. An operation of the library succeeds, fails, or is cut off by its
  deadline.
* **Memory exhaustion**, and so exceptions out of handlers.
* **Links** in the file system, and files that change while the server runs.

## 8. State of the plan

The modules were written in the order sessions first, then their surroundings:
`HttpSession` with `Pipeline`, `Service`, `Listener`, `WebsocketSession` with `Echo`;
then `RequestHandler` and `Connection`, `TimedSession`, `Client`, `Httpd`, and the
proofs of `Service` for one controller and for racing starters; then the
handler's answers, which needed induction, and the termination of sessions and
clients. All of them are done. What could follow: `ControlInv` for several
controllers that agree on who stops; `StartIsNotHeld` for racing starters, whose
threads may be left on a context that was replaced; `TimedSession` composed with
`Client`, to tell by which deadline a silent server leaves the client.
