------------------------------ MODULE Service ------------------------------
(***************************************************************************)
(* The life of the HTTP service: service::start, which makes an io_context *)
(* and runs it on several threads, and service::stop and service::running, *)
(* which other threads call (http/server/service.hpp).                     *)
(*                                                                         *)
(* _ioc is a plain shared_ptr that nothing guards: start, its workers, the *)
(* signal handler, stop and running each read it at moments of their own.  *)
(* Every such read, and every use of a context read before, is a step      *)
(* here.  What the code cannot survive is recorded in fault, and the       *)
(* process takes no further step: using a null _ioc, using a context that  *)
(* was destroyed meanwhile, destroying joinable threads, or the destructor *)
(* of a signal_set whose context is gone.                                  *)
(*                                                                         *)
(* Definitions whose comment starts with "Mutant" are not part of the      *)
(* model: each is a plausible mistake in the definition after it.          *)
(***************************************************************************)
EXTENDS Integers

CONSTANTS
  Starters,      \* the threads that call start()
  Controllers,   \* the threads that call running() and stop()
  ThreadIo,      \* settings.thread_io
  AddressMayThrow, \* TRUE: settings.interface_address may be no address
  CatchesSignal, \* TRUE: SIGINT or SIGTERM may arrive
  Disciplined,   \* TRUE: who called stop() waits for start() to return
  MaxContexts    \* bound: how many io_contexts are made

ASSUME ThreadIoAssumption == ThreadIo \in Int
ASSUME BooleansAssumption ==
  AddressMayThrow \in BOOLEAN /\ CatchesSignal \in BOOLEAN /\ Disciplined \in BOOLEAN
ASSUME MaxContextsAssumption == MaxContexts \in Nat

VARIABLES
  ioc,        \* _ioc: the number of an io_context, or None
  made,       \* how many io_contexts have been made; they are numbered
  context,    \* the state of every io_context made
  pc,         \* where in start() each starter is, "idle" outside
  returned,   \* how its last call of start() ended
  signals,    \* the context its signal_set is registered with
  thread,     \* the threads that run the context for it, itself as number 0
  ask,        \* where in running() or stop() each controller is
  loaded,     \* the context each controller last read from _ioc
  answer,     \* what running() last told it; FALSE again after its stop()
  fault       \* "none", or what undefined behaviour has ended the process

contextVars == <<ioc, made, context>>
starterVars == <<pc, returned, signals, thread>>
controllerVars == <<ask, loaded, answer>>
vars == <<contextVars, starterVars, controllerVars, fault>>

None == 0
Contexts == 1..MaxContexts

\* auto const threads = std::max<int>(1, settings_.thread_io)
Threads == 0..((IF ThreadIo > 1 THEN ThreadIo ELSE 1) - 1)

Unmade == [phase |-> "none", in |-> None]

TypeOK ==
  /\ ioc \in Contexts \cup {None}
  /\ made \in 0..MaxContexts
  /\ context \in [Contexts -> {"absent", "live", "stopped", "destroyed"}]
  /\ pc \in [Starters -> {"idle", "unset", "made", "listening", "spawning",
                          "running", "returning"}]
  /\ returned \in [Starters -> {"never", "success", "failure", "threw"}]
  /\ signals \in [Starters -> Contexts \cup {None}]
  /\ thread \in [Starters -> [Threads ->
       [phase : {"none", "spawned", "running", "done"},
        in : Contexts \cup {None}]]]
  /\ ask \in [Controllers -> {"idle", "tested", "asking", "stopping", "joining"}]
  /\ loaded \in [Controllers -> Contexts \cup {None}]
  /\ answer \in [Controllers -> BOOLEAN]
  /\ fault \in {"none", "null", "dangling", "terminate", "signal_set"}

Init ==
  /\ ioc = None
  /\ made = 0
  /\ context = [c \in Contexts |-> "absent"]
  /\ pc = [s \in Starters |-> "idle"]
  /\ returned = [s \in Starters |-> "never"]
  /\ signals = [s \in Starters |-> None]
  /\ thread = [s \in Starters |-> [t \in Threads |-> Unmade]]
  /\ ask = [k \in Controllers |-> "idle"]
  /\ loaded = [k \in Controllers |-> None]
  /\ answer = [k \in Controllers |-> FALSE]
  /\ fault = "none"

\* A pointer whose use is defined.
Usable(p) == p # None /\ context[p] # "destroyed"

\* The use of one that is not.
Fault(p) ==
  /\ ~Usable(p)
  /\ fault' = IF p = None THEN "null" ELSE "dangling"
  /\ UNCHANGED <<contextVars, starterVars, controllerVars>>

\* io_context::stop: the threads in run() leave it, and none enters it again.
StopContext(c) ==
  /\ context' = [context EXCEPT ![c] = "stopped"]
  /\ UNCHANGED <<ioc, made>>

-----------------------------------------------------------------------------
(* start() *)

\* if(_ioc) return EXIT_FAILURE;
Test(s) ==
  /\ pc[s] = "idle"
  /\ IF ioc = None
       THEN pc' = [pc EXCEPT ![s] = "unset"] /\ UNCHANGED returned
       ELSE returned' = [returned EXCEPT ![s] = "failure"] /\ UNCHANGED pc
  /\ UNCHANGED <<contextVars, signals, thread, controllerVars, fault>>

\* _ioc = make_shared<io_context>(threads): a context _ioc held is destroyed.
MakeContext(s) ==
  /\ pc[s] = "unset"
  /\ made < MaxContexts
  /\ made' = made + 1
  /\ ioc' = made + 1
  /\ context' = [c \in Contexts |-> IF c = made + 1 THEN "live"
                                    ELSE IF c = ioc THEN "destroyed"
                                    ELSE context[c]]
  /\ pc' = [pc EXCEPT ![s] = "made"]
  /\ UNCHANGED <<returned, signals, thread, controllerVars, fault>>

\* An exception leaves start(): _ioc stays as it is.
Throw(s) ==
  /\ pc' = [pc EXCEPT ![s] = "idle"]
  /\ returned' = [returned EXCEPT ![s] = "threw"]
  /\ signals' = [signals EXCEPT ![s] = None]
  /\ UNCHANGED <<contextVars, thread, controllerVars, fault>>

MakeAddressThrows(s) ==
  /\ pc[s] = "made"
  /\ AddressMayThrow
  /\ Throw(s)

\* The listener is made and begins to accept.  Where one of open, bind and
\* listen fails it only reports that, and its accepts fail one by one: for
\* start(), running() and stop() there is no difference.
Listen(s) ==
  /\ pc[s] = "made"
  /\ Usable(ioc)
  /\ pc' = [pc EXCEPT ![s] = "listening"]
  /\ UNCHANGED <<contextVars, returned, signals, thread, controllerVars, fault>>

\* signal_set signals(*_ioc, SIGINT, SIGTERM), and its async_wait.
CatchSignals(s) ==
  /\ pc[s] = "listening"
  /\ Usable(ioc)
  /\ signals' = [signals EXCEPT ![s] = ioc]
  /\ pc' = [pc EXCEPT ![s] = "spawning"]
  /\ UNCHANGED <<contextVars, returned, thread, controllerVars, fault>>

\* The worker threads not made yet.
Unspawned(s) == {t \in Threads \ {0} : thread[s][t].phase = "none"}

Spawn(s) ==
  /\ pc[s] = "spawning"
  /\ \E t \in Unspawned(s) :
       /\ \A u \in Unspawned(s) : t <= u
       /\ thread' = [thread EXCEPT ![s][t].phase = "spawned"]
  /\ UNCHANGED <<contextVars, pc, returned, signals, controllerVars, fault>>

\* A thread cannot be made.  The exception leaves start(), or destroys the
\* threads made before while they are joinable, which ends the process.
SpawnFails(s) ==
  /\ pc[s] = "spawning"
  /\ Unspawned(s) # {}
  /\ IF Unspawned(s) = Threads \ {0}
       THEN Throw(s)
       ELSE /\ fault' = "terminate"
            /\ UNCHANGED <<contextVars, starterVars, controllerVars>>

\* Thread t can call _ioc->run(): a worker at once, start() when it has made
\* all the workers.
CanEnter(s, t) ==
  IF t = 0 THEN pc[s] = "spawning" /\ Unspawned(s) = {}
           ELSE thread[s][t].phase = "spawned"

\* Mutant: the context is made ready to run again first.
EnterRestarted == context' = [context EXCEPT ![ioc] = "live"]

\* run() serves until the context is stopped, not at all if it is already.
EnterRun == UNCHANGED context

Run(s, t) ==
  /\ CanEnter(s, t)
  /\ Usable(ioc)
  /\ EnterRun
  /\ thread' = [thread EXCEPT ![s][t] = [phase |-> "running", in |-> ioc]]
  /\ pc' = IF t = 0 THEN [pc EXCEPT ![s] = "running"] ELSE pc
  /\ UNCHANGED <<ioc, made, returned, signals, controllerVars, fault>>

RunReturns(s, t) ==
  /\ thread[s][t].phase = "running"
  /\ context[thread[s][t].in] = "stopped"
  /\ thread' = [thread EXCEPT ![s][t].phase = "done"]
  /\ UNCHANGED <<contextVars, pc, returned, signals, controllerVars, fault>>

\* Mutant: only the calling thread's own run() is waited for.
SelfDone(s) == thread[s][0].phase = "done"

\* for(auto& t : v) t.join();
Joined(s) == \A t \in Threads : thread[s][t].phase = "done"

\* Mutant: the stopped context is kept.
KeepContext == UNCHANGED <<ioc, context>>

\* _ioc.reset(): the context is destroyed with everything queued in it.
ResetContext ==
  /\ ioc' = None
  /\ context' = [c \in Contexts |-> IF c = ioc THEN "destroyed" ELSE context[c]]

JoinAndReset(s) ==
  /\ pc[s] = "running"
  /\ Joined(s)
  /\ ResetContext
  /\ pc' = [pc EXCEPT ![s] = "returning"]
  /\ UNCHANGED <<made, returned, signals, thread, controllerVars, fault>>

\* return EXIT_SUCCESS destroys the locals.  The signal_set's destructor goes
\* to the signal service it was registered with, which went with its context:
\* what follows is undefined, returning unharmed only one of the outcomes.
Return(s) ==
  /\ pc[s] = "returning"
  /\ \/ /\ pc' = [pc EXCEPT ![s] = "idle"]
        /\ returned' = [returned EXCEPT ![s] = "success"]
        /\ signals' = [signals EXCEPT ![s] = None]
        /\ thread' = [thread EXCEPT ![s] = [t \in Threads |-> Unmade]]
        /\ UNCHANGED fault
     \/ /\ ~Usable(signals[s])
        /\ fault' = "signal_set"
        /\ UNCHANGED starterVars
  /\ UNCHANGED <<contextVars, controllerVars>>

\* A step of start() or of one of its threads on a context that is gone.
StartFaults(s) ==
  \/ pc[s] \in {"made", "listening"} /\ Fault(ioc)
  \/ \E t \in Threads : CanEnter(s, t) /\ Fault(ioc)
  \/ \E t \in Threads :
       thread[s][t].phase = "running" /\ Fault(thread[s][t].in)

StartStep(s) ==
  \/ Test(s) \/ MakeContext(s) \/ MakeAddressThrows(s) \/ Listen(s)
  \/ CatchSignals(s) \/ Spawn(s) \/ SpawnFails(s) \/ JoinAndReset(s) \/ Return(s)
  \/ StartFaults(s)

ThreadStep(s, t) == Run(s, t) \/ RunReturns(s, t)

-----------------------------------------------------------------------------
(* SIGINT or SIGTERM: a thread inside run() calls the handler of async_wait, *)
(* which stops whatever context _ioc names by then.                          *)

Signal ==
  /\ CatchesSignal
  /\ \E s \in Starters :
       /\ signals[s] # None
       /\ context[signals[s]] = "live"
       /\ \E r \in Starters, t \in Threads :
            thread[r][t] = [phase |-> "running", in |-> signals[s]]
  /\ \/ Fault(ioc)
     \/ /\ Usable(ioc)
        /\ StopContext(ioc)
        /\ UNCHANGED <<starterVars, controllerVars, fault>>

-----------------------------------------------------------------------------
(* running() *)

\* if(!_ioc) return false;
RunningTest(k) ==
  /\ ask[k] = "idle"
  /\ IF ioc = None
       THEN answer' = [answer EXCEPT ![k] = FALSE] /\ UNCHANGED ask
       ELSE ask' = [ask EXCEPT ![k] = "tested"] /\ UNCHANGED answer
  /\ UNCHANGED <<contextVars, starterVars, loaded, fault>>

\* _ioc is read a second time.
RunningLoad(k) ==
  /\ ask[k] = "tested"
  /\ \/ ioc = None /\ Fault(ioc)
     \/ /\ ioc # None
        /\ loaded' = [loaded EXCEPT ![k] = ioc]
        /\ ask' = [ask EXCEPT ![k] = "asking"]
        /\ UNCHANGED <<contextVars, starterVars, answer, fault>>

\* return !stopped();
RunningAnswer(k) ==
  /\ ask[k] = "asking"
  /\ \/ Fault(loaded[k])
     \/ /\ Usable(loaded[k])
        /\ answer' = [answer EXCEPT ![k] = context[loaded[k]] = "live"]
        /\ ask' = [ask EXCEPT ![k] = "idle"]
        /\ UNCHANGED <<contextVars, starterVars, loaded, fault>>

(* stop().  The test calls it a second after it made the thread that calls  *)
(* start(), whatever running() answers, and then joins that thread: the     *)
(* moment is any here, and so is what running() said.                       *)

StopLoad(k) ==
  /\ ask[k] = "idle"
  /\ \/ ioc = None /\ Fault(ioc)
     \/ /\ ioc # None
        /\ loaded' = [loaded EXCEPT ![k] = ioc]
        /\ ask' = [ask EXCEPT ![k] = "stopping"]
        /\ UNCHANGED <<contextVars, starterVars, answer, fault>>

StopCall(k) ==
  /\ ask[k] = "stopping"
  /\ \/ Fault(loaded[k])
     \/ /\ Usable(loaded[k])
        /\ StopContext(loaded[k])
        /\ answer' = [answer EXCEPT ![k] = FALSE]
        /\ ask' = [ask EXCEPT ![k] = IF Disciplined THEN "joining" ELSE "idle"]
        /\ UNCHANGED <<starterVars, loaded, fault>>

\* t.join() of the thread that called start().
JoinStarters(k) ==
  /\ ask[k] = "joining"
  /\ \A s \in Starters : pc[s] = "idle"
  /\ ask' = [ask EXCEPT ![k] = "idle"]
  /\ UNCHANGED <<contextVars, starterVars, loaded, answer, fault>>

ControlStep(k) ==
  \/ RunningTest(k) \/ RunningLoad(k) \/ RunningAnswer(k)
  \/ StopLoad(k) \/ StopCall(k) \/ JoinStarters(k)

Next ==
  /\ fault = "none"
  /\ \/ \E s \in Starters : StartStep(s) \/ \E t \in Threads : ThreadStep(s, t)
     \/ Signal
     \/ \E k \in Controllers : ControlStep(k)

Spec == Init /\ [][Next]_vars

\* The operating system runs every thread: start() proceeds once it has made
\* a context, and its threads enter and leave run().  That the service is
\* started, asked, stopped or signalled at all is up to its users.
Fairness ==
  \A s \in Starters :
    /\ WF_vars(fault = "none" /\ pc[s] \notin {"idle", "unset"} /\ StartStep(s))
    /\ \A t \in Threads : WF_vars(fault = "none" /\ ThreadStep(s, t))

FairSpec == Spec /\ Fairness

-----------------------------------------------------------------------------
(* Properties *)

\* A thread of start() that has not finished finds its own context in _ioc,
\* and that context is not destroyed under it: start() resets _ioc only after
\* it joined all of them (service.hpp 64-79).  With one starter this holds
\* whatever controllers and signals do.
ThreadsHaveContext ==
  \A s \in Starters, t \in Threads :
    thread[s][t].phase \in {"spawned", "running"} =>
      /\ signals[s] # None
      /\ ioc = signals[s]
      /\ context[ioc] # "destroyed"
      /\ thread[s][t].phase = "running" => thread[s][t].in = ioc

\* The inductive invariant behind ThreadsHaveContext, for one starter.
OwnContext ==
  /\ \A s \in Starters : pc[s] \in {"made", "listening", "spawning", "running"} =>
       ioc # None
  /\ \A s \in Starters : pc[s] \in {"unset", "returning"} => ioc = None
  /\ ioc # None => context[ioc] \in {"live", "stopped"}
  /\ \A s \in Starters : pc[s] \in {"spawning", "running"} => signals[s] = ioc

ThreadsOfStart ==
  \A s \in Starters :
    /\ pc[s] \notin {"spawning", "running", "returning"} =>
         \A t \in Threads : thread[s][t].phase = "none"
    /\ pc[s] = "spawning" => thread[s][0].phase = "none"
    /\ pc[s] = "running" => \A t \in Threads : thread[s][t].phase # "none"
    /\ pc[s] = "returning" => Joined(s)

IInv == TypeOK /\ OwnContext /\ ThreadsOfStart /\ ThreadsHaveContext

\* A controller that calls running() and stop() at any time, and joins start()
\* after each stop() as server_test.cpp 107-123 does, never uses a context that
\* start() has destroyed.  A null _ioc it can meet in one way: it calls stop()
\* although running() did not answer true, before start() has made a context.
\* The test does call stop() so; that a second was enough is up to luck.
ControlIsSafe ==
  /\ fault # "dangling"
  /\ fault = "null" =>
       /\ \A k \in Controllers : ask[k] = "idle" /\ ~answer[k]
       /\ \A s \in Starters : pc[s] \in {"idle", "unset"}

\* Why: the context in _ioc lives on until the controller itself stops it, and
\* start() gives it up only then, while the controller waits for start().
ControlInv ==
  /\ \A k \in Controllers :
       /\ ask[k] = "tested" => ioc # None
       /\ ask[k] \in {"asking", "stopping"} => ioc # None /\ loaded[k] = ioc
       /\ ask[k] = "joining" => ~answer[k]
       /\ ask[k] # "joining" =>
            /\ answer[k] => ioc # None /\ context[ioc] = "live"
            /\ \A s \in Starters :
                 /\ pc[s] # "returning"
                 /\ pc[s] \in {"made", "listening", "spawning", "running"} =>
                      context[ioc] = "live"
  /\ \A s \in Starters, t \in Threads :
       (pc[s] \in {"spawning", "running"} /\ thread[s][t].phase = "done") =>
         context[ioc] = "stopped"
  /\ ControlIsSafe

\* A context that was stopped, even before any thread ran it, is given up:
\* start() returns, unless the process is gone or another start() that passed
\* the test as well has replaced the context (service.hpp 70-81, 100-102).
StopIsHonoured ==
  \A s \in Starters, c \in Contexts :
    (pc[s] \notin {"idle", "unset"} /\ ioc = c /\ context[c] = "stopped")
      ~> (pc[s] = "idle" \/ ioc \notin {c, None} \/ fault # "none")

\* Why, if no exception leaves start(): a context in _ioc has a start() that is
\* going to reset it, also when several of them race.
Attended ==
  /\ pc \in [Starters -> {"idle", "unset", "made", "listening", "spawning",
                          "running", "returning"}]
  /\ returned \in [Starters -> {"never", "success", "failure", "threw"}]
  /\ ioc # None =>
       \E s \in Starters : pc[s] \in {"made", "listening", "spawning", "running"}

\* service.hpp 26: "returns failure if the service is already started".  A
\* call fails only while another call is inside start().
FailureMeansStarted ==
  [][\A s \in Starters :
       (returned[s] # "failure" /\ returned'[s] = "failure") =>
         \E r \in Starters \ {s} : pc[r] # "idle"]_vars

\* service.hpp 78: "Reset our io context so we can be started again".  When
\* the context is reset nothing start() has yet to destroy refers to it.
ResetIsLast ==
  \A s \in Starters : signals[s] # None => context[signals[s]] # "destroyed"
=============================================================================
