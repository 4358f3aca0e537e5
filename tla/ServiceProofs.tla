--------------------------- MODULE ServiceProofs ---------------------------
(***************************************************************************)
(* Theorems about Service, for any number of io threads, controllers and   *)
(* contexts.  They are about a service that one thread starts, and what    *)
(* they say of running() and stop() is about one controller that joins     *)
(* start() after a stop(), as server_test.cpp does.                        *)
(***************************************************************************)
EXTENDS Service, TLAPS

\* One thread calls start(), any number of times.
SingleStarter == \A r, s \in Starters : r = s

\* The thread numbers are natural numbers, and the caller of start() is 0.
LEMMA ThreadFacts == 0 \in Threads /\ Threads \subseteq Nat
BY ThreadIoAssumption DEF Threads

\* A service nobody has started yet satisfies the invariant.
LEMMA InitIInv == Init => IInv
BY MaxContextsAssumption
   DEF Init, IInv, TypeOK, OwnContext, ThreadsOfStart, ThreadsHaveContext,
       None, Contexts, Unmade

\* A fault changes nothing but fault.
LEMMA FaultIInv ==
  ASSUME IInv, NEW p, Fault(p)
  PROVE  IInv'
BY DEF IInv, TypeOK, OwnContext, ThreadsOfStart, ThreadsHaveContext, Joined,
       Fault, contextVars, starterVars, controllerVars

\* Stopping a context leaves it in existence.
LEMMA StopIInv ==
  ASSUME IInv, NEW c \in Contexts, StopContext(c), context[c] # "destroyed",
         UNCHANGED starterVars,
         ask' \in [Controllers -> {"idle", "tested", "asking", "stopping",
                                   "joining"}],
         loaded' \in [Controllers -> Contexts \cup {None}],
         answer' \in [Controllers -> BOOLEAN],
         UNCHANGED fault
  PROVE  IInv'
<1>1. TypeOK'
  BY DEF IInv, TypeOK, StopContext, starterVars
<1>2. ioc # None => context'[ioc] \in {"live", "stopped"}
  BY DEF IInv, TypeOK, OwnContext, StopContext
<1> QED
  BY <1>1, <1>2
     DEF IInv, OwnContext, ThreadsOfStart, ThreadsHaveContext, Joined,
         StopContext, starterVars

\* What controllers do besides stopping a context concerns only themselves.
LEMMA ControlIInv ==
  ASSUME IInv, NEW k \in Controllers, ControlStep(k)
  PROVE  IInv'
<1>1. ASSUME UNCHANGED <<contextVars, starterVars, fault>>,
             ask' \in [Controllers -> {"idle", "tested", "asking", "stopping",
                                       "joining"}],
             loaded' \in [Controllers -> Contexts \cup {None}],
             answer' \in [Controllers -> BOOLEAN]
      PROVE  IInv'
  BY <1>1
     DEF IInv, TypeOK, OwnContext, ThreadsOfStart, ThreadsHaveContext, Joined,
         contextVars, starterVars
<1>2. CASE RunningTest(k)
  BY <1>1, <1>2 DEF RunningTest, IInv, TypeOK
<1>3. CASE RunningLoad(k)
  BY <1>1, <1>3, FaultIInv DEF RunningLoad, IInv, TypeOK
<1>4. CASE RunningAnswer(k)
  <2>1. CASE Fault(loaded[k])
    BY <2>1, FaultIInv
  <2>2. CASE ~Fault(loaded[k])
    <3>1. answer' \in [Controllers -> BOOLEAN]
      <4>1. (context[loaded[k]] = "live") \in BOOLEAN
        OBVIOUS
      <4>2. answer' = [answer EXCEPT ![k] = (context[loaded[k]] = "live")]
        BY <1>4, <2>2 DEF RunningAnswer
      <4> QED
        BY <4>1, <4>2 DEF IInv, TypeOK
    <3> QED
      BY <1>1, <1>4, <2>2, <3>1 DEF RunningAnswer, IInv, TypeOK
  <2> QED
    BY <2>1, <2>2
<1>5. CASE StopLoad(k)
  BY <1>1, <1>5, FaultIInv DEF StopLoad, IInv, TypeOK
<1>6. CASE StopCall(k)
  <2>1. CASE Fault(loaded[k])
    BY <2>1, FaultIInv
  <2>2. CASE ~Fault(loaded[k])
    <3>1. /\ Usable(loaded[k]) /\ StopContext(loaded[k])
          /\ UNCHANGED <<starterVars, loaded, fault>>
          /\ ask' = [ask EXCEPT ![k] = IF Disciplined THEN "joining" ELSE "idle"]
          /\ answer' = [answer EXCEPT ![k] = FALSE]
      BY <1>6, <2>2 DEF StopCall
    <3>2. loaded[k] \in Contexts /\ context[loaded[k]] # "destroyed"
      BY <3>1 DEF Usable, IInv, TypeOK
    <3> QED
      BY <3>1, <3>2, StopIInv DEF IInv, TypeOK
  <2> QED
    BY <2>1, <2>2
<1>7. CASE JoinStarters(k)
  BY <1>1, <1>7 DEF JoinStarters, IInv, TypeOK
<1> QED
  BY <1>2, <1>3, <1>4, <1>5, <1>6, <1>7 DEF ControlStep

\* A signal stops the context in _ioc.
LEMMA SignalIInv ==
  ASSUME IInv, Signal
  PROVE  IInv'
<1>1. CASE Fault(ioc)
  BY <1>1, FaultIInv
<1>2. CASE ~Fault(ioc)
  <2>1. /\ Usable(ioc) /\ StopContext(ioc)
        /\ UNCHANGED <<starterVars, controllerVars, fault>>
    BY <1>2 DEF Signal
  <2>2. ioc \in Contexts /\ context[ioc] # "destroyed"
    BY <2>1 DEF Usable, IInv, TypeOK
  <2> QED
    BY <2>1, <2>2, StopIInv DEF IInv, TypeOK, controllerVars
<1> QED
  BY <1>1, <1>2

\* The threads of the one starter enter and leave run() of its own context.
LEMMA ThreadIInv ==
  ASSUME SingleStarter, IInv, NEW s \in Starters, NEW t \in Threads,
         ThreadStep(s, t)
  PROVE  IInv'
<1> USE ThreadFacts DEF SingleStarter
<1>1. CASE Run(s, t)
  <2>1. /\ CanEnter(s, t) /\ Usable(ioc)
        /\ thread' = [thread EXCEPT ![s][t] = [phase |-> "running", in |-> ioc]]
        /\ pc' = IF t = 0 THEN [pc EXCEPT ![s] = "running"] ELSE pc
        /\ UNCHANGED <<contextVars, returned, signals, controllerVars, fault>>
    BY <1>1 DEF Run, EnterRun, contextVars
  <2>2. pc[s] \in {"spawning", "running"} /\ signals[s] = ioc /\ ioc \in Contexts
    BY <2>1
       DEF CanEnter, Usable, IInv, TypeOK, OwnContext, ThreadsOfStart,
           ThreadsHaveContext, Joined
  <2>3. TypeOK'
    BY <2>1, <2>2 DEF IInv, TypeOK, contextVars, controllerVars
  <2>4. pc'[s] \in {"spawning", "running"}
    BY <2>1, <2>2 DEF IInv, TypeOK
  <2>5. OwnContext'
    BY <2>1, <2>2, <2>4 DEF IInv, TypeOK, OwnContext, contextVars
  <2>6. ThreadsOfStart'
    <3>1. pc'[s] = "spawning" => t # 0 /\ pc[s] = "spawning"
      BY <2>1, <2>2 DEF IInv, TypeOK
    <3>2. pc'[s] = "spawning" => thread'[s][0].phase = "none"
      BY <2>1, <3>1 DEF IInv, TypeOK, ThreadsOfStart
    <3>3. \A r \in Starters : r = s
      OBVIOUS
    <3>4. pc'[s] = "running" => \A u \in Threads : thread'[s][u].phase # "none"
      <4>1. CASE t = 0
        <5>1. \A u \in Threads \ {0} : thread[s][u].phase # "none"
          BY <2>1, <4>1 DEF CanEnter, Unspawned
        <5> QED
          BY <2>1, <4>1, <5>1 DEF IInv, TypeOK
      <4>2. CASE t # 0
        BY <2>1, <4>2 DEF IInv, TypeOK, ThreadsOfStart
      <4> QED
        BY <4>1, <4>2
    <3> QED
      BY <2>4, <3>2, <3>3, <3>4 DEF ThreadsOfStart
  <2>7. ThreadsHaveContext'
    BY <2>1, <2>2 DEF IInv, TypeOK, ThreadsHaveContext, Usable, contextVars
  <2> QED
    BY <2>3, <2>5, <2>6, <2>7 DEF IInv
<1>2. CASE RunReturns(s, t)
  BY <1>2
     DEF RunReturns, IInv, TypeOK, OwnContext, ThreadsOfStart,
         ThreadsHaveContext, Joined, contextVars, controllerVars
<1> QED
  BY <1>1, <1>2 DEF ThreadStep

\* Each step of start() by the one starter keeps the invariant.
LEMMA StartIInv ==
  ASSUME SingleStarter, IInv, NEW s \in Starters, StartStep(s)
  PROVE  IInv'
<1> USE ThreadFacts DEF SingleStarter
<1>1. CASE Test(s)
  BY <1>1
     DEF Test, IInv, TypeOK, OwnContext, ThreadsOfStart, ThreadsHaveContext,
         Joined, contextVars, controllerVars
<1>2. CASE MakeContext(s)
  <2>1. /\ pc[s] = "unset" /\ made < MaxContexts /\ made' = made + 1
        /\ ioc' = made + 1 /\ pc' = [pc EXCEPT ![s] = "made"]
        /\ context' = [c \in Contexts |-> IF c = made + 1 THEN "live"
                                          ELSE IF c = ioc THEN "destroyed"
                                          ELSE context[c]]
        /\ UNCHANGED <<returned, signals, thread, controllerVars, fault>>
    BY <1>2 DEF MakeContext
  <2>2. made \in Nat /\ made + 1 \in Contexts /\ made + 1 # None
    BY <2>1, MaxContextsAssumption DEF IInv, TypeOK, Contexts, None
  <2>3. context' \in [Contexts -> {"absent", "live", "stopped", "destroyed"}]
    BY <2>1 DEF IInv, TypeOK
  <2>4. TypeOK'
    BY <2>1, <2>2, <2>3, MaxContextsAssumption
       DEF IInv, TypeOK, controllerVars, Contexts
  <2>5. context'[ioc'] = "live"
    BY <2>1, <2>2
  <2>6. OwnContext'
    BY <2>1, <2>2, <2>5 DEF IInv, TypeOK, OwnContext
  <2>7. ThreadsOfStart' /\ ThreadsHaveContext'
    BY <2>1 DEF IInv, TypeOK, ThreadsOfStart, ThreadsHaveContext, Joined
  <2> QED
    BY <2>4, <2>6, <2>7 DEF IInv
<1>3. ASSUME Throw(s), \A t \in Threads : thread[s][t].phase = "none"
      PROVE  IInv'
  BY <1>3
     DEF Throw, IInv, TypeOK, OwnContext, ThreadsOfStart, ThreadsHaveContext,
         Joined, contextVars, controllerVars
<1>4. CASE MakeAddressThrows(s)
  BY <1>3, <1>4 DEF MakeAddressThrows, IInv, ThreadsOfStart
<1>5. CASE Listen(s)
  BY <1>5
     DEF Listen, Usable, IInv, TypeOK, OwnContext, ThreadsOfStart,
         ThreadsHaveContext, Joined, contextVars, controllerVars
<1>6. CASE CatchSignals(s)
  BY <1>6
     DEF CatchSignals, Usable, IInv, TypeOK, OwnContext, ThreadsOfStart,
         ThreadsHaveContext, Joined, contextVars, controllerVars
<1>7. CASE Spawn(s)
  <2>1. PICK t \in Threads \ {0} :
          thread' = [thread EXCEPT ![s][t].phase = "spawned"]
    BY <1>7 DEF Spawn, Unspawned
  <2>2. /\ pc[s] = "spawning" /\ signals[s] = ioc /\ ioc # None
        /\ context[ioc] # "destroyed"
        /\ UNCHANGED <<contextVars, pc, returned, signals, controllerVars,
                       fault>>
    BY <1>7 DEF Spawn, IInv, OwnContext
  <2>3. TypeOK'
    BY <2>1, <2>2 DEF IInv, TypeOK, contextVars, controllerVars
  <2>4. OwnContext'
    BY <2>2 DEF IInv, OwnContext, contextVars
  <2>5. ThreadsOfStart'
    BY <2>1, <2>2 DEF IInv, TypeOK, ThreadsOfStart, Joined
  <2>6. ThreadsHaveContext'
    BY <2>1, <2>2 DEF IInv, TypeOK, ThreadsHaveContext, contextVars
  <2> QED
    BY <2>3, <2>4, <2>5, <2>6 DEF IInv
<1>8. CASE SpawnFails(s)
  <2>1. CASE Unspawned(s) = Threads \ {0}
    <3>1. \A t \in Threads : thread[s][t].phase = "none"
      BY <1>8, <2>1 DEF SpawnFails, Unspawned, IInv, ThreadsOfStart
    <3> QED
      BY <1>3, <1>8, <2>1, <3>1 DEF SpawnFails
  <2>2. CASE Unspawned(s) # Threads \ {0}
    BY <1>8, <2>2
       DEF SpawnFails, IInv, TypeOK, OwnContext, ThreadsOfStart,
           ThreadsHaveContext, Joined, contextVars, starterVars, controllerVars
  <2> QED
    BY <2>1, <2>2
<1>9. CASE JoinAndReset(s)
  <2>1. /\ pc[s] = "running" /\ Joined(s) /\ ioc' = None
        /\ context' = [c \in Contexts |-> IF c = ioc THEN "destroyed"
                                          ELSE context[c]]
        /\ pc' = [pc EXCEPT ![s] = "returning"]
        /\ UNCHANGED <<made, returned, signals, thread, controllerVars, fault>>
    BY <1>9 DEF JoinAndReset, ResetContext
  <2>2. context' \in [Contexts -> {"absent", "live", "stopped", "destroyed"}]
    BY <2>1 DEF IInv, TypeOK
  <2>3. TypeOK'
    BY <2>1, <2>2 DEF IInv, TypeOK, controllerVars
  <2>4. OwnContext'
    BY <2>1 DEF IInv, TypeOK, OwnContext
  <2>5. ThreadsOfStart' /\ ThreadsHaveContext'
    BY <2>1 DEF IInv, TypeOK, ThreadsOfStart, ThreadsHaveContext, Joined
  <2> QED
    BY <2>3, <2>4, <2>5 DEF IInv
<1>10. CASE Return(s)
  <2>1. CASE fault' = "signal_set" /\ UNCHANGED <<contextVars, starterVars,
                                                  controllerVars>>
    BY <2>1
       DEF IInv, TypeOK, OwnContext, ThreadsOfStart, ThreadsHaveContext, Joined,
           contextVars, starterVars, controllerVars
  <2>2. CASE /\ pc[s] = "returning"
             /\ pc' = [pc EXCEPT ![s] = "idle"]
             /\ returned' = [returned EXCEPT ![s] = "success"]
             /\ signals' = [signals EXCEPT ![s] = None]
             /\ thread' = [thread EXCEPT ![s] = [t \in Threads |-> Unmade]]
             /\ UNCHANGED <<contextVars, controllerVars, fault>>
    <3>1. [t \in Threads |-> Unmade] \in
            [Threads -> [phase : {"none", "spawned", "running", "done"},
                         in : Contexts \cup {None}]]
      BY DEF Unmade
    <3>2. TypeOK'
      BY <2>2, <3>1 DEF IInv, TypeOK, contextVars, controllerVars
    <3>3. OwnContext'
      BY <2>2 DEF IInv, TypeOK, OwnContext, contextVars
    <3>4. thread'[s] = [t \in Threads |-> Unmade] /\ pc'[s] = "idle"
      BY <2>2 DEF IInv, TypeOK
    <3>5. ThreadsOfStart' /\ ThreadsHaveContext'
      BY <2>2, <3>4 DEF IInv, TypeOK, ThreadsOfStart, ThreadsHaveContext, Unmade
    <3> QED
      BY <3>2, <3>3, <3>5 DEF IInv
  <2> QED
    BY <1>10, <2>1, <2>2 DEF Return
<1>11. CASE StartFaults(s)
  BY <1>11, FaultIInv DEF StartFaults
<1> QED
  BY <1>1, <1>2, <1>4, <1>5, <1>6, <1>7, <1>8, <1>9, <1>10, <1>11 DEF StartStep

-----------------------------------------------------------------------------

\* IInv is inductive for a service that one thread starts.
THEOREM Invariance ==
  ASSUME SingleStarter
  PROVE  Spec => []IInv
<1>1. Init => IInv
  BY InitIInv
<1>2. IInv /\ [Next]_vars => IInv'
  <2> SUFFICES ASSUME IInv, [Next]_vars PROVE IInv'
    OBVIOUS
  <2>1. CASE UNCHANGED vars
    BY <2>1
       DEF IInv, TypeOK, OwnContext, ThreadsOfStart, ThreadsHaveContext, Joined,
           vars, contextVars, starterVars, controllerVars
  <2>2. CASE \E s \in Starters : StartStep(s) \/ \E t \in Threads : ThreadStep(s, t)
    BY <2>2, StartIInv, ThreadIInv, SingleStarter
  <2>3. CASE Signal
    BY <2>3, SignalIInv
  <2>4. CASE \E k \in Controllers : ControlStep(k)
    BY <2>4, ControlIInv
  <2> QED
    BY <2>1, <2>2, <2>3, <2>4 DEF Next
<1> QED
  BY <1>1, <1>2, PTL DEF Spec

\* No thread of start() ever runs, or is about to run, a context other than
\* its own or one that was destroyed.
THEOREM OwnContextOnly ==
  ASSUME SingleStarter
  PROVE  Spec => []ThreadsHaveContext
<1>1. IInv => ThreadsHaveContext
  BY DEF IInv
<1> QED
  BY <1>1, Invariance, PTL

-----------------------------------------------------------------------------
(* What stop() asks for cannot be undone, and nothing keeps start() from it. *)

\* A thread that start() joins has still to enter run(), or to leave it and may.
OnTheWayOut(s, t) ==
  \/ thread[s][t].phase = "spawned"
  \/ thread[s][t].phase = "running" /\ context[thread[s][t].in] = "stopped"

\* start() on a stopped context never waits for a thread that is blocked.
NothingHoldsStart ==
  \A s \in Starters :
    pc[s] = "running" /\ context[ioc] = "stopped" =>
      Joined(s) \/ \E t \in Threads : OnTheWayOut(s, t)

\* A context that was stopped serves nobody any more.
Over(c) == context[c] \in {"stopped", "destroyed"}

\* Once its context is stopped start() is never stuck in join(): every thread
\* is done, or is about to enter run(), which then returns at once, or may
\* leave it.  No thread is left out, however the signal, stop() and the making
\* of the threads interleave.
THEOREM StartIsNotHeld ==
  ASSUME SingleStarter
  PROVE  Spec => []NothingHoldsStart
<1>1. IInv => NothingHoldsStart
  <2> SUFFICES ASSUME IInv, NEW s \in Starters, pc[s] = "running",
                      context[ioc] = "stopped",
                      NEW t \in Threads, thread[s][t].phase # "done"
               PROVE  OnTheWayOut(s, t)
    BY DEF NothingHoldsStart, Joined
  <2>1. thread[s][t].phase \in {"spawned", "running"}
    BY DEF IInv, TypeOK, ThreadsOfStart
  <2>2. thread[s][t].phase = "running" => thread[s][t].in = ioc
    BY <2>1 DEF IInv, ThreadsHaveContext
  <2> QED
    BY <2>1, <2>2 DEF OnTheWayOut
<1> QED
  BY <1>1, Invariance, PTL

\* The contexts are made one after another, and nobody knows one before.
MadeInTurn ==
  /\ made \in Nat
  /\ ioc \in 0 .. made
  /\ loaded \in [Controllers -> 0 .. made]
  /\ context \in [Contexts -> {"absent", "live", "stopped", "destroyed"}]
  /\ \A c \in Contexts : c > made => context[c] = "absent"

\* What changes _ioc, the contexts or the controllers' copies of _ioc.
LEMMA ContextSteps ==
  ASSUME MadeInTurn, [Next]_vars
  PROVE  \/ UNCHANGED <<contextVars, loaded>>
         \/ UNCHANGED contextVars
              /\ \E k \in Controllers : loaded' = [loaded EXCEPT ![k] = ioc]
         \/ \E s \in Starters : MakeContext(s)
         \/ ResetContext /\ UNCHANGED <<made, loaded>>
         \/ StopContext(ioc) /\ ioc # None /\ UNCHANGED loaded
         \/ \E k \in Controllers :
              StopContext(loaded[k]) /\ loaded[k] # None /\ UNCHANGED loaded
<1>1. CASE UNCHANGED vars
  BY <1>1 DEF vars, contextVars, controllerVars
<1>2. ASSUME NEW s \in Starters, StartStep(s)
      PROVE  \/ UNCHANGED <<contextVars, loaded>>
             \/ MakeContext(s)
             \/ ResetContext /\ UNCHANGED <<made, loaded>>
  BY <1>2
     DEF StartStep, Test, MakeAddressThrows, Throw, Listen, CatchSignals, Spawn,
         SpawnFails, JoinAndReset, Return, StartFaults, Fault, contextVars,
         controllerVars
<1>3. ASSUME NEW s \in Starters, NEW t \in Threads, ThreadStep(s, t)
      PROVE  UNCHANGED <<contextVars, loaded>>
  BY <1>3 DEF ThreadStep, Run, EnterRun, RunReturns, contextVars,
              controllerVars
<1>4. CASE Signal
  BY <1>4 DEF Signal, Fault, Usable, contextVars, controllerVars
<1>5. ASSUME NEW k \in Controllers, ControlStep(k)
      PROVE  \/ UNCHANGED <<contextVars, loaded>>
             \/ UNCHANGED contextVars /\ loaded' = [loaded EXCEPT ![k] = ioc]
             \/ StopContext(loaded[k]) /\ loaded[k] # None /\ UNCHANGED loaded
  BY <1>5
     DEF ControlStep, RunningTest, RunningLoad, RunningAnswer, StopLoad,
         StopCall, JoinStarters, Fault, Usable, contextVars, controllerVars
<1> QED
  BY <1>1, <1>2, <1>3, <1>4, <1>5 DEF Next

\* So a context is made of what none was, and a step keeps what was stopped.
LEMMA ContextsKept ==
  ASSUME MadeInTurn, [Next]_vars
  PROVE  MadeInTurn' /\ \A c \in Contexts : Over(c) => Over(c)'
<1> USE DEF MadeInTurn, Over, None, Contexts
<1>1. CASE UNCHANGED contextVars /\ loaded' \in [Controllers -> 0 .. made]
  BY <1>1 DEF contextVars
<1>2. ASSUME NEW s \in Starters, MakeContext(s)
      PROVE  MadeInTurn' /\ \A c \in Contexts : Over(c) => Over(c)'
  <2>1. /\ made' = made + 1 /\ ioc' = made + 1 /\ loaded' = loaded
        /\ context' = [c \in Contexts |-> IF c = made + 1 THEN "live"
                                          ELSE IF c = ioc THEN "destroyed"
                                          ELSE context[c]]
    BY <1>2 DEF MakeContext, controllerVars
  <2>2. loaded \in [Controllers -> 0 .. made + 1]
    OBVIOUS
  <2> QED
    BY <2>1, <2>2, MaxContextsAssumption
<1>3. CASE ResetContext /\ UNCHANGED <<made, loaded>>
  BY <1>3 DEF ResetContext
<1>4. ASSUME NEW p \in 0 .. made, p # None, StopContext(p), UNCHANGED loaded
      PROVE  MadeInTurn' /\ \A c \in Contexts : Over(c) => Over(c)'
  <2>1. /\ context' = [context EXCEPT ![p] = "stopped"]
        /\ UNCHANGED <<ioc, made, loaded>>
    BY <1>4 DEF StopContext
  <2>2. \A c \in Contexts :
          context'[c] = IF c = p THEN "stopped" ELSE context[c]
    BY <2>1
  <2>3. \A c \in Contexts : c > made => c # p
    OBVIOUS
  <2>4. \A c \in Contexts : Over(c) => Over(c)'
    BY <2>2
  <2>5. MadeInTurn'
    BY <2>1, <2>2, <2>3
  <2> QED
    BY <2>4, <2>5
<1> HIDE DEF Over, Contexts, None
<1> QED
  BY <1>1, <1>2, <1>3, <1>4, ContextSteps

\* No handler, no thread and no call of start(), of which several may race,
\* revives a context that was stopped or destroyed: a stop that comes before
\* the threads enter run() is not lost.
THEOREM StoppedForGood ==
  Spec => [][\A c \in Contexts : Over(c) => Over(c)']_vars
<1>1. Init => MadeInTurn
  BY MaxContextsAssumption DEF Init, MadeInTurn, None
<1>2. MadeInTurn /\ [Next]_vars => MadeInTurn'
  BY ContextsKept
<1>3. MadeInTurn /\ [Next]_vars => [\A c \in Contexts : Over(c) => Over(c)']_vars
  BY ContextsKept
<1> QED
  BY <1>1, <1>2, <1>3, PTL DEF Spec

-----------------------------------------------------------------------------
(* running() and stop() *)

\* One controller, which calls running() and stop() when it likes, and waits for
\* start() to return after a stop(); no signal arrives.
JoiningController ==
  /\ \A j, k \in Controllers : j = k
  /\ Disciplined
  /\ ~CatchesSignal

\* Nobody controls a service that was never started.
LEMMA InitControl == Init => ControlInv
BY DEF Init, ControlInv, ControlIsSafe, Unmade

\* start() and its threads use their own context only, so they cannot fail.
LEMMA StartIsSafe ==
  ASSUME IInv, NEW s \in Starters
  PROVE  ~StartFaults(s)
<1> USE ThreadFacts
<1>1. pc[s] \in {"made", "listening", "spawning", "running"} => Usable(ioc)
  BY DEF IInv, OwnContext, Usable
<1>2. \A t \in Threads : CanEnter(s, t) => Usable(ioc)
  BY <1>1 DEF CanEnter, IInv, OwnContext, ThreadsHaveContext, Usable
<1>3. \A t \in Threads : thread[s][t].phase = "running" => Usable(thread[s][t].in)
  <2> SUFFICES ASSUME NEW t \in Threads, thread[s][t].phase = "running"
               PROVE  Usable(thread[s][t].in)
    OBVIOUS
  <2> QED
    BY DEF IInv, ThreadsHaveContext, Usable
<1> QED
  BY <1>1, <1>2, <1>3 DEF StartFaults, Fault

\* What start() does leaves the controller's context alone until the
\* controller has stopped it.
LEMMA StartControl ==
  ASSUME SingleStarter, JoiningController, IInv, ControlInv, fault = "none",
         NEW s \in Starters, StartStep(s)
  PROVE  ControlInv'
<1> USE ThreadFacts DEF SingleStarter
<1>1. CASE Test(s)
  BY <1>1 DEF Test, IInv, TypeOK, ControlInv, ControlIsSafe, contextVars,
              controllerVars
<1>2. CASE MakeContext(s)
  <2>1. ioc = None
    BY <1>2 DEF MakeContext, IInv, OwnContext
  <2>2. made + 1 \in Contexts /\ made + 1 # None
    BY <1>2, MaxContextsAssumption DEF MakeContext, IInv, TypeOK, Contexts, None
  <2>3. context'[ioc'] = "live" /\ ioc' # None /\ pc'[s] = "made"
    BY <1>2, <2>2 DEF MakeContext, IInv, TypeOK
  <2> QED
    BY <1>2, <2>1, <2>3
       DEF MakeContext, ControlInv, ControlIsSafe, controllerVars
<1>3. ASSUME Throw(s) PROVE ControlInv'
  BY <1>3 DEF Throw, IInv, TypeOK, ControlInv, ControlIsSafe, contextVars,
              controllerVars
<1>4. CASE MakeAddressThrows(s)
  BY <1>3, <1>4 DEF MakeAddressThrows
<1>5. CASE Listen(s)
  BY <1>5 DEF Listen, IInv, TypeOK, ControlInv, ControlIsSafe, contextVars,
              controllerVars
<1>6. CASE CatchSignals(s)
  BY <1>6 DEF CatchSignals, IInv, TypeOK, OwnContext, ThreadsOfStart,
              ControlInv, ControlIsSafe, contextVars, controllerVars
<1>7. CASE Spawn(s)
  BY <1>7 DEF Spawn, Unspawned, IInv, TypeOK, ControlInv, ControlIsSafe,
              contextVars, controllerVars
<1>8. CASE SpawnFails(s)
  BY <1>3, <1>8 DEF SpawnFails, ControlInv, ControlIsSafe, contextVars,
                    starterVars, controllerVars
<1>9. CASE JoinAndReset(s)
  <2>1. pc[s] = "running" /\ thread[s][0].phase = "done"
    BY <1>9 DEF JoinAndReset, Joined
  <2>2. context[ioc] = "stopped"
    BY <2>1 DEF ControlInv
  <2>3. \A k \in Controllers : ask[k] = "joining" /\ ~answer[k]
    BY <2>1, <2>2 DEF ControlInv
  <2>4. pc'[s] = "returning"
    BY <1>9 DEF JoinAndReset, IInv, TypeOK
  <2> QED
    BY <1>9, <2>3, <2>4
       DEF JoinAndReset, ControlInv, ControlIsSafe, controllerVars
<1>10. CASE Return(s)
  BY <1>10 DEF Return, IInv, TypeOK, ControlInv, ControlIsSafe, contextVars,
               starterVars, controllerVars
<1>11. CASE StartFaults(s)
  BY <1>11, StartIsSafe
<1> QED
  BY <1>1, <1>2, <1>4, <1>5, <1>6, <1>7, <1>8, <1>9, <1>10, <1>11 DEF StartStep

\* A thread leaves run() only when its context has been stopped.
LEMMA ThreadControl ==
  ASSUME SingleStarter, IInv, ControlInv, fault = "none", NEW s \in Starters,
         NEW t \in Threads, ThreadStep(s, t)
  PROVE  ControlInv'
<1> USE ThreadFacts DEF SingleStarter
<1>1. CASE Run(s, t)
  <2>1. pc[s] \in {"spawning", "running"}
    BY <1>1 DEF Run, CanEnter, IInv, TypeOK, ThreadsOfStart, Joined
  <2> QED
    BY <1>1, <2>1 DEF Run, EnterRun, IInv, TypeOK, ControlInv, ControlIsSafe,
                      controllerVars
<1>2. CASE RunReturns(s, t)
  <2>1. context[ioc] = "stopped"
    BY <1>2 DEF RunReturns, IInv, ThreadsHaveContext
  <2> QED
    BY <1>2, <2>1 DEF RunReturns, IInv, TypeOK, ControlInv, ControlIsSafe,
                      contextVars, controllerVars
<1> QED
  BY <1>1, <1>2 DEF ThreadStep

\* Each step of the controller finds the context it expects.
LEMMA ControllerControl ==
  ASSUME JoiningController, IInv, ControlInv, fault = "none",
         NEW k \in Controllers, ControlStep(k)
  PROVE  ControlInv'
<1> USE DEF JoiningController
<1>1. ioc # None => Usable(ioc)
  BY DEF IInv, OwnContext, Usable
<1>2. \A j \in Controllers : j = k
  OBVIOUS
<1>3. CASE RunningTest(k)
  BY <1>2, <1>3 DEF RunningTest, IInv, TypeOK, ControlInv, ControlIsSafe,
                    contextVars, starterVars
<1>4. CASE RunningLoad(k)
  BY <1>2, <1>4 DEF RunningLoad, IInv, TypeOK, ControlInv, ControlIsSafe,
                    contextVars, starterVars
<1>5. CASE RunningAnswer(k)
  <2>1. ask[k] = "asking" /\ loaded[k] = ioc /\ ioc # None
    BY <1>5 DEF RunningAnswer, ControlInv
  <2>2. /\ answer' = [answer EXCEPT ![k] = (context[ioc] = "live")]
        /\ ask' = [ask EXCEPT ![k] = "idle"]
        /\ UNCHANGED <<contextVars, starterVars, loaded, fault>>
    BY <1>1, <1>5, <2>1 DEF RunningAnswer, Fault
  <2>3. answer'[k] => context[ioc] = "live"
    BY <2>2 DEF IInv, TypeOK
  <2>4. ask'[k] = "idle"
    BY <2>2 DEF IInv, TypeOK
  <2> QED
    BY <1>2, <2>1, <2>2, <2>3, <2>4
       DEF ControlInv, ControlIsSafe, contextVars, starterVars
<1>6. CASE StopLoad(k)
  <2>1. CASE ioc = None
    <3>1. /\ fault' = "null" /\ ask[k] = "idle"
          /\ UNCHANGED <<contextVars, starterVars, controllerVars>>
      BY <1>6, <2>1 DEF StopLoad, Fault
    <3>2. ~answer[k]
      BY <2>1, <3>1 DEF ControlInv
    <3>3. \A s \in Starters : pc[s] \in {"idle", "unset"}
      BY <2>1, <3>1 DEF ControlInv, IInv, TypeOK, OwnContext
    <3> QED
      BY <1>2, <3>1, <3>2, <3>3
         DEF ControlInv, ControlIsSafe, contextVars, starterVars, controllerVars
  <2>2. CASE ioc # None
    BY <1>2, <1>6, <2>2 DEF StopLoad, IInv, TypeOK, ControlInv, ControlIsSafe,
                            contextVars, starterVars
  <2> QED
    BY <2>1, <2>2
<1>7. CASE StopCall(k)
  <2>1. loaded[k] = ioc /\ ioc \in Contexts /\ Usable(ioc)
    BY <1>1, <1>7 DEF StopCall, ControlInv, IInv, TypeOK
  <2>2. /\ context' = [context EXCEPT ![ioc] = "stopped"]
        /\ answer' = [answer EXCEPT ![k] = FALSE]
        /\ ask' = [ask EXCEPT ![k] = "joining"]
        /\ UNCHANGED <<ioc, starterVars, fault>>
    BY <1>7, <2>1 DEF StopCall, Fault, StopContext
  <2>3. context'[ioc'] = "stopped" /\ ask'[k] = "joining" /\ ~answer'[k]
    BY <2>1, <2>2 DEF IInv, TypeOK
  <2> QED
    BY <1>2, <2>2, <2>3 DEF ControlInv, ControlIsSafe, starterVars
<1>8. CASE JoinStarters(k)
  BY <1>2, <1>8 DEF JoinStarters, IInv, TypeOK, ControlInv, ControlIsSafe,
                    contextVars, starterVars
<1> QED
  BY <1>3, <1>4, <1>5, <1>6, <1>7, <1>8 DEF ControlStep

\* A controller that joins start() after a stop() never meets a context that was
\* destroyed, however start() and its threads run, and a null _ioc only where it
\* calls stop() before start() has made a context and without an answer of
\* running() that it has.
THEOREM SafeControl ==
  ASSUME SingleStarter, JoiningController
  PROVE  Spec => []ControlInv
<1>1. Init => ControlInv
  BY InitControl
<1>2. IInv /\ ControlInv /\ [Next]_vars => ControlInv'
  <2> SUFFICES ASSUME IInv, ControlInv, [Next]_vars PROVE ControlInv'
    OBVIOUS
  <2>1. CASE UNCHANGED vars
    BY <2>1 DEF ControlInv, ControlIsSafe, vars, contextVars, starterVars,
                controllerVars
  <2>2. CASE fault = "none" /\ \E s \in Starters :
               StartStep(s) \/ \E t \in Threads : ThreadStep(s, t)
    BY <2>2, StartControl, ThreadControl
  <2>3. ~Signal
    BY DEF JoiningController, Signal
  <2>4. CASE fault = "none" /\ \E k \in Controllers : ControlStep(k)
    BY <2>4, ControllerControl
  <2> QED
    BY <2>1, <2>2, <2>3, <2>4 DEF Next
<1> QED
  BY <1>1, <1>2, Invariance, PTL DEF Spec

-----------------------------------------------------------------------------
(* start() when it is called again *)

\* No exception leaves start(): the address is one, and no worker is made.
NoException == ~AddressMayThrow /\ ThreadIo <= 1

\* Whatever start() does, for any number of callers, the context in _ioc
\* keeps one that will reset it.
LEMMA StartAttended ==
  ASSUME NoException, Attended, NEW s \in Starters, StartStep(s)
  PROVE  Attended'
<1>1. Threads = {0}
  BY ThreadIoAssumption DEF NoException, Threads
<1>2. CASE Test(s)
  BY <1>2 DEF Test, Attended, contextVars
<1>3. CASE MakeContext(s)
  BY <1>3 DEF MakeContext, Attended
<1>4. ~MakeAddressThrows(s)
  BY DEF NoException, MakeAddressThrows
<1>5. CASE Listen(s)
  BY <1>5 DEF Listen, Attended, contextVars
<1>6. CASE CatchSignals(s)
  BY <1>6 DEF CatchSignals, Attended, contextVars
<1>7. ~Spawn(s) /\ ~SpawnFails(s)
  BY <1>1 DEF Spawn, SpawnFails, Unspawned
<1>8. CASE JoinAndReset(s)
  BY <1>8 DEF JoinAndReset, ResetContext, Attended
<1>9. CASE Return(s)
  BY <1>9 DEF Return, Attended, contextVars, starterVars
<1>10. CASE StartFaults(s)
  BY <1>10 DEF StartFaults, Fault, Attended, contextVars, starterVars
<1> QED
  BY <1>2, <1>3, <1>4, <1>5, <1>6, <1>7, <1>8, <1>9, <1>10 DEF StartStep

\* Where no exception leaves start(), a call of it that fails does so while
\* another one is inside: also with several callers at once, and whatever
\* signals and controllers do.
THEOREM FailsOnlyIfStarted ==
  ASSUME NoException
  PROVE  Spec => FailureMeansStarted
<1>1. Init => Attended
  BY DEF Init, Attended
<1>2. Attended /\ [Next]_vars => Attended'
  <2> SUFFICES ASSUME Attended, [Next]_vars PROVE Attended'
    OBVIOUS
  <2>1. CASE UNCHANGED vars
    BY <2>1 DEF Attended, vars, contextVars, starterVars
  <2>2. ASSUME NEW s \in Starters, NEW t \in Threads, ThreadStep(s, t)
        PROVE  Attended'
    BY <2>2 DEF ThreadStep, Run, RunReturns, Attended, contextVars
  <2>3. CASE Signal
    BY <2>3 DEF Signal, Fault, StopContext, Attended, contextVars, starterVars
  <2>4. ASSUME NEW k \in Controllers, ControlStep(k)
        PROVE  Attended'
    BY <2>4 DEF ControlStep, RunningTest, RunningLoad, RunningAnswer, StopLoad,
                StopCall, JoinStarters, Fault, StopContext, Attended,
                contextVars, starterVars
  <2> QED
    BY <2>1, <2>2, <2>3, <2>4, StartAttended DEF Next
<1>3. Attended /\ [Next]_vars =>
        [\A s \in Starters :
           (returned[s] # "failure" /\ returned'[s] = "failure") =>
             \E r \in Starters \ {s} : pc[r] # "idle"]_vars
  <2> SUFFICES ASSUME Attended, Next, NEW s \in Starters,
                      returned[s] # "failure", returned'[s] = "failure"
               PROVE  \E r \in Starters \ {s} : pc[r] # "idle"
    OBVIOUS
  <2>1. \A k \in Controllers : ControlStep(k) => returned' = returned
    BY DEF ControlStep, RunningTest, RunningLoad, RunningAnswer, StopLoad,
           StopCall, JoinStarters, Fault, starterVars
  <2>2. Signal => returned' = returned
    BY DEF Signal, Fault, starterVars
  <2>3. \A r \in Starters, t \in Threads : ThreadStep(r, t) => returned' = returned
    BY DEF ThreadStep, Run, RunReturns
  <2>4. PICK r \in Starters : StartStep(r)
    BY <2>1, <2>2, <2>3 DEF Next
  <2>5. CASE Test(r)
    <3>1. returned'[s] # returned[s]
      OBVIOUS
    <3>2. r = s /\ pc[s] = "idle" /\ ioc # None
      BY <2>5, <3>1 DEF Test, Attended
    <3> QED
      BY <3>2 DEF Attended
  <2>6. ASSUME returned' = [returned EXCEPT ![r] = "threw"]
               \/ returned' = [returned EXCEPT ![r] = "success"]
               \/ returned' = returned
        PROVE  FALSE
    BY <2>6 DEF Attended
  <2>7. Test(r) \/ (\/ returned' = [returned EXCEPT ![r] = "threw"]
                    \/ returned' = [returned EXCEPT ![r] = "success"]
                    \/ returned' = returned)
    BY <2>4 DEF StartStep, MakeContext, MakeAddressThrows, Throw, Listen,
                CatchSignals, Spawn, SpawnFails, JoinAndReset, Return,
                StartFaults, Fault, starterVars
  <2> QED
    BY <2>5, <2>6, <2>7
<1> QED
  BY <1>1, <1>2, <1>3, PTL DEF Spec, FailureMeansStarted
=============================================================================
