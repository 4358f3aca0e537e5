--------------------------- MODULE ListenerProofs ---------------------------
(***************************************************************************)
(* Theorems about Listener, for every finite set of connections.           *)
(***************************************************************************)
EXTENDS Listener, FiniteSetTheorems, TLAPS

\* A connection is handed to nobody before it is detected.
LEMMA InitIInv == Init => IInv
<1>1. Cardinality({}) = 0
  BY FS_EmptySet
<1> SUFFICES ASSUME Init PROVE IInv
  OBVIOUS
<1>2. \A c \in Connections :
        owners[c] = {} /\ given[c] = {} /\ detector[c] = "none"
  BY DEF Init
<1>3. \A c \in Connections : Cardinality(owners[c]) = 0
  BY <1>1, <1>2
<1>4. HandedOverOnce
  BY <1>2, <1>3 DEF Init, HandedOverOnce
<1>5. TypeOK
  BY DEF Init, TypeOK
<1> QED
  BY <1>2, <1>4, <1>5 DEF Init, IInv, AlwaysAccepting

\* The constructor touches no connection, and run() begins the first accept.
LEMMA ConstructIInv ==
  ASSUME IInv, Construct
  PROVE  IInv'
BY DEF Construct, Open, SetOption, Bind, Listen, Call, Run, DoAccept,
       detectVars,
       sessionVars, IInv, TypeOK, AlwaysAccepting, HandedOverOnce

\* A connection arrives once.
LEMMA ConnectIInv ==
  ASSUME IInv, NEW c \in Connections, Connect(c)
  PROVE  IInv'
BY DEF Connect, detectVars, sessionVars, IInv, TypeOK, AlwaysAccepting,
       HandedOverOnce

\* An accept, failed or not, is followed by exactly one other.
LEMMA OnAcceptIInv ==
  ASSUME IInv, OnAccept
  PROVE  IInv'
<1>1. CASE AcceptError
  BY <1>1 DEF AcceptError, DoAccept, detectVars, sessionVars, IInv, TypeOK,
              AlwaysAccepting, HandedOverOnce
<1>2. ASSUME NEW c \in Connections, AcceptConnection(c) PROVE IInv'
  BY <1>2 DEF AcceptConnection, MakeDetector, DoAccept, sessionVars, IInv,
              TypeOK, AlwaysAccepting, HandedOverOnce
<1> QED
  BY <1>1, <1>2 DEF OnAccept

\* Detection hands the stream, with its bytes, to the one session of the kind
\* it found; nothing else touches owners.
LEMMA DetectIInv ==
  ASSUME IInv, NEW c \in Connections, Detect(c)
  PROVE  IInv'
<1>1. CASE OnRun(c)
  BY <1>1 DEF OnRun, SetDeadline, sessionVars, IInv, TypeOK, AlwaysAccepting,
              HandedOverOnce
<1>2. ASSUME NEW why \in {"deadline", "error"}, DetectFails(c, why) PROVE IInv'
  BY <1>2 DEF DetectFails, sessionVars, IInv, TypeOK, AlwaysAccepting,
              HandedOverOnce
<1>3. ASSUME NEW kind \in {"plain", "ssl"}, OnDetect(c, kind) PROVE IInv'
  <2>1. owners[c] = {} /\ owners' = [owners EXCEPT ![c] = {kind}]
    <3>1. detector[c] = "detecting"
      BY <1>3 DEF OnDetect
    <3>2. owners[c] = {}
      BY <3>1 DEF IInv
    <3>3. owners' = [owners EXCEPT ![c] = owners[c] \cup {kind}]
      BY <1>3 DEF OnDetect, Launch
    <3>4. {} \cup {kind} = {kind}
      OBVIOUS
    <3> QED
      BY <3>2, <3>3, <3>4
  <2>2. Cardinality({kind}) = 1
    BY FS_Singleton
  <2>3. \A d \in Connections : d # c =>
          /\ owners'[d] = owners[d] /\ given'[d] = given[d]
          /\ detector'[d] = detector[d]
    BY <1>3, <2>1 DEF OnDetect, IInv, TypeOK
  <2>4. owners'[c] = {kind} /\ given'[c] = {kind} /\ detector'[c] = "gone"
    <3>1. given' = [given EXCEPT ![c] = {kind}]
      BY <1>3 DEF OnDetect, MoveBuffer, Launch
    <3>2. /\ c \in DOMAIN given /\ c \in DOMAIN owners
          /\ c \in DOMAIN detector
      BY DEF IInv, TypeOK
    <3> QED
      BY <1>3, <2>1, <3>1, <3>2 DEF OnDetect
  <2>5. TypeOK'
    BY <1>3, <2>1 DEF OnDetect, MoveBuffer, Launch, IInv, TypeOK
  <2>6. HandedOverOnce'
    <3> SUFFICES ASSUME NEW d \in Connections
                 PROVE  /\ Cardinality(owners'[d]) <= 1
                        /\ owners'[d] # {} => detector'[d] = "gone" /\ d \in peeked'
                        /\ given'[d] = owners'[d]
                        /\ detector'[d] # "none" => d \notin backlog'
      BY DEF HandedOverOnce
    <3>1. peeked' = peeked /\ backlog' = backlog
      BY <1>3 DEF OnDetect
    <3>2. CASE d = c
      <4>1. c \in peeked /\ detector[c] # "none"
        BY <1>3 DEF OnDetect
      <4>2. Cardinality(owners'[c]) = 1
        BY <2>2, <2>4
      <4>3. c \notin backlog
        BY <4>1 DEF IInv, HandedOverOnce
      <4>4. Cardinality(owners'[d]) <= 1
        BY <3>2, <4>2
      <4>5. /\ owners'[d] # {} => detector'[d] = "gone" /\ d \in peeked'
            /\ given'[d] = owners'[d]
            /\ detector'[d] # "none" => d \notin backlog'
        BY <2>4, <3>1, <3>2, <4>1, <4>3
      <4> QED
        BY <4>4, <4>5
    <3>3. CASE d # c
      BY <2>3, <3>1, <3>3 DEF IInv, HandedOverOnce
    <3> QED
      BY <3>2, <3>3
  <2>7. AlwaysAccepting'
    BY <1>3 DEF OnDetect, IInv, AlwaysAccepting
  <2> QED
    BY <1>3, <2>3, <2>4, <2>5, <2>6, <2>7 DEF OnDetect, IInv
<1> QED
  BY <1>1, <1>2, <1>3 DEF Detect

\* What a peer or a session does, and the end of the context, hands nothing
\* over.
LEMMA OthersIInv ==
  ASSUME IInv,
         \/ Stop
         \/ \E c \in Connections :
              PeerSends(c) \/ HandleRequest(c) \/ SessionEnds(c)
  PROVE  IInv'
<1>1. CASE Stop
  BY <1>1 DEF Stop, detectVars, sessionVars, IInv, TypeOK, AlwaysAccepting,
              HandedOverOnce
<1>2. ASSUME NEW c \in Connections, PeerSends(c) PROVE IInv'
  BY <1>2 DEF PeerSends, sessionVars, IInv, TypeOK, AlwaysAccepting,
              HandedOverOnce
<1>3. ASSUME NEW c \in Connections, HandleRequest(c) PROVE IInv'
  BY <1>3 DEF HandleRequest, detectVars, IInv, TypeOK, AlwaysAccepting,
              HandedOverOnce
<1>4. ASSUME NEW c \in Connections, SessionEnds(c) PROVE IInv'
  BY <1>4 DEF SessionEnds, detectVars, IInv, TypeOK, AlwaysAccepting,
              HandedOverOnce
<1> QED
  BY <1>1, <1>2, <1>3, <1>4

-----------------------------------------------------------------------------

\* IInv is inductive, for any number of connections.
THEOREM Invariance == Spec => []IInv
<1>1. Init => IInv
  BY InitIInv
<1>2. IInv /\ [Next]_vars => IInv'
  <2> SUFFICES ASSUME IInv, [Next]_vars PROVE IInv'
    OBVIOUS
  <2>1. CASE UNCHANGED vars
    BY <2>1 DEF vars, IInv, TypeOK, AlwaysAccepting, HandedOverOnce
  <2>2. CASE Next
    BY <2>2, ConstructIInv, ConnectIInv, OnAcceptIInv, DetectIInv, OthersIInv
       DEF Next
  <2> QED
    BY <2>1, <2>2
<1> QED
  BY <1>1, <1>2, PTL DEF Spec

\* Once run() was called one accept is outstanding, whatever has failed.
THEOREM Accepting == Spec => []AlwaysAccepting
<1>1. IInv => AlwaysAccepting
  BY DEF IInv
<1> QED
  BY <1>1, Invariance, PTL

\* A stream goes to at most one session, after its detector is done with it,
\* and the bytes the detector read go with it.
THEOREM HandOver == Spec => []HandedOverOnce
<1>1. IInv => HandedOverOnce
  BY DEF IInv
<1> QED
  BY <1>1, Invariance, PTL
-----------------------------------------------------------------------------
(* No connection is left behind, and none goes back. *)

\* Where a connection is, and where it may go from there.
Place(c) == IF c \in backlog THEN "backlog" ELSE detector[c]

Onward == {<<"none", "backlog">>, <<"backlog", "posted">>,
           <<"posted", "detecting">>, <<"detecting", "gone">>}

\* The constructor goes from one call to the next.
LEMMA ListensFirstInvariance == Spec => []ListensFirst
<1>1. Init => ListensFirst
  BY DEF Init, ListensFirst
<1>2. ListensFirst /\ [Next]_vars => ListensFirst'
  <2> SUFFICES ASSUME ListensFirst, [Next]_vars PROVE ListensFirst'
    OBVIOUS
  <2>1. CASE Construct
    BY <2>1 DEF Construct, Open, SetOption, Bind, Listen, Call, Run,
                ListensFirst
  <2>2. ASSUME NEW c \in Connections, Connect(c) PROVE ListensFirst'
    BY <2>2 DEF Connect, ListensFirst
  <2>3. CASE UNCHANGED <<setup, acceptor, arrived>>
    BY <2>3 DEF ListensFirst
  <2> QED
    BY <2>1, <2>2, <2>3
       DEF Next, OnAccept, AcceptError, AcceptConnection, Detect, OnRun,
           DetectFails, OnDetect, PeerSends, HandleRequest, SessionEnds, Stop,
           vars
<1> QED
  BY <1>1, <1>2, PTL DEF Spec

\* Whatever fails and whenever the peers come, no connection waits for a
\* handler that nothing will call: where its waiting is not over, an accept
\* or the deadline of its detection is outstanding for it.
THEOREM NoConnectionIsLeftBehind == Spec => []LInv
<1>1. Init => NobodyLeftBehind
  BY DEF Init, NobodyLeftBehind
<1>2. IInv /\ IInv' /\ ListensFirst' /\ NobodyLeftBehind /\ [Next]_vars
      => NobodyLeftBehind'
  <2> SUFFICES ASSUME IInv, IInv', ListensFirst', NobodyLeftBehind, [Next]_vars,
                      NEW c \in Connections
               PROVE  /\ c \in arrived' => c \in backlog' \/ detector'[c] # "none"
                      /\ detector'[c] = "detecting" => c \in deadline'
                      /\ c \in backlog' => accepts' = 1 \/ setup' = "run"
    BY DEF NobodyLeftBehind
  <2>1. c \in backlog' => accepts' = 1 \/ setup' = "run"
    BY DEF IInv, ListensFirst, AlwaysAccepting
  <2>2. CASE UNCHANGED <<arrived, backlog, detector, deadline>>
    BY <2>1, <2>2 DEF NobodyLeftBehind
  <2>3. ASSUME NEW d \in Connections, Connect(d) \/ AcceptConnection(d)
        PROVE  /\ c \in arrived' => c \in backlog' \/ detector'[c] # "none"
               /\ detector'[c] = "detecting" => c \in deadline'
    BY <2>3 DEF Connect, AcceptConnection, MakeDetector, detectVars,
                NobodyLeftBehind, IInv, TypeOK
  <2>4. ASSUME NEW d \in Connections, Detect(d)
        PROVE  /\ c \in arrived' => c \in backlog' \/ detector'[c] # "none"
               /\ detector'[c] = "detecting" => c \in deadline'
    BY <2>4 DEF Detect, OnRun, SetDeadline, DetectFails, OnDetect,
                NobodyLeftBehind, IInv, TypeOK
  <2>5. \/ UNCHANGED <<arrived, backlog, detector, deadline>>
        \/ \E d \in Connections :
             Connect(d) \/ AcceptConnection(d) \/ Detect(d)
    BY DEF Next, Construct, Open, SetOption, Bind, Listen, Call, Run, OnAccept,
           AcceptError, PeerSends, HandleRequest, SessionEnds, Stop,
           detectVars, vars
  <2> QED
    BY <2>1, <2>2, <2>3, <2>4, <2>5
<1>3. IInv /\ ListensFirst /\ NobodyLeftBehind => LInv
  BY DEF LInv
<1> QED
  BY <1>1, <1>2, <1>3, Invariance, ListensFirstInvariance, PTL DEF Spec

\* A connection goes from the backlog to its detector and through it once: no
\* handler puts it back, and none skips the deadline that on_run sets.
THEOREM ConnectionsGoOnward ==
  Spec => [][\A c \in Connections :
               Place(c)' # Place(c) => <<Place(c), Place(c)'>> \in Onward]_vars
<1>1. IInv /\ [Next]_vars =>
        [\A c \in Connections :
           Place(c)' # Place(c) => <<Place(c), Place(c)'>> \in Onward]_vars
  <2> SUFFICES ASSUME IInv, [Next]_vars, NEW c \in Connections,
                      Place(c)' # Place(c)
               PROVE  <<Place(c), Place(c)'>> \in Onward
    OBVIOUS
  <2>1. ~UNCHANGED <<backlog, detector>>
    BY DEF Place
  <2>2. \E d \in Connections : Connect(d) \/ AcceptConnection(d) \/ Detect(d)
    BY <2>1
       DEF Next, Construct, Open, SetOption, Bind, Listen, Call, Run, OnAccept,
           AcceptError, PeerSends, HandleRequest, SessionEnds, Stop,
           detectVars, vars
  <2>3. ASSUME NEW d \in Connections, Connect(d)
        PROVE  Place(c) = "none" /\ Place(c)' = "backlog"
    BY <2>3 DEF Connect, detectVars, Place, IInv
  <2>4. ASSUME NEW d \in Connections, AcceptConnection(d)
        PROVE  Place(c) = "backlog" /\ Place(c)' = "posted"
    BY <2>4 DEF AcceptConnection, MakeDetector, Place, IInv, TypeOK
  <2>5. ASSUME NEW d \in Connections, Detect(d)
        PROVE  \/ Place(c) = "posted" /\ Place(c)' = "detecting"
               \/ Place(c) = "detecting" /\ Place(c)' = "gone"
    BY <2>5 DEF Detect, OnRun, DetectFails, OnDetect, Place, IInv, TypeOK,
                HandedOverOnce
  <2> QED
    BY <2>2, <2>3, <2>4, <2>5 DEF Onward
<1> QED
  BY <1>1, Invariance, PTL DEF Spec

=============================================================================
