----------------------------- MODULE Connection -----------------------------
(***************************************************************************)
(* An HTTP session with its request handler, and what the peer makes of    *)
(* the responses: HttpSession, where a request is only a number and the    *)
(* one flag its response carries, joined to RequestHandler, which says     *)
(* what the response is.                                                   *)
(*                                                                         *)
(* Each action is one of HttpSession's, with what it does to the requests  *)
(* waiting and to the peer.  The peer pipelines its requests and finds the *)
(* end of each response from the method of the request it takes it to      *)
(* answer and from the content length.                                     *)
(***************************************************************************)
EXTENDS HttpSession, RequestHandler

CONSTANTS
  DocRoots,   \* the document roots the server may be configured with
  Requests    \* bound: the requests the peer may send

ASSUME RequestsAssumption ==
  /\ DocRoots \subseteq Seq(Token)
  /\ \A request \in Requests :
       request.target \in Seq(Token) /\ request.keep \in BOOLEAN

VARIABLES
  root,      \* settings.document_root, rigid
  waiting,   \* the requests of the responses in items, with the responses
  inStep     \* the peer has taken every response written for what it was

cvars == <<vars, root, waiting, inStep>>

CInit ==
  /\ Init
  /\ root \in DocRoots
  /\ waiting = <<>>
  /\ inStep = TRUE

\* Mutant: an answer that is an error is made and not sent.
AnswerRequestDropsErrors(request) ==
  LET response == HandleRequest(root, request)
  IN  /\ nread < MaxRequests
      /\ IF response.status = 200
           THEN /\ ReadRequest(response.close)
                /\ waiting' = Append(waiting, [request |-> request,
                                               response |-> response])
           ELSE /\ reads > 0
                /\ readOk
                /\ nread' = nread + 1
                /\ DoRead(reads - 1)
                /\ UNCHANGED <<ssl, handshaking, writing, writeOk, shutdowns,
                               items, sent, endVars, waiting>>
      /\ UNCHANGED <<root, inStep>>

\* Mutant: a message without a body counts as one that needs the end of the
\* connection, whatever its length says.
AnswerRequestEndsAtHead(request) ==
  LET response == HandleRequest(root, request)
  IN  /\ ReadRequest(response.close \/ response.body = "none")
      /\ waiting' = Append(waiting, [request |-> request,
                                     response |-> response])
      /\ UNCHANGED <<root, inStep>>

\* on_read with a request: handle_request passes its response to the queue.
AnswerRequest(request) ==
  LET response == HandleRequest(root, request)
  IN  /\ ReadRequest(response.close)
      /\ waiting' = Append(waiting, [request |-> request,
                                     response |-> response])
      /\ UNCHANGED <<root, inStep>>

\* on_read with anything else, and the handshake before it.
ReadingEnds ==
  /\ OnHandshake \/ ReadEof \/ ReadError \/ ReadUpgrade
  /\ UNCHANGED <<root, waiting, inStep>>

\* What the peer makes of the response in front, all of which it received.
PeerReceives ==
  inStep' = (inStep /\ Delimited(Head(waiting).request,
                                 Head(waiting).response))

\* on_write without an error: possible if the body in front can be read.
WriteSucceeds(w) ==
  /\ Head(waiting).response.body # "unreadable"
  /\ PeerReceives
  /\ UNCHANGED root
  /\ \/ WriteClose(w) /\ UNCHANGED waiting
     \/ WriteNext(w) /\ waiting' = Tail(waiting)
     \/ /\ WriteCrash(w)
        /\ waiting' = IF w.close THEN waiting ELSE Tail(waiting)

\* A message of which a part was sent is not gone on with.
WriteIsCut(w) ==
  /\ Head(waiting).response.body # "unreadable"
  /\ WriteBreaksOff(w)
  /\ UNCHANGED <<root, waiting, inStep>>

\* on_write with an error.
WriteFails(w) == WriteError(w) /\ UNCHANGED <<root, waiting, inStep>>

Elsewhere == (OnShutdown \/ Timeout) /\ UNCHANGED <<root, waiting, inStep>>

Reading == ReadingEnds \/ \E request \in Requests : AnswerRequest(request)
Writing ==
  \E w \in writing : WriteSucceeds(w) \/ WriteIsCut(w) \/ WriteFails(w)

CNext == Reading \/ Writing \/ Elsewhere

CSpec == CInit /\ [][CNext]_cvars

\* As in HttpSession: every operation completes and is handled.
CFairness ==
  /\ WF_cvars(Reading)
  /\ WF_cvars(Writing)
  /\ WF_cvars(OnShutdown /\ UNCHANGED <<root, waiting, inStep>>)

CFairSpec == CSpec /\ CFairness

-----------------------------------------------------------------------------
(* Properties *)

\* The responses in the queue are those of the requests waiting, in the same
\* order: the session's flags and the handler's messages stay together.
CInv ==
  /\ root \in DocRoots
  /\ waiting \in Seq([request : Requests,
                      response : {HandleRequest(root, r) : r \in Requests}])
  /\ inStep \in BOOLEAN
  /\ Len(waiting) = Len(items)
  /\ \A i \in DOMAIN items :
       /\ waiting[i].response = HandleRequest(root, waiting[i].request)
       /\ items[i].close = waiting[i].response.close

\* The response that is queued for a request, at whatever place in the queue,
\* is the one it should get: the status its method and the file system call
\* for, the header of the file its target names below the document root, a
\* body exactly for GET, and the end of the connection exactly if it asked for
\* that.  Of a request for a directory only the last is said: a GET of one is
\* promised a body that cannot be read (handler.hpp 98-200, sessions.hpp
\* 310-321).
AnswersFit ==
  \A i \in DOMAIN items :
    /\ Fits(root, waiting[i].request, waiting[i].response)
    /\ items[i].close <=> ~waiting[i].request.keep

\* Whatever the target is made of, no response is taken from outside the
\* document root (handler.hpp 148-158, functions.cpp 45-64).
ServesTheRootOnly ==
  \A i \in DOMAIN waiting :
    waiting[i].response.status = 200 =>
      Below(root, waiting[i].response.length)

\* A pipelining peer loses its place in the stream of responses through one
\* thing only, an error response to a HEAD request, whose body it takes for
\* the beginning of the next response (handler.hpp 104-142, 176-200).
OutOfStepByHeadError ==
  [][inStep /\ ~inStep' =>
       /\ Head(waiting).request.method = "head"
       /\ Head(waiting).response.status # 200]_cvars

\* With its handler the session is still the one of HttpSession, fairness
\* included: a body that cannot be read only makes a write fail.  So what is
\* shown of HttpSession holds here.
ImplementsSession == FairSpec

=============================================================================
