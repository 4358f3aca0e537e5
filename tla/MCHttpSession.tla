--------------------------- MODULE MCHttpSession ---------------------------
(* The bounds under which TLC checks HttpSession.  The peer sends enough   *)
(* requests to fill the queue, to overfill it after a closing response and *)
(* to fill it a second time after it drained.                              *)
EXTENDS HttpSession

MCLimit == 3
MCMaxRequests == 7

\* The queue limit of the program, and one request more than twice as many.
RealLimit == 8
RealMaxRequests == 17
=============================================================================
