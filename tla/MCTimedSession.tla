--------------------------- MODULE MCTimedSession ---------------------------
(* A deadline of three ticks can be found unspent, spent in part, more by    *)
(* one direction than by the other, and spent; the queue fills, drains and   *)
(* fills again.                                                              *)
EXTENDS TimedSession

MCLimit == 3
MCMaxRequests == 7
MCDeadline == 3
=============================================================================
