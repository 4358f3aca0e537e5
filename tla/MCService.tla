----------------------------- MODULE MCService -----------------------------
(* The bounds under which TLC checks Service: two contexts, so that the    *)
(* service is started again after it was stopped, and three threads, so    *)
(* that a worker can still be on its way when another has finished.        *)
EXTENDS Service

CONSTANTS s1, s2, k1

OneStarter == {s1}
TwoStarters == {s1, s2}
OneController == {k1}
MCMaxContexts == 2
=============================================================================
