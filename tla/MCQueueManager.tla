--------------------------- MODULE MCQueueManager ---------------------------
(***************************************************************************)
(* Instance of QueueManager for TLC: two racing AddPlugins, a client that  *)
(* streams and one that is a loop of "all".                                *)
(***************************************************************************)
EXTENDS QueueManager

CONSTANTS a1, a2, c1, c2

TwoAdders == {a1, a2}
TwoClients == {c1, c2}
OneLoop == {c2}
=============================================================================
