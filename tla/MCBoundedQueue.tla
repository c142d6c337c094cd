--------------------------- MODULE MCBoundedQueue ---------------------------
(* The queue between two producers and a consumer, as the log back end uses *)
(* it: two slots, indices that wrap after four increments.                  *)
EXTENDS BoundedQueueProps
=============================================================================
