------------------------ MODULE MCSchedulerSnapshot ------------------------
(* One account in one bucket, with a request that changes it, an outbox      *)
(* worker, and a process that rebuilds everything and serves requests that   *)
(* miss the cache.                                                           *)
EXTENDS SchedulerSnapshot

CONSTANTS b1, w1, p1, r1
=============================================================================
