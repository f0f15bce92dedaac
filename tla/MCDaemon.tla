------------------------------ MODULE MCDaemon ------------------------------
(* StatusCache and DeleteGrace for TLC.  The two share nothing: a          *)
(* behaviour is one of either, the other stays as it began.  What follows  *)
(* the eviction of a status is left out, nothing being claimed of it.      *)
EXTENDS StatusCache, DeleteGrace

VARIABLE part

MCInit == CacheInit /\ GraceInit /\ part \in {"cache", "grace"}

MCNext ==
    /\ \/ part = "cache" /\ ~evicted /\ CacheNext /\ UNCHANGED graceVars
       \/ part = "grace" /\ GraceNext /\ UNCHANGED cacheVars
    /\ UNCHANGED part

MCSpec == MCInit /\ [][MCNext]_<<cacheVars, graceVars, part>>
                 /\ CacheFairness /\ GraceFairness
=============================================================================
