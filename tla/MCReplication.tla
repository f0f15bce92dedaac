--------------------------- MODULE MCReplication ---------------------------
(* Instances of Replication for TLC: MCReplication.cfg with every kind of  *)
(* fault, MCReplicationLive.cfg without failed saves, under FairSpec.      *)
EXTENDS Replication
=============================================================================
