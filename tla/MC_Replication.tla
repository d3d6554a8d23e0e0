-------------------------- MODULE MC_Replication --------------------------
(* Replication on three servers: the least number with which fuse_recover  *)
(* can have a recovered, a helping and a third server.                     *)
EXTENDS Replication
=============================================================================
