---------------------------- MODULE MCCacheReap ----------------------------
(* Instances of CacheReap for TLC. *)
EXTENDS CacheReap

CONSTANTS l1, t1, t2, t3, t4

MCOneLauncher == {l1}
MCThreeTrees == {t1, t2, t3}
=============================================================================
