----------------------------- MODULE MCCacheFile -----------------------------
(* CacheFile with two threads, of one process or of two, and inodes and     *)
(* names enough for two calls at once and a temporary file left behind.     *)
EXTENDS CacheFile, TLC

Symmetric ==
  Permutations(Clients) \cup Permutations(Records) \cup Permutations(Tmps) \cup Permutations(Inodes)
=============================================================================
