-------------------------- MODULE MCTaskSocketPool --------------------------
(* Model values and symmetries for model checking TaskSocketPool.          *)
EXTENDS TaskSocketPool, TLC

Symmetry ==
  Permutations(Clients) \cup Permutations(Closers) \cup Permutations(Sockets)
=============================================================================
