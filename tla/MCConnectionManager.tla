------------------------ MODULE MCConnectionManager ------------------------
(* ConnectionManager on small instances: interchangeable threads, where no *)
(* liveness property is checked.                                           *)
EXTENDS ConnectionManager, TLC

ThreadSymmetry == Permutations(Thread)
=============================================================================
