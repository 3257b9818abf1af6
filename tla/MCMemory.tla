------------------------------ MODULE MCMemory ------------------------------
(* The memory manager on a small instance.  Pages contain model values, no *)
(* definition tells one from another, so they are interchangeable.         *)
EXTENDS Memory, TLC

Symmetry == Permutations(Values)
=============================================================================
