------------------------------ MODULE MCDeltaSync ------------------------------
(* DeltaSync on small instances: the tasks of a list are interchangeable.   *)
EXTENDS DeltaSync, TLC

Symmetry == Permutations(Tasks)
=============================================================================
