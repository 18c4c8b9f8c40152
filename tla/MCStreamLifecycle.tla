------------------------- MODULE MCStreamLifecycle -------------------------
(* Instances of StreamLifecycle for TLC.  A host's devices and its streams  *)
(* are interchangeable.                                                     *)
EXTENDS StreamLifecycle, TLC

Symmetry == Permutations(Streams) \cup Permutations(Calls)
============================================================================
