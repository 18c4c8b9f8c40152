----------------------------- MODULE MCLiveRooms -----------------------------
(* Instances of LiveRooms for TLC.  Streams, sessions and calls are each    *)
(* interchangeable.                                                         *)
EXTENDS LiveRooms, TLC

Symmetry == Permutations(Streams) \cup Permutations(Sessions) \cup Permutations(Calls)
==============================================================================
