---------------------------- MODULE RoomAllocation ----------------------------
(***************************************************************************)
(* What RoomManagerService promises about the rooms of a live stream, with *)
(* every allocation taken in one atomic step: the rooms of a stream are    *)
(* numbered 1, 2, 3, ... in the order they are opened, a room is opened    *)
(* only while fewer than MaxRooms rooms are active, and rooms are closed   *)
(* all together and never reopened.  LiveRooms, where an allocation is     *)
(* four separate database calls of concurrent handlers, implements this.   *)
(***************************************************************************)
EXTENDS Naturals, FiniteSets

CONSTANTS Streams, MaxRooms

VARIABLES opened,   \* opened[st]: how many rooms the stream ever had
          active    \* active[st]: the numbers of its active rooms

vars == <<opened, active>>

(* A stream is created with room 1, unless that last step of its creation *)
(* never happened.                                                        *)
Init ==
  /\ opened \in [Streams -> {0, 1}]
  /\ active = [st \in Streams |-> 1 .. opened[st]]

(* joinRoom found no free room and opens the next one. *)
OpenRoom(st) ==
  /\ Cardinality(active[st]) < MaxRooms
  /\ opened' = [opened EXCEPT ![st] = @ + 1]
  /\ active' = [active EXCEPT ![st] = @ \cup {opened[st] + 1}]

(* closeAllRooms deactivates every room of the stream. *)
CloseRooms(st) ==
  /\ active' = [active EXCEPT ![st] = {}]
  /\ UNCHANGED opened

Next == \E st \in Streams : OpenRoom(st) \/ CloseRooms(st)

Spec == Init /\ [][Next]_vars
===============================================================================
