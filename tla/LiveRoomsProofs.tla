---------------------------- MODULE LiveRoomsProofs ----------------------------
(***************************************************************************)
(* Theorems about LiveRooms, for every number of streams, sessions and     *)
(* overlapping calls.                                                      *)
(***************************************************************************)
EXTENDS LiveRooms, FiniteSetTheorems, TLAPS

USE LiveRoomsAssumption

-----------------------------------------------------------------------------
(* Type correctness.                                                       *)

(* The first rooms of the streams. *)
LEMMA InitRooms ==
  ASSUME Init, NEW st \in Streams
  PROVE  \E n \in {0, 1} : /\ RoomNumbers(st) = 1 .. n
                           /\ ActiveRooms(st) = 1 .. n
                           /\ rooms[st] = [r \in 1 .. n |-> [isActive |-> TRUE, currentCount |-> 0]]
<1>1. PICK first \in [Streams -> {0, 1}] :
        rooms = [t \in Streams |-> [n \in 1 .. first[t] |-> [isActive |-> TRUE, currentCount |-> 0]]]
  BY DEF Init
<1>2. rooms[st] = [r \in 1 .. first[st] |-> [isActive |-> TRUE, currentCount |-> 0]]
  BY <1>1
<1> QED
  BY <1>2 DEF RoomNumbers, ActiveRooms

(* The initial state has the types of TypeOK, and no call. *)
LEMMA InitTypeOK == Init => TypeOK /\ CallsAddressed
<1> SUFFICES ASSUME Init PROVE TypeOK /\ CallsAddressed
  OBVIOUS
<1>1. ASSUME NEW st \in Streams
      PROVE  /\ RoomNumbers(st) \subseteq Nat \ {0}
             /\ IsFiniteSet(RoomNumbers(st))
             /\ rooms[st] \in [RoomNumbers(st) -> Room]
  <2>1. PICK n \in {0, 1} :
          /\ RoomNumbers(st) = 1 .. n
          /\ rooms[st] = [r \in 1 .. n |-> [isActive |-> TRUE, currentCount |-> 0]]
    BY InitRooms
  <2>2. IsFiniteSet(1 .. n)
    BY FS_Interval
  <2> QED
    BY <2>1, <2>2 DEF Room
<1>2. Idle \in Call
  BY DEF Idle, Call
<1>3. listeners \in [DOMAIN listeners -> Listener] /\ DOMAIN listeners \subseteq Sessions
  BY DEF Init
<1>4. CallsAddressed
  BY DEF Init, CallsAddressed, Idle, JoinPCs, LeavePCs, HostPCs
<1> QED
  BY <1>1, <1>2, <1>3, <1>4 DEF Init, TypeOK, Statuses, SocketState

PCs == {"idle"} \cup JoinPCs \cup LeavePCs \cup HostPCs

(* A record of a call whose session and stream are those its pc needs. *)
Addressed(k) ==
  /\ k \in Call
  /\ k.pc \in JoinPCs \cup LeavePCs => k.session \in Sessions
  /\ k.pc \in JoinPCs \cup HostPCs \cup {"leave_mark", "decrement"} => k.stream \in Streams

CallsOK == call \in [Calls -> Call] /\ CallsAddressed

(* One call changes its record and stays addressed. *)
LEMMA CallUpdate ==
  ASSUME CallsOK, NEW c \in Calls, NEW k, Addressed(k), call' = [call EXCEPT ![c] = k]
  PROVE  CallsOK'
  BY DEF CallsOK, CallsAddressed, Addressed

LEMMA ReturnUpdate ==
  ASSUME CallsOK, NEW c \in Calls, Return(c)
  PROVE  CallsOK'
<1>1. Addressed(Idle)
  BY DEF Addressed, Idle, Call, JoinPCs, LeavePCs, HostPCs
<1> QED
  BY <1>1, CallUpdate DEF Return

LEMMA GotoUpdate ==
  ASSUME CallsOK, NEW c \in Calls, NEW pc \in PCs, Goto(c, pc),
         pc \in JoinPCs \cup LeavePCs => call[c].session \in Sessions,
         pc \in JoinPCs \cup HostPCs \cup {"leave_mark", "decrement"} => call[c].stream \in Streams
  PROVE  CallsOK'
<1> DEFINE k == [call[c] EXCEPT !.pc = pc]
<1>1. Addressed(k)
  BY DEF Addressed, Call, PCs, CallsOK
<1>2. call' = [call EXCEPT ![c] = k]
  BY DEF Goto
<1> QED
  BY <1>1, <1>2, CallUpdate

LEMMA StartUpdate ==
  ASSUME CallsOK, NEW c \in Calls, NEW pc \in PCs,
         NEW s \in Sessions \cup {None}, NEW st \in Streams \cup {None}, Start(c, pc, s, st),
         pc \in JoinPCs \cup LeavePCs => s \in Sessions,
         pc \in JoinPCs \cup HostPCs \cup {"leave_mark", "decrement"} => st \in Streams
  PROVE  CallsOK'
<1> DEFINE k == [Idle EXCEPT !.pc = pc, !.session = s, !.stream = st]
<1>1. Addressed(k)
  BY DEF Addressed, Call, PCs, Idle
<1>2. call' = [call EXCEPT ![c] = k]
  BY DEF Start
<1> QED
  BY <1>1, <1>2, CallUpdate

RoomsOK ==
  /\ DOMAIN rooms = Streams
  /\ \A st \in Streams :
       /\ RoomNumbers(st) \subseteq Nat \ {0}
       /\ IsFiniteSet(RoomNumbers(st))
       /\ rooms[st] \in [RoomNumbers(st) -> Room]

(* A step that writes the rows of one stream. *)
LEMMA RoomsUpdate ==
  ASSUME RoomsOK, NEW st \in Streams, NEW rows, SetRooms(st, rows),
         DOMAIN rows \subseteq Nat \ {0}, IsFiniteSet(DOMAIN rows), rows \in [DOMAIN rows -> Room]
  PROVE  RoomsOK' /\ rooms'[st] = rows /\ \A t \in Streams \ {st} : rooms'[t] = rooms[t]
  BY DEF RoomsOK, SetRooms, RoomNumbers

(* A count changes; no room is opened, closed or renumbered. *)
LEMMA AddToRoomUpdate ==
  ASSUME RoomsOK, NEW c \in Calls, call[c].stream \in Streams, NEW n \in Int, AddToRoom(c, n)
  PROVE  /\ RoomsOK'
         /\ \A t \in Streams : RoomNumbers(t)' = RoomNumbers(t) /\ ActiveRooms(t)' = ActiveRooms(t)
<1> DEFINE st == call[c].stream
           r == call[c].room
           rows == [rooms[st] EXCEPT ![r].currentCount = @ + n]
<1>1. \A x \in RoomNumbers(st) : rooms[st][x] \in Room /\ rooms[st] \in [RoomNumbers(st) -> Room]
  BY DEF RoomsOK
<1>2. DOMAIN rows = RoomNumbers(st)
  BY <1>1 DEF RoomNumbers
<1>3. ASSUME NEW x \in RoomNumbers(st)
      PROVE  rows[x] \in Room /\ rows[x].isActive = rooms[st][x].isActive
  <2>1. CASE x = r
    <3> DEFINE row == rooms[st][x]
    <3>1. rows[x] = [row EXCEPT !.currentCount = row.currentCount + n]
      BY <1>1, <2>1
    <3>2. row \in Room
      BY <1>1
    <3> HIDE DEF row
    <3>3. [row EXCEPT !.currentCount = row.currentCount + n] \in Room
          /\ [row EXCEPT !.currentCount = row.currentCount + n].isActive = row.isActive
      BY <3>2 DEF Room
    <3>4. rows[x] \in Room /\ rows[x].isActive = row.isActive
      BY <3>1, <3>3
    <3> QED
      BY <3>4 DEF row
  <2>2. CASE x # r
    BY <1>1, <2>2
  <2> QED
    BY <2>1, <2>2
<1>4. rows \in [RoomNumbers(st) -> Room]
  BY <1>1, <1>2, <1>3
<1>5. SetRooms(st, rows)
  BY DEF AddToRoom
<1>6. RoomsOK' /\ rooms'[st] = rows /\ \A t \in Streams \ {st} : rooms'[t] = rooms[t]
  <2> HIDE DEF rows
  <2> QED
    BY <1>2, <1>4, <1>5, RoomsUpdate DEF RoomsOK
<1>7. ASSUME NEW t \in Streams
      PROVE  RoomNumbers(t)' = RoomNumbers(t) /\ ActiveRooms(t)' = ActiveRooms(t)
  <2> HIDE DEF rows
  <2> QED
    BY <1>2, <1>3, <1>6 DEF RoomNumbers, ActiveRooms
<1> QED
  BY <1>6, <1>7

DatabaseOK ==
  /\ status \in [Streams -> Statuses]
  /\ peak \in [Streams -> Nat]
  /\ total \in [Streams -> Nat]

ListenersOK == DOMAIN listeners \subseteq Sessions /\ listeners \in [DOMAIN listeners -> Listener]

SocketsOK == sockets \in [Sessions -> SocketState]

LEMMA TypeParts ==
  TypeOK /\ CallsAddressed <=> DatabaseOK /\ RoomsOK /\ ListenersOK /\ SocketsOK /\ CallsOK
  BY DEF TypeOK, DatabaseOK, RoomsOK, ListenersOK, SocketsOK, CallsOK

(* What stays when only the calls and the sockets move. *)
LEMMA DatabaseKept ==
  ASSUME DatabaseOK, RoomsOK, ListenersOK, UNCHANGED dbVars
  PROVE  DatabaseOK' /\ RoomsOK' /\ ListenersOK'
  BY DEF DatabaseOK, RoomsOK, ListenersOK, dbVars, RoomNumbers

LEMMA RoomsKept ==
  ASSUME RoomsOK, UNCHANGED rooms
  PROVE  RoomsOK'
  BY DEF RoomsOK, RoomNumbers

(* A stream has a number of viewers that fits the call's record. *)
LEMMA ViewersCounted ==
  ASSUME ListenersOK, NEW st
  PROVE  /\ Viewers(st) \subseteq Sessions
         /\ IsFiniteSet(Viewers(st))
         /\ Cardinality(Viewers(st)) \in Nat
<1>1. Viewers(st) \subseteq Sessions
  BY DEF Viewers, ListenersOK
<1>2. IsFiniteSet(Viewers(st))
  BY <1>1, FS_Subset
<1> QED
  BY <1>1, <1>2, FS_CardinalityType

LEMMA SetLeftUpdate ==
  ASSUME ListenersOK, NEW s, NEW left \in BOOLEAN, SetLeft(s, left)
  PROVE  ListenersOK'
<1>1. CASE s \in DOMAIN listeners
  <2>1. listeners[s] \in Listener /\ [listeners[s] EXCEPT !.left = left] \in Listener
    BY <1>1 DEF ListenersOK, Listener
  <2>2. listeners' = [listeners EXCEPT ![s] = [listeners[s] EXCEPT !.left = left]]
    BY DEF SetLeft
  <2> QED
    BY <2>1, <2>2 DEF ListenersOK
<1>2. CASE s \notin DOMAIN listeners
  BY <1>2 DEF ListenersOK, SetLeft
<1> QED
  BY <1>1, <1>2

Typed == DatabaseOK /\ RoomsOK /\ ListenersOK /\ SocketsOK /\ CallsOK

(* The steps of a join keep the types. *)
LEMMA JoinTyped ==
  ASSUME Typed, NEW c \in Calls,
         \/ JoinFindListener(c) \/ JoinFindRoom(c) \/ JoinLastRoom(c) \/ JoinCountRooms(c)
         \/ JoinCreateRoom(c) \/ JoinUpsert(c) \/ JoinIncrement(c) \/ JoinCountViewers(c)
         \/ JoinWritePeak(c) \/ JoinAddTotal(c) \/ JoinAck(c)
  PROVE  Typed'
<1> USE DEF Typed
<1>1. call[c] \in Call
  BY DEF CallsOK
<1>2. call[c].pc \in JoinPCs => call[c].session \in Sessions /\ call[c].stream \in Streams
  BY DEF CallsOK, CallsAddressed
<1>3. CASE JoinFindListener(c)
  <2>1. CallsOK'
    BY <1>2, <1>3, GotoUpdate DEF JoinFindListener, At, PCs, JoinPCs, LeavePCs, HostPCs
  <2> QED
    BY <1>3, <2>1, DatabaseKept DEF JoinFindListener, SocketsOK
<1>4. CASE JoinFindRoom(c)
  <2>1. ASSUME NEW r \in FreeRooms(call[c].stream), At(c, "find_room"),
               call' = [call EXCEPT ![c].pc = "upsert", ![c].room = r]
        PROVE  CallsOK'
    <3>1. r \in Nat
      BY <1>2, <2>1 DEF FreeRooms, ActiveRooms, RoomsOK, At, JoinPCs
    <3>2. Addressed([call[c] EXCEPT !.pc = "upsert", !.room = r])
      BY <1>1, <1>2, <2>1, <3>1 DEF Addressed, Call, At, JoinPCs
    <3> QED
      BY <2>1, <3>2, CallUpdate
  <2>2. ASSUME At(c, "find_room"), Goto(c, "last_room") PROVE CallsOK'
    BY <1>2, <2>2, GotoUpdate DEF At, PCs, JoinPCs, LeavePCs, HostPCs
  <2> QED
    BY <1>4, <2>1, <2>2, DatabaseKept DEF JoinFindRoom, SocketsOK
<1>5. CASE JoinLastRoom(c)
  <2>1. PICK r \in RoomNumbers(call[c].stream) \cup {0} :
          call' = [call EXCEPT ![c].pc = "count_rooms", ![c].room = r]
    BY <1>5 DEF JoinLastRoom
  <2>2. r \in Nat
    BY <1>2, <1>5, <2>1 DEF JoinLastRoom, RoomsOK, At, JoinPCs
  <2>3. Addressed([call[c] EXCEPT !.pc = "count_rooms", !.room = r])
    BY <1>1, <1>2, <1>5, <2>2 DEF Addressed, Call, At, JoinPCs, JoinLastRoom
  <2>4. CallsOK'
    BY <2>1, <2>3, CallUpdate
  <2> QED
    BY <1>5, <2>4, DatabaseKept DEF JoinLastRoom, SocketsOK
<1>6. CASE JoinCountRooms(c)
  <2>1. CallsOK'
    BY <1>2, <1>6, GotoUpdate, ReturnUpdate
    DEF JoinCountRooms, At, PCs, JoinPCs, LeavePCs, HostPCs
  <2> QED
    BY <1>6, <2>1, DatabaseKept DEF JoinCountRooms, SocketsOK
<1>7. CASE JoinCreateRoom(c)
  <2> DEFINE st == call[c].stream
             new == NextRoomNumber(c)
             rows == [n \in RoomNumbers(st) \cup {new} |->
                        IF n = new THEN [isActive |-> TRUE, currentCount |-> 0] ELSE rooms[st][n]]
  <2>1. st \in Streams /\ new \in Nat \ {0}
    BY <1>1, <1>2, <1>7 DEF JoinCreateRoom, At, JoinPCs, NextRoomNumber, Call
  <2>2. CASE new \in RoomNumbers(st)
    BY <1>7, <2>2, ReturnUpdate, RoomsKept
    DEF JoinCreateRoom, DatabaseOK, ListenersOK, SocketsOK
  <2>3. CASE new \notin RoomNumbers(st)
    <3>1. rows \in [RoomNumbers(st) \cup {new} -> Room]
      BY <2>1 DEF RoomsOK, Room
    <3>2. DOMAIN rows \subseteq Nat \ {0} /\ IsFiniteSet(DOMAIN rows)
      BY <2>1, FS_AddElement DEF RoomsOK
    <3>3. SetRooms(st, rows) /\ call' = [call EXCEPT ![c].pc = "upsert", ![c].room = new]
      BY <1>7, <2>3 DEF JoinCreateRoom
    <3>4. RoomsOK'
      <4> HIDE DEF rows
      <4> QED
        BY <2>1, <3>1, <3>2, <3>3, RoomsUpdate
    <3>5. Addressed([call[c] EXCEPT !.pc = "upsert", !.room = new])
      BY <1>1, <1>2, <1>7, <2>1 DEF Addressed, Call, At, JoinPCs, JoinCreateRoom
    <3>6. CallsOK'
      BY <3>3, <3>5, CallUpdate
    <3> QED
      BY <1>7, <3>4, <3>6 DEF JoinCreateRoom, DatabaseOK, ListenersOK, SocketsOK
  <2> QED
    BY <2>2, <2>3
<1>8. CASE JoinUpsert(c)
  <2> DEFINE s == call[c].session
             new == [stream |-> call[c].stream, room |-> call[c].room, left |-> FALSE]
  <2>1. s \in Sessions /\ new \in Listener
    BY <1>1, <1>2, <1>8 DEF JoinUpsert, At, JoinPCs, Listener, Call
  <2>2. ListenersOK'
    <3>1. CASE Registered(s)
      BY <1>8, <3>1, SetLeftUpdate DEF JoinUpsert
    <3>2. CASE ~Registered(s)
      <4>1. listeners' = [l \in DOMAIN listeners \cup {s} |-> IF l = s THEN new ELSE listeners[l]]
        BY <1>8, <3>2 DEF JoinUpsert
      <4> HIDE DEF new
      <4> QED
        BY <2>1, <4>1 DEF ListenersOK
    <3> QED
      BY <3>1, <3>2
  <2>3. CallsOK'
    BY <1>2, <1>8, GotoUpdate DEF JoinUpsert, At, PCs, JoinPCs, LeavePCs, HostPCs
  <2> QED
    BY <1>8, <2>2, <2>3, RoomsKept DEF JoinUpsert, DatabaseOK, SocketsOK
<1>9. CASE JoinIncrement(c)
  <2>1. CallsOK'
    BY <1>2, <1>9, GotoUpdate DEF JoinIncrement, At, PCs, JoinPCs, LeavePCs, HostPCs
  <2>2. RoomsOK'
    BY <1>2, <1>9, AddToRoomUpdate DEF JoinIncrement, At, JoinPCs
  <2> QED
    BY <1>9, <2>1, <2>2 DEF JoinIncrement, DatabaseOK, ListenersOK, SocketsOK
<1>10. CASE JoinCountViewers(c)
  <2> DEFINE seen == Cardinality(Viewers(call[c].stream))
  <2>1. seen \in Nat
    BY ViewersCounted
  <2>2. Addressed([call[c] EXCEPT !.pc = "write_peak", !.seen = seen])
    <3> HIDE DEF seen
    <3> QED
      BY <1>1, <1>2, <1>10, <2>1 DEF Addressed, Call, At, JoinPCs, JoinCountViewers
  <2>3. CallsOK'
    BY <1>10, <2>2, CallUpdate DEF JoinCountViewers
  <2> QED
    BY <1>10, <2>3, DatabaseKept DEF JoinCountViewers, SocketsOK
<1>11. CASE JoinWritePeak(c)
  <2>1. Addressed([call[c] EXCEPT !.pc = "add_total", !.seen = 0])
    BY <1>1, <1>2, <1>11 DEF Addressed, Call, At, JoinPCs, JoinWritePeak
  <2>2. CallsOK'
    BY <1>11, <2>1, CallUpdate DEF JoinWritePeak
  <2>3. peak' \in [Streams -> Nat]
    BY <1>1, <1>11 DEF JoinWritePeak, DatabaseOK, Call
  <2> QED
    BY <1>11, <2>2, <2>3, RoomsKept DEF JoinWritePeak, DatabaseOK, ListenersOK, SocketsOK
<1>12. CASE JoinAddTotal(c)
  <2>1. CallsOK'
    BY <1>2, <1>12, GotoUpdate DEF JoinAddTotal, At, PCs, JoinPCs, LeavePCs, HostPCs
  <2>2. call[c].stream \in Streams /\ total[call[c].stream] + 1 \in Nat
    BY <1>2, <1>12 DEF JoinAddTotal, At, JoinPCs, DatabaseOK
  <2>3. total' \in [Streams -> Nat]
    BY <1>12, <2>2 DEF JoinAddTotal, DatabaseOK
  <2> QED
    BY <1>12, <2>1, <2>3, RoomsKept DEF JoinAddTotal, DatabaseOK, ListenersOK, SocketsOK
<1>13. CASE JoinAck(c)
  <2> DEFINE s == call[c].session
             st == call[c].stream
             socket == [sockets[s] EXCEPT !.stream = st, !.channels = @ \cup {st}]
  <2>1. s \in Sessions /\ st \in Streams
    BY <1>2, <1>13 DEF JoinAck, At, JoinPCs
  <2>2. sockets[s] \in SocketState
    BY <2>1 DEF SocketsOK
  <2>3. socket \in SocketState
    BY <2>1, <2>2 DEF SocketState
  <2>4. sockets' = [sockets EXCEPT ![s] = socket]
    BY <1>13 DEF JoinAck
  <2>5. SocketsOK'
    BY <2>3, <2>4 DEF SocketsOK
  <2>6. CallsOK'
    BY <1>13, ReturnUpdate DEF JoinAck
  <2> QED
    BY <1>13, <2>5, <2>6, DatabaseKept DEF JoinAck
<1> QED
  BY <1>3, <1>4, <1>5, <1>6, <1>7, <1>8, <1>9, <1>10, <1>11, <1>12, <1>13

(* The steps of a leave and of the host's operations keep the types. *)
LEMMA LeaveAndHostTyped ==
  ASSUME Typed, NEW c \in Calls,
         \/ LeaveFind(c) \/ LeaveMark(c) \/ LeaveDecrement(c)
         \/ WritePaused(c) \/ WriteLive(c) \/ WriteEnded(c)
         \/ CloseFind(c) \/ (\E s \in Sessions : CloseListener(c, s)) \/ CloseRooms(c)
  PROVE  Typed'
<1> USE DEF Typed
<1>1. call[c] \in Call
  BY DEF CallsOK
<1>2. /\ call[c].pc \in LeavePCs => call[c].session \in Sessions
      /\ call[c].pc \in HostPCs \cup {"leave_mark", "decrement"} => call[c].stream \in Streams
  BY DEF CallsOK, CallsAddressed
<1>3. CASE LeaveFind(c)
  <2> DEFINE s == call[c].session
  <2>1. CASE Present(s)
    <3>1. listeners[s].stream \in Streams /\ listeners[s].room \in Nat
      BY <2>1 DEF Present, Registered, ListenersOK, Listener
    <3> DEFINE k == [call[c] EXCEPT !.pc = "leave_mark", !.stream = listeners[s].stream,
                                    !.room = listeners[s].room]
    <3>2. Addressed(k)
      BY <1>1, <1>2, <1>3, <3>1 DEF Addressed, Call, At, LeavePCs, LeaveFind
    <3>3. call' = [call EXCEPT ![c] = k]
      BY <1>1, <1>3, <2>1 DEF LeaveFind, CallsOK, Call
    <3>4. CallsOK'
      <4> HIDE DEF k
      <4> QED
        BY <3>2, <3>3, CallUpdate
    <3> QED
      BY <1>3, <3>4, DatabaseKept DEF LeaveFind, SocketsOK
  <2>2. CASE ~Present(s)
    BY <1>3, <2>2, ReturnUpdate, DatabaseKept DEF LeaveFind, SocketsOK
  <2> QED
    BY <2>1, <2>2
<1>4. CASE LeaveMark(c)
  <2>1. CallsOK'
    BY <1>2, <1>4, GotoUpdate DEF LeaveMark, At, PCs, JoinPCs, LeavePCs, HostPCs
  <2>2. ListenersOK'
    BY <1>4, SetLeftUpdate DEF LeaveMark
  <2> QED
    BY <1>4, <2>1, <2>2, RoomsKept DEF LeaveMark, DatabaseOK, SocketsOK
<1>5. CASE LeaveDecrement(c)
  <2>1. CallsOK'
    BY <1>5, ReturnUpdate DEF LeaveDecrement
  <2>2. RoomsOK'
    BY <1>2, <1>5, AddToRoomUpdate DEF LeaveDecrement, At
  <2> QED
    BY <1>5, <2>1, <2>2 DEF LeaveDecrement, DatabaseOK, ListenersOK, SocketsOK
<1>6. CASE WritePaused(c) \/ WriteLive(c)
  <2>1. CallsOK'
    BY <1>6, ReturnUpdate DEF WritePaused, WriteLive
  <2>2. DatabaseOK'
    BY <1>6 DEF WritePaused, WriteLive, SetStatus, DatabaseOK, Statuses
  <2> QED
    BY <1>6, <2>1, <2>2, RoomsKept DEF WritePaused, WriteLive, SetStatus, ListenersOK, SocketsOK
<1>7. CASE WriteEnded(c)
  <2>1. CallsOK'
    BY <1>2, <1>7, GotoUpdate DEF WriteEnded, At, PCs, JoinPCs, LeavePCs, HostPCs
  <2>2. DatabaseOK'
    BY <1>7 DEF WriteEnded, SetStatus, DatabaseOK, Statuses
  <2> QED
    BY <1>7, <2>1, <2>2, RoomsKept DEF WriteEnded, SetStatus, ListenersOK, SocketsOK
<1>8. CASE CloseFind(c)
  <2> DEFINE todo == Viewers(call[c].stream)
  <2>1. todo \subseteq Sessions
    BY ViewersCounted
  <2>2. Addressed([call[c] EXCEPT !.pc = "close_rooms", !.todo = todo])
    <3> HIDE DEF todo
    <3> QED
      BY <1>1, <1>2, <1>8, <2>1
      DEF Addressed, Call, At, JoinPCs, LeavePCs, HostPCs, CloseFind
  <2>3. CallsOK'
    BY <1>8, <2>2, CallUpdate DEF CloseFind
  <2> QED
    BY <1>8, <2>3, DatabaseKept DEF CloseFind, SocketsOK
<1>9. ASSUME NEW s \in Sessions, CloseListener(c, s) PROVE Typed'
  <2>1. Addressed([call[c] EXCEPT !.todo = @ \ {s}])
    BY <1>1, <1>2, <1>9
    DEF Addressed, Call, At, JoinPCs, LeavePCs, HostPCs, CloseListener
  <2>2. CallsOK'
    BY <1>9, <2>1, CallUpdate DEF CloseListener
  <2>3. ListenersOK'
    BY <1>9, SetLeftUpdate DEF CloseListener
  <2> QED
    BY <1>9, <2>2, <2>3, RoomsKept DEF CloseListener, DatabaseOK, SocketsOK
<1>10. CASE CloseRooms(c)
  <2> DEFINE st == call[c].stream
             rows == [n \in RoomNumbers(st) |-> [isActive |-> FALSE, currentCount |-> 0]]
  <2>1. st \in Streams
    BY <1>2, <1>10 DEF CloseRooms, At, HostPCs
  <2>2. /\ rows \in [DOMAIN rows -> Room]
        /\ DOMAIN rows \subseteq Nat \ {0}
        /\ IsFiniteSet(DOMAIN rows)
    BY <2>1 DEF RoomsOK, Room
  <2>3. SetRooms(st, rows)
    BY <1>10 DEF CloseRooms
  <2>4. RoomsOK'
    <3> HIDE DEF rows
    <3> QED
      BY <2>1, <2>2, <2>3, RoomsUpdate
  <2>5. CallsOK'
    BY <1>10, ReturnUpdate DEF CloseRooms
  <2> QED
    BY <1>10, <2>4, <2>5 DEF CloseRooms, DatabaseOK, ListenersOK, SocketsOK
<1> QED
  BY <1>3, <1>4, <1>5, <1>6, <1>7, <1>8, <1>9, <1>10

(* The arrival of an event keeps the types. *)
LEMMA RequestTyped ==
  ASSUME Typed, NEW c \in Calls, Request(c)
  PROVE  Typed'
<1> USE DEF Typed
<1>1. ASSUME NEW s \in Sessions, NEW st \in Streams, JoinStream(c, s, st) PROVE Typed'
  <2>1. CallsOK'
    BY <1>1, StartUpdate DEF JoinStream, PCs, JoinPCs
  <2> QED
    BY <1>1, <2>1, DatabaseKept DEF JoinStream, SocketsOK
<1>2. ASSUME NEW s \in Sessions, LeaveStream(c, s) PROVE Typed'
  <2>1. CallsOK'
    BY <1>2, StartUpdate DEF LeaveStream, PCs, JoinPCs, LeavePCs, HostPCs
  <2>2. sockets[s] \in SocketState
    BY DEF SocketsOK
  <2>3. [sockets[s] EXCEPT !.channels = @ \ {sockets[s].stream}] \in SocketState
    BY <2>2 DEF SocketState
  <2>4. SocketsOK'
    BY <1>2, <2>3 DEF LeaveStream, SocketsOK
  <2> QED
    BY <1>2, <2>1, <2>4, DatabaseKept DEF LeaveStream
<1>3. ASSUME NEW st \in Streams, NEW pc \in {"pause", "resume", "end"}, NEW from, HostOp(c, st, pc, from)
      PROVE  Typed'
  <2>1. CallsOK'
    BY <1>3, StartUpdate DEF HostOp, PCs, JoinPCs, LeavePCs, HostPCs
  <2> QED
    BY <1>3, <2>1, DatabaseKept DEF HostOp, SocketsOK
<1> QED
  BY <1>1, <1>2, <1>3 DEF Request, PauseStream, ResumeStream, EndStream

(* Disconnecting a socket and restarting the server keep the types. *)
LEMMA LossTyped ==
  ASSUME Typed, ServerRestart \/ \E s \in Sessions : Disconnect(s)
  PROVE  Typed'
<1> USE DEF Typed
<1>1. ASSUME NEW s \in Sessions, Disconnect(s) PROVE Typed'
  <2>1. CallsOK'
    <3>1. CASE UNCHANGED call
      BY <3>1 DEF CallsOK, CallsAddressed
    <3>2. CASE \E c \in Calls : Start(c, "leave_find", s, None)
      BY <3>2, StartUpdate DEF PCs, JoinPCs, LeavePCs, HostPCs
    <3> QED
      BY <1>1, <3>1, <3>2 DEF Disconnect
  <2>2. sockets[s] \in SocketState
    BY DEF SocketsOK
  <2> DEFINE new == [sockets[s] EXCEPT !.connected = FALSE, !.channels = {},
                       !.lost = IF Working(s, JoinPCs) = {} THEN "no" ELSE "joining"]
  <2>3. new \in SocketState
    BY <2>2 DEF SocketState
  <2>4. sockets' = [sockets EXCEPT ![s] = new]
    BY <1>1 DEF Disconnect, SocketsOK
  <2>5. SocketsOK'
    BY <2>3, <2>4 DEF SocketsOK
  <2> QED
    BY <1>1, <2>1, <2>5, DatabaseKept DEF Disconnect
<1>2. CASE ServerRestart
  <2>1. Addressed(Idle)
    BY DEF Addressed, Idle, Call, JoinPCs, LeavePCs, HostPCs
  <2>2. CallsOK'
    BY <1>2, <2>1 DEF ServerRestart, CallsOK, CallsAddressed, Addressed
  <2>3. SocketsOK'
    BY <1>2 DEF ServerRestart, SocketsOK, SocketState
  <2> QED
    BY <1>2, <2>2, <2>3, DatabaseKept DEF ServerRestart
<1> QED
  BY <1>1, <1>2

LEMMA NextTyped == Typed /\ [Next]_vars => Typed'
<1> SUFFICES ASSUME Typed, [Next]_vars PROVE Typed'
  OBVIOUS
<1>1. CASE UNCHANGED vars
  BY <1>1, DatabaseKept DEF Typed, vars, dbVars, SocketsOK, CallsOK, CallsAddressed
<1>2. ASSUME NEW c \in Calls, Step(c) PROVE Typed'
  BY <1>2, JoinTyped, LeaveAndHostTyped DEF Step
<1> QED
  BY <1>1, <1>2, RequestTyped, LossTyped DEF Next

(* Rows, sockets and calls always have the shape the code gives them. *)
THEOREM TypeCorrect == Spec => []TypeOK
<1>1. Init => Typed
  BY InitTypeOK, TypeParts DEF Typed
<1>2. Typed => TypeOK
  BY TypeParts DEF Typed
<1> QED
  BY <1>1, <1>2, NextTyped, PTL DEF Spec

-----------------------------------------------------------------------------
(* The allocation of rooms.                                                *)

(* The part of AllocationInv that is not about types. *)
Allocated == RoomsNumberedInOrder /\ LastRoomExists /\ CountStillValid /\ RoomsBounded

LEMMA AllocationParts == AllocationInv <=> Typed /\ Allocated
  BY TypeParts DEF AllocationInv, Typed, Allocated

Allocating == {"count_rooms", "create_room"}

(* No room is opened or closed, and no call reads a last room number or    *)
(* counts the rooms.                                                       *)
Quiet ==
  /\ \A st \in Streams : RoomNumbers(st)' = RoomNumbers(st) /\ ActiveRooms(st)' = ActiveRooms(st)
  /\ \A c \in Calls : call'[c].pc \in Allocating => call'[c] = call[c]

LEMMA QuietKeeps ==
  ASSUME Typed, Allocated, Quiet
  PROVE  Allocated'
<1>1. \A c \in Calls : call'[c].pc \in Allocating => call[c].stream \in Streams
  BY DEF Quiet, Typed, CallsOK, CallsAddressed, Allocating, JoinPCs
<1> QED
  BY <1>1 DEF Quiet, Allocated, RoomsNumberedInOrder, LastRoomExists, CountStillValid, RoomsBounded,
              Allocating, At, NextRoomNumber

(* Every step is quiet but those of JoinLastRoom to JoinCreateRoom, and    *)
(* CloseRooms.                                                             *)
LEMMA QuietUnchanged ==
  ASSUME UNCHANGED rooms,
         \A c \in Calls : call'[c].pc \in Allocating => call'[c] = call[c]
  PROVE  Quiet
  BY DEF Quiet, RoomNumbers, ActiveRooms

LEMMA QuietCall ==
  ASSUME CallsOK, NEW c \in Calls, UNCHANGED rooms,
         \/ Return(c)
         \/ \E pc \in PCs \ Allocating : Goto(c, pc)
         \/ \E pc \in PCs \ Allocating : \E s, st : Start(c, pc, s, st)
         \/ \E k : k.pc \notin Allocating /\ call' = [call EXCEPT ![c] = k]
  PROVE  Quiet
<1> SUFFICES ASSUME NEW d \in Calls PROVE call'[d].pc \in Allocating => call'[d] = call[d]
  BY QuietUnchanged
<1>1. CASE Return(c)
  BY <1>1 DEF Return, Idle, Allocating, CallsOK
<1>2. ASSUME NEW pc \in PCs \ Allocating, Goto(c, pc) PROVE call'[d].pc \in Allocating => call'[d] = call[d]
  BY <1>2 DEF Goto, CallsOK, Call
<1>3. ASSUME NEW pc \in PCs \ Allocating, NEW s, NEW st, Start(c, pc, s, st)
      PROVE  call'[d].pc \in Allocating => call'[d] = call[d]
  BY <1>3 DEF Start, CallsOK, Idle
<1>4. ASSUME NEW k, k.pc \notin Allocating, call' = [call EXCEPT ![c] = k]
      PROVE  call'[d].pc \in Allocating => call'[d] = call[d]
  BY <1>4 DEF CallsOK
<1> QED
  BY <1>1, <1>2, <1>3, <1>4

LEMMA StepQuiet ==
  ASSUME Typed, NEW c \in Calls,
         \/ JoinFindListener(c) \/ JoinFindRoom(c) \/ JoinUpsert(c) \/ JoinIncrement(c)
         \/ JoinCountViewers(c) \/ JoinWritePeak(c) \/ JoinAddTotal(c) \/ JoinAck(c)
         \/ LeaveFind(c) \/ LeaveMark(c) \/ LeaveDecrement(c)
         \/ WritePaused(c) \/ WriteLive(c) \/ WriteEnded(c)
         \/ CloseFind(c) \/ (\E s \in Sessions : CloseListener(c, s))
  PROVE  Quiet
<1> USE DEF PCs, JoinPCs, LeavePCs, HostPCs, Allocating
<1>0. CallsOK /\ call[c] \in Call
  BY DEF Typed, CallsOK
<1>1. CASE JoinFindListener(c) \/ JoinUpsert(c) \/ JoinAddTotal(c) \/ JoinAck(c)
  BY <1>0, <1>1, QuietCall DEF JoinFindListener, JoinUpsert, JoinAddTotal, JoinAck, dbVars
<1>2. CASE JoinFindRoom(c)
  <2>1. ASSUME NEW r, call' = [call EXCEPT ![c].pc = "upsert", ![c].room = r], UNCHANGED rooms PROVE Quiet
    <3> DEFINE k == [call[c] EXCEPT !.pc = "upsert", !.room = r]
    <3>1. k.pc \notin Allocating /\ call' = [call EXCEPT ![c] = k]
      BY <1>0, <2>1 DEF CallsOK, Call
    <3> QED
      BY <1>0, <2>1, <3>1, QuietCall
  <2> QED
    BY <1>0, <1>2, <2>1, QuietCall DEF JoinFindRoom, dbVars
<1>3. CASE JoinIncrement(c) \/ LeaveDecrement(c)
  <2>1. call[c].stream \in Streams
    BY <1>0, <1>3 DEF JoinIncrement, LeaveDecrement, At, CallsOK, CallsAddressed
  <2>2. \A st \in Streams : RoomNumbers(st)' = RoomNumbers(st) /\ ActiveRooms(st)' = ActiveRooms(st)
    BY <1>3, <2>1, AddToRoomUpdate DEF JoinIncrement, LeaveDecrement, Typed
  <2>3. \A d \in Calls : call'[d].pc \in Allocating => call'[d] = call[d]
    BY <1>0, <1>3 DEF JoinIncrement, LeaveDecrement, Goto, Return, Idle, CallsOK, Call
  <2> QED
    BY <2>2, <2>3 DEF Quiet
<1>4. CASE JoinCountViewers(c)
  <2> DEFINE k == [call[c] EXCEPT !.pc = "write_peak", !.seen = Cardinality(Viewers(call[c].stream))]
  <2>1. k.pc \notin Allocating /\ call' = [call EXCEPT ![c] = k]
    BY <1>0, <1>4 DEF JoinCountViewers, CallsOK, Call
  <2> QED
    BY <1>0, <1>4, <2>1, QuietCall DEF JoinCountViewers, dbVars
<1>5. CASE JoinWritePeak(c)
  <2> DEFINE k == [call[c] EXCEPT !.pc = "add_total", !.seen = 0]
  <2>1. k.pc \notin Allocating /\ call' = [call EXCEPT ![c] = k]
    BY <1>0, <1>5 DEF JoinWritePeak, CallsOK, Call
  <2> QED
    BY <1>0, <1>5, <2>1, QuietCall DEF JoinWritePeak
<1>6. CASE LeaveFind(c)
  <2> DEFINE s == call[c].session
             k == [call[c] EXCEPT !.pc = "leave_mark", !.stream = listeners[s].stream,
                                  !.room = listeners[s].room]
  <2>1. CASE Present(s)
    <3>1. k.pc \notin Allocating /\ call' = [call EXCEPT ![c] = k]
      BY <1>0, <1>6, <2>1 DEF LeaveFind, CallsOK, Call
    <3> QED
      BY <1>0, <1>6, <3>1, QuietCall DEF LeaveFind, dbVars
  <2>2. CASE ~Present(s)
    BY <1>0, <1>6, <2>2, QuietCall DEF LeaveFind, dbVars
  <2> QED
    BY <2>1, <2>2
<1>7. CASE LeaveMark(c) \/ WritePaused(c) \/ WriteLive(c) \/ WriteEnded(c)
  BY <1>0, <1>7, QuietCall DEF LeaveMark, WritePaused, WriteLive, WriteEnded, SetStatus
<1>8. CASE CloseFind(c)
  <2> DEFINE k == [call[c] EXCEPT !.pc = "close_rooms", !.todo = Viewers(call[c].stream)]
  <2>1. k.pc \notin Allocating /\ call' = [call EXCEPT ![c] = k]
    BY <1>0, <1>8 DEF CloseFind, CallsOK, Call
  <2> QED
    BY <1>0, <1>8, <2>1, QuietCall DEF CloseFind, dbVars
<1>9. ASSUME NEW s \in Sessions, CloseListener(c, s) PROVE Quiet
  <2> DEFINE k == [call[c] EXCEPT !.todo = @ \ {s}]
  <2>1. k.pc \notin Allocating /\ call' = [call EXCEPT ![c] = k]
    BY <1>0, <1>9 DEF CloseListener, At, CallsOK, Call
  <2> QED
    BY <1>0, <1>9, <2>1, QuietCall DEF CloseListener
<1> QED
  BY <1>1, <1>2, <1>3, <1>4, <1>5, <1>6, <1>7, <1>8, <1>9

LEMMA RequestQuiet ==
  ASSUME Typed, NEW c \in Calls, Request(c)
  PROVE  Quiet
<1> USE DEF PCs, JoinPCs, LeavePCs, HostPCs, Allocating
<1>1. CallsOK
  BY DEF Typed
<1>2. ASSUME NEW s \in Sessions, NEW st \in Streams, JoinStream(c, s, st) PROVE Quiet
  BY <1>1, <1>2, QuietCall DEF JoinStream, dbVars
<1>3. ASSUME NEW s \in Sessions, LeaveStream(c, s) PROVE Quiet
  BY <1>1, <1>3, QuietCall DEF LeaveStream, dbVars
<1>4. ASSUME NEW st \in Streams, NEW pc \in {"pause", "resume", "end"}, NEW from, HostOp(c, st, pc, from)
      PROVE  Quiet
  BY <1>1, <1>4, QuietCall DEF HostOp, dbVars
<1> QED
  BY <1>2, <1>3, <1>4 DEF Request, PauseStream, ResumeStream, EndStream

LEMMA LossQuiet ==
  ASSUME Typed, ServerRestart \/ \E s \in Sessions : Disconnect(s)
  PROVE  Quiet
<1>1. CASE ServerRestart
  BY <1>1, QuietUnchanged DEF ServerRestart, dbVars, Idle, Allocating
<1>2. ASSUME NEW s \in Sessions, Disconnect(s) PROVE Quiet
  <2>1. CASE UNCHANGED call
    BY <1>2, <2>1, QuietUnchanged DEF Disconnect, dbVars
  <2>2. ASSUME NEW c \in Calls, Start(c, "leave_find", s, None) PROVE Quiet
    BY <1>2, <2>2, QuietCall DEF Disconnect, dbVars, Typed, PCs, LeavePCs, Allocating
  <2> QED
    BY <1>2, <2>1, <2>2 DEF Disconnect
<1> QED
  BY <1>1, <1>2

(* A stream's active rooms are a finite set, and numbered like its rooms. *)
LEMMA ActiveRoomsFinite ==
  ASSUME RoomsOK, NEW st \in Streams
  PROVE  /\ IsFiniteSet(RoomNumbers(st)) /\ Cardinality(RoomNumbers(st)) \in Nat
         /\ IsFiniteSet(ActiveRooms(st)) /\ Cardinality(ActiveRooms(st)) \in Nat
<1>1. IsFiniteSet(RoomNumbers(st)) /\ ActiveRooms(st) \subseteq RoomNumbers(st)
  BY DEF RoomsOK, ActiveRooms
<1> QED
  BY <1>1, FS_Subset, FS_CardinalityType

(* The insert of a join opens the room after the last one while fewer than *)
(* MAX_ROOMS are active, or changes no room at all.                        *)
LEMMA CreateRoomOpensNext ==
  ASSUME Typed, Allocated, NEW c \in Calls, JoinCreateRoom(c),
         NEW st, st = call[c].stream,
         NEW new, new = NextRoomNumber(c), new \notin RoomNumbers(st)
  PROVE  /\ st \in Streams
         /\ new \in Nat \ {0}
         /\ RoomNumbers(st) = 1 .. (new - 1)
         /\ Cardinality(RoomNumbers(st)) = new - 1
         /\ Cardinality(ActiveRooms(st)) < MaxRooms
         /\ RoomNumbers(st)' = 1 .. new
         /\ Cardinality(RoomNumbers(st))' = new
         /\ ActiveRooms(st)' = ActiveRooms(st) \cup {new}
         /\ \A t \in Streams \ {st} : rooms'[t] = rooms[t]
         /\ call' = [call EXCEPT ![c].pc = "upsert", ![c].room = new]
<1> DEFINE last == Cardinality(RoomNumbers(st))
           rows == [n \in RoomNumbers(st) \cup {new} |->
                      IF n = new THEN [isActive |-> TRUE, currentCount |-> 0] ELSE rooms[st][n]]
<1>1. st \in Streams /\ call[c].room \in Nat
  BY DEF Typed, CallsOK, CallsAddressed, JoinCreateRoom, At, JoinPCs, Call
<1>2. last \in Nat /\ RoomNumbers(st) = 1 .. last /\ IsFiniteSet(RoomNumbers(st))
  BY <1>1, ActiveRoomsFinite DEF Typed, Allocated, RoomsNumberedInOrder
<1>3. new = last + 1
  <2>1. call[c].room \in RoomNumbers(st) \cup {0}
    BY DEF Allocated, LastRoomExists, JoinCreateRoom, At
  <2> QED
    BY <1>1, <1>2, <2>1 DEF NextRoomNumber
<1>4. Cardinality(ActiveRooms(st)) < MaxRooms
  BY DEF Allocated, CountStillValid, JoinCreateRoom
<1>5. SetRooms(st, rows) /\ call' = [call EXCEPT ![c].pc = "upsert", ![c].room = new]
  BY DEF JoinCreateRoom
<1>6. rooms'[st] = rows /\ \A t \in Streams \ {st} : rooms'[t] = rooms[t]
  <2> HIDE DEF rows
  <2> QED
    BY <1>1, <1>5 DEF SetRooms, Typed, RoomsOK
<1>7. RoomNumbers(st)' = RoomNumbers(st) \cup {new}
  BY <1>6 DEF RoomNumbers
<1>8. ActiveRooms(st)' = ActiveRooms(st) \cup {new}
  <2>1. \A n \in RoomNumbers(st) : n # new /\ rows[n] = rooms[st][n]
    OBVIOUS
  <2>2. rows[new].isActive
    OBVIOUS
  <2> HIDE DEF rows
  <2> QED
    BY <1>6, <1>7, <2>1, <2>2 DEF ActiveRooms
<1>9. RoomNumbers(st)' = 1 .. new
  BY <1>2, <1>3, <1>7
<1>10. Cardinality(1 .. new) = new
  BY <1>2, <1>3, FS_Interval
<1> QED
  BY <1>1, <1>2, <1>3, <1>4, <1>5, <1>6, <1>8, <1>9, <1>10

LEMMA NextAllocated == Typed /\ Allocated /\ [Next]_vars => Allocated'
<1> SUFFICES ASSUME Typed, Allocated, [Next]_vars PROVE Allocated'
  OBVIOUS
<1>1. CASE UNCHANGED vars
  BY <1>1, QuietUnchanged, QuietKeeps DEF vars
<1>2. ASSUME NEW c \in Calls, JoinLastRoom(c) PROVE Allocated'
  <2>1. PICK r \in RoomNumbers(call[c].stream) \cup {0} :
          call' = [call EXCEPT ![c].pc = "count_rooms", ![c].room = r]
    BY <1>2 DEF JoinLastRoom
  <2>2. \A st \in Streams : RoomNumbers(st)' = RoomNumbers(st) /\ ActiveRooms(st)' = ActiveRooms(st)
    BY <1>2 DEF JoinLastRoom, dbVars, RoomNumbers, ActiveRooms
  <2>3. \A d \in Calls \ {c} : call'[d] = call[d]
    BY <2>1 DEF Typed, CallsOK
  <2>4. call'[c].pc = "count_rooms" /\ call'[c].room = r /\ call'[c].stream = call[c].stream
    BY <2>1 DEF Typed, CallsOK, Call
  <2>5. \A d \in Calls : call'[d].pc \in Allocating => call'[d].stream \in Streams
    BY <1>2, <2>3, <2>4 DEF Typed, CallsOK, CallsAddressed, Allocating, JoinPCs, JoinLastRoom, At
  <2>6. LastRoomExists'
    BY <2>2, <2>3, <2>4, <2>5 DEF Allocated, LastRoomExists, Allocating
  <2>7. CountStillValid'
    BY <2>2, <2>3, <2>4, <2>5 DEF Allocated, CountStillValid, Allocating, At, NextRoomNumber
  <2> QED
    BY <2>2, <2>6, <2>7 DEF Allocated, RoomsNumberedInOrder, RoomsBounded
<1>3. ASSUME NEW c \in Calls, JoinCountRooms(c) PROVE Allocated'
  <2>1. \A st \in Streams : RoomNumbers(st)' = RoomNumbers(st) /\ ActiveRooms(st)' = ActiveRooms(st)
    BY <1>3 DEF JoinCountRooms, dbVars, RoomNumbers, ActiveRooms
  <2>2. \A d \in Calls \ {c} : call'[d] = call[d]
    BY <1>3 DEF JoinCountRooms, Return, Goto, Typed, CallsOK
  <2>3. call[c].stream \in Streams /\ Cardinality(ActiveRooms(call[c].stream)) \in Nat
    BY <1>3, ActiveRoomsFinite DEF Typed, CallsOK, CallsAddressed, JoinPCs, JoinCountRooms, At
  <2>4. \/ call'[c].pc = "idle"
        \/ /\ call'[c].pc = "create_room"
           /\ call'[c].room = call[c].room /\ call'[c].stream = call[c].stream
           /\ Cardinality(ActiveRooms(call[c].stream)) < MaxRooms
    BY <1>3, <2>3 DEF JoinCountRooms, Return, Goto, Idle, Typed, CallsOK, Call
  <2>5. \A d \in Calls : call'[d].pc \in Allocating => call'[d].stream \in Streams
    BY <2>2, <2>3, <2>4 DEF Typed, CallsOK, CallsAddressed, Allocating, JoinPCs
  <2>6. LastRoomExists'
    BY <1>3, <2>1, <2>2, <2>4, <2>5 DEF Allocated, LastRoomExists, Allocating, JoinCountRooms, At
  <2>7. CountStillValid'
    BY <2>1, <2>2, <2>4, <2>5 DEF Allocated, CountStillValid, Allocating, At, NextRoomNumber
  <2> QED
    BY <2>1, <2>6, <2>7 DEF Allocated, RoomsNumberedInOrder, RoomsBounded
<1>4. ASSUME NEW c \in Calls, JoinCreateRoom(c) PROVE Allocated'
  <2>1. PICK st, new : st = call[c].stream /\ new = NextRoomNumber(c)
    OBVIOUS
  <2>2. CASE new \in RoomNumbers(st)
    <3>1. Return(c) /\ UNCHANGED rooms
      BY <1>4, <2>1, <2>2 DEF JoinCreateRoom
    <3> QED
      BY <3>1, QuietCall, QuietKeeps DEF Typed
  <2>3. CASE new \notin RoomNumbers(st)
    <3>1. /\ st \in Streams
          /\ new \in Nat \ {0}
          /\ RoomNumbers(st) = 1 .. (new - 1)
          /\ Cardinality(ActiveRooms(st)) < MaxRooms
          /\ RoomNumbers(st)' = 1 .. new
          /\ Cardinality(RoomNumbers(st))' = new
          /\ ActiveRooms(st)' = ActiveRooms(st) \cup {new}
          /\ \A t \in Streams \ {st} : rooms'[t] = rooms[t]
          /\ call' = [call EXCEPT ![c].pc = "upsert", ![c].room = new]
      BY <1>4, <2>1, <2>3, CreateRoomOpensNext
    <3>2. IsFiniteSet(ActiveRooms(st)) /\ Cardinality(ActiveRooms(st)) \in Nat
      BY <3>1, ActiveRoomsFinite DEF Typed
    <3>3. \A t \in Streams \ {st} : RoomNumbers(t)' = RoomNumbers(t) /\ ActiveRooms(t)' = ActiveRooms(t)
      BY <3>1 DEF RoomNumbers, ActiveRooms
    <3>4. \A d \in Calls : call'[d].pc \in Allocating =>
            call'[d] = call[d] /\ call[d].stream \in Streams /\ call[d].room \in Nat
      BY <3>1 DEF Typed, CallsOK, CallsAddressed, Call, Allocating, JoinPCs
    <3>5. \A d \in Calls : call'[d].pc \in Allocating =>
            call[d].room \in RoomNumbers(call[d].stream) \cup {0}
      BY <3>4 DEF Allocated, LastRoomExists, Allocating
    <3>6. RoomsNumberedInOrder'
      BY <3>1, <3>3 DEF Allocated, RoomsNumberedInOrder
    <3>7. RoomsBounded'
      <4>1. Cardinality(ActiveRooms(st) \cup {new})
              = IF new \in ActiveRooms(st) THEN Cardinality(ActiveRooms(st))
                                           ELSE Cardinality(ActiveRooms(st)) + 1
        BY <3>2, FS_AddElement
      <4>2. Cardinality(ActiveRooms(st) \cup {new}) <= MaxRooms
        BY <3>1, <3>2, <4>1
      <4> QED
        BY <3>1, <3>3, <4>2 DEF Allocated, RoomsBounded
    <3>8. LastRoomExists'
      <4> SUFFICES ASSUME NEW d \in Calls, NEW t, call'[d].pc \in Allocating, t = call'[d].stream
                   PROVE  call'[d].room \in RoomNumbers(t)' \cup {0}
        BY DEF LastRoomExists, Allocating, RoomNumbers
      <4>1. t \in Streams /\ call[d] = call'[d] /\ call[d].room \in RoomNumbers(t) \cup {0}
        BY <3>4, <3>5
      <4>2. RoomNumbers(t) \subseteq RoomNumbers(t)'
        <5>1. 1 .. (new - 1) \subseteq 1 .. new
          BY <3>1
        <5> QED
          BY <3>1, <3>3, <4>1, <5>1
      <4> QED
        BY <4>1, <4>2
    <3>9. CountStillValid'
      <4> SUFFICES ASSUME NEW d \in Calls, NEW t,
                          call'[d].pc = "create_room", t = call'[d].stream,
                          call'[d].room + 1 \notin RoomNumbers(t)'
                   PROVE  Cardinality(ActiveRooms(t))' < MaxRooms
        BY DEF CountStillValid, At, NextRoomNumber, RoomNumbers, ActiveRooms
      <4>1. t \in Streams /\ call[d] = call'[d] /\ t = call[d].stream /\ call[d].room \in Nat
        BY <3>4 DEF Allocating
      <4>2. CASE t = st
        <5>1. call[d].room \in RoomNumbers(st) \cup {0}
          BY <3>5, <4>1, <4>2 DEF Allocating
        <5>2. call[d].room \in 0 .. (new - 1)
          BY <3>1, <4>1, <5>1
        <5> QED
          BY <3>1, <4>1, <4>2, <5>2
      <4>3. CASE t # st
        BY <3>3, <4>1, <4>3 DEF Allocated, CountStillValid, At, NextRoomNumber
      <4> QED
        BY <4>2, <4>3
    <3> QED
      BY <3>6, <3>7, <3>8, <3>9 DEF Allocated
  <2> QED
    BY <2>2, <2>3
<1>5. ASSUME NEW c \in Calls, CloseRooms(c) PROVE Allocated'
  <2>1. PICK st : st = call[c].stream
    OBVIOUS
  <2> DEFINE rows == [n \in RoomNumbers(st) |-> [isActive |-> FALSE, currentCount |-> 0]]
  <2>2. st \in Streams
    BY <1>5, <2>1 DEF Typed, CallsOK, CallsAddressed, HostPCs, CloseRooms, At
  <2>3. rooms'[st] = rows /\ \A t \in Streams \ {st} : rooms'[t] = rooms[t]
    BY <1>5, <2>1, <2>2 DEF CloseRooms, SetRooms, Typed, RoomsOK
  <2>4. \A t \in Streams : RoomNumbers(t)' = RoomNumbers(t)
    BY <2>3 DEF RoomNumbers
  <2>5. /\ ActiveRooms(st)' = {}
        /\ \A t \in Streams \ {st} : ActiveRooms(t)' = ActiveRooms(t)
    BY <2>3 DEF ActiveRooms, RoomNumbers
  <2>6. Cardinality({}) = 0
    BY FS_EmptySet
  <2>7. \A d \in Calls : call'[d].pc \in Allocating => call'[d] = call[d] /\ call[d].stream \in Streams
    BY <1>5 DEF CloseRooms, Return, Idle, Typed, CallsOK, CallsAddressed, Allocating, JoinPCs
  <2>8. RoomsNumberedInOrder'
    BY <2>4 DEF Allocated, RoomsNumberedInOrder
  <2>9. RoomsBounded'
    BY <2>5, <2>6 DEF Allocated, RoomsBounded
  <2>10. LastRoomExists'
    BY <2>4, <2>7 DEF Allocated, LastRoomExists, Allocating
  <2>11. CountStillValid'
    BY <2>4, <2>5, <2>6, <2>7 DEF Allocated, CountStillValid, Allocating, At, NextRoomNumber
  <2> QED
    BY <2>8, <2>9, <2>10, <2>11 DEF Allocated
<1> QED
  BY <1>1, <1>2, <1>3, <1>4, <1>5, StepQuiet, RequestQuiet, LossQuiet, QuietKeeps DEF Next, Step

LEMMA InitAllocated == Init => Typed /\ Allocated
<1> SUFFICES ASSUME Init PROVE Typed /\ Allocated
  OBVIOUS
<1>1. Typed
  BY InitTypeOK, TypeParts DEF Typed
<1>2. ASSUME NEW st \in Streams
      PROVE  /\ RoomNumbers(st) = 1 .. Cardinality(RoomNumbers(st))
             /\ Cardinality(ActiveRooms(st)) <= MaxRooms
  <2>1. PICK n \in {0, 1} : RoomNumbers(st) = 1 .. n /\ ActiveRooms(st) = 1 .. n
    BY InitRooms
  <2>2. Cardinality(1 .. n) = n
    <3>1. n \in Int /\ 1 \in Int /\ n >= 0
      OBVIOUS
    <3>2. Cardinality(1 .. n) = IF 1 > n THEN 0 ELSE n - 1 + 1
      BY <3>1, FS_Interval
    <3> QED
      BY <3>2
  <2> QED
    BY <2>1, <2>2
<1>3. RoomsNumberedInOrder /\ RoomsBounded
  BY <1>2 DEF RoomsNumberedInOrder, RoomsBounded
<1>4. LastRoomExists /\ CountStillValid
  BY DEF Init, LastRoomExists, CountStillValid, At, Idle
<1> QED
  BY <1>1, <1>3, <1>4 DEF Allocated

(* The inductive invariant: a join whose new number is still free has      *)
(* counted the rooms after the last one was opened.                        *)
THEOREM AllocationInvariant == Spec => []AllocationInv
<1>1. Typed /\ Allocated /\ [Next]_vars => (Typed /\ Allocated)'
  BY NextTyped, NextAllocated
<1>2. Typed /\ Allocated => AllocationInv
  BY AllocationParts
<1> QED
  BY <1>1, <1>2, InitAllocated, PTL DEF Spec

(* A stream never has more than MAX_ROOMS active rooms, however many joins *)
(* overlap and wherever the server stops.                                  *)
THEOREM RoomsBoundedCorrect == Spec => []RoomsBounded
<1>1. AllocationInv => RoomsBounded
  BY DEF AllocationInv
<1> QED
  BY <1>1, AllocationInvariant, PTL

(* The rooms of a stream are numbered without a gap.                       *)
THEOREM RoomsNumberedCorrect == Spec => []RoomsNumberedInOrder
<1>1. AllocationInv => RoomsNumberedInOrder
  BY DEF AllocationInv
<1> QED
  BY <1>1, AllocationInvariant, PTL

(* No step lowers the stored peak, whatever stale count a join writes.     *)
THEOREM PeakNeverFallsCorrect == Spec => PeakNeverFalls
<1>1. Typed /\ [Next]_vars => [\A st \in Streams : peak'[st] >= peak[st]]_vars
  <2> SUFFICES ASSUME Typed, Next, NEW st \in Streams PROVE peak'[st] >= peak[st]
    OBVIOUS
  <2>1. peak[st] \in Nat
    BY DEF Typed, DatabaseOK
  <2>2. ASSUME NEW c \in Calls, JoinWritePeak(c) PROVE peak'[st] >= peak[st]
    <3>1. call[c].seen \in Nat /\ peak \in [Streams -> Nat]
      BY DEF Typed, CallsOK, Call, DatabaseOK
    <3>2. CASE call[c].stream = st
      BY <2>1, <2>2, <3>1, <3>2 DEF JoinWritePeak
    <3>3. CASE call[c].stream # st
      BY <2>1, <2>2, <3>1, <3>3 DEF JoinWritePeak
    <3> QED
      BY <3>2, <3>3
  <2>3. ASSUME UNCHANGED peak PROVE peak'[st] >= peak[st]
    BY <2>1, <2>3
  <2>4. ASSUME NEW c \in Calls, Step(c), ~JoinWritePeak(c) PROVE UNCHANGED peak
    BY <2>4 DEF Step, dbVars, JoinFindListener, JoinFindRoom, JoinLastRoom, JoinCountRooms,
                JoinCreateRoom, JoinUpsert, JoinIncrement, JoinCountViewers, JoinAddTotal, JoinAck,
                LeaveFind, LeaveMark, LeaveDecrement, WritePaused, WriteLive, WriteEnded, SetStatus,
                CloseFind, CloseListener, CloseRooms
  <2>5. ASSUME NEW c \in Calls, Request(c) PROVE UNCHANGED peak
    BY <2>5 DEF Request, JoinStream, LeaveStream, PauseStream, ResumeStream, EndStream, HostOp, dbVars
  <2>6. ASSUME NEW s \in Sessions, Disconnect(s) PROVE UNCHANGED peak
    BY <2>6 DEF Disconnect, dbVars
  <2>7. CASE ServerRestart
    BY <2>3, <2>7 DEF ServerRestart, dbVars
  <2> QED
    BY <2>2, <2>3, <2>4, <2>5, <2>6, <2>7 DEF Next
<1>2. Init => Typed
  BY InitAllocated
<1> QED
  BY <1>1, <1>2, NextTyped, PTL DEF Spec, PeakNeverFalls

-----------------------------------------------------------------------------
(* LiveRooms implements RoomAllocation.                                    *)

(* RoomAllocation counts as LiveRooms does. *)
LEMMA SameCardinality ==
  ASSUME NEW S
  PROVE  Allocation!Cardinality(S) = Cardinality(S)
  BY DEF Allocation!Cardinality, Cardinality

LEMMA InitRefines == Init => Allocation!Init
<1> SUFFICES ASSUME Init PROVE Allocation!Init
  OBVIOUS
<1>1. ASSUME NEW st \in Streams
      PROVE  /\ Cardinality(RoomNumbers(st)) \in {0, 1}
             /\ ActiveRooms(st) = 1 .. Cardinality(RoomNumbers(st))
  <2>1. PICK n \in {0, 1} : RoomNumbers(st) = 1 .. n /\ ActiveRooms(st) = 1 .. n
    BY InitRooms
  <2>2. RoomsNumberedInOrder
    BY InitAllocated DEF Allocated
  <2>3. Cardinality(1 .. n) = n
    <3>1. n \in Int /\ 1 \in Int /\ n >= 0
      OBVIOUS
    <3>2. Cardinality(1 .. n) = IF 1 > n THEN 0 ELSE n - 1 + 1
      BY <3>1, FS_Interval
    <3> QED
      BY <3>2
  <2> QED
    BY <2>1, <2>3
<1> QED
  BY <1>1 DEF Allocation!Init

LEMMA QuietStutters ==
  ASSUME Quiet
  PROVE  UNCHANGED Allocation!vars
  BY DEF Quiet, Allocation!vars

(* Every step allocates one room, closes all rooms of a stream, or leaves  *)
(* the abstract state alone.                                               *)
LEMMA NextRefines ==
  ASSUME Typed, Allocated, [Next]_vars
  PROVE  [Allocation!Next]_(Allocation!vars)
<1>1. CASE UNCHANGED vars
  BY <1>1, QuietUnchanged, QuietStutters DEF vars
<1>2. ASSUME NEW c \in Calls, JoinLastRoom(c) \/ JoinCountRooms(c)
      PROVE  UNCHANGED Allocation!vars
  BY <1>2 DEF JoinLastRoom, JoinCountRooms, dbVars, Allocation!vars, RoomNumbers, ActiveRooms
<1>3. ASSUME NEW c \in Calls, JoinCreateRoom(c)
      PROVE  [Allocation!Next]_(Allocation!vars)
  <2>1. PICK st, new : st = call[c].stream /\ new = NextRoomNumber(c)
    OBVIOUS
  <2>2. CASE new \in RoomNumbers(st)
    <3>1. UNCHANGED rooms
      BY <1>3, <2>1, <2>2 DEF JoinCreateRoom
    <3> QED
      BY <3>1 DEF Allocation!vars, RoomNumbers, ActiveRooms
  <2>3. CASE new \notin RoomNumbers(st)
    <3>1. /\ st \in Streams
          /\ new \in Nat \ {0}
          /\ Cardinality(RoomNumbers(st)) = new - 1
          /\ Cardinality(ActiveRooms(st)) < MaxRooms
          /\ Cardinality(RoomNumbers(st))' = new
          /\ ActiveRooms(st)' = ActiveRooms(st) \cup {new}
          /\ \A t \in Streams \ {st} : rooms'[t] = rooms[t]
      BY <1>3, <2>1, <2>3, CreateRoomOpensNext
    <3>2. \A t \in Streams \ {st} : RoomNumbers(t)' = RoomNumbers(t) /\ ActiveRooms(t)' = ActiveRooms(t)
      BY <3>1 DEF RoomNumbers, ActiveRooms
    <3>3. \A t \in Streams \ {st} : Cardinality(RoomNumbers(t))' = Cardinality(RoomNumbers(t))
      BY <3>2
    <3>4. new = Cardinality(RoomNumbers(st)) + 1
      BY <3>1
    <3>5. Allocation!OpenRoom(st)
      BY <3>1, <3>2, <3>3, <3>4, SameCardinality DEF Allocation!OpenRoom
    <3> QED
      BY <3>1, <3>5 DEF Allocation!Next
  <2> QED
    BY <2>2, <2>3
<1>4. ASSUME NEW c \in Calls, CloseRooms(c)
      PROVE  [Allocation!Next]_(Allocation!vars)
  <2>1. PICK st : st = call[c].stream
    OBVIOUS
  <2> DEFINE rows == [n \in RoomNumbers(st) |-> [isActive |-> FALSE, currentCount |-> 0]]
  <2>2. st \in Streams
    BY <1>4, <2>1 DEF Typed, CallsOK, CallsAddressed, HostPCs, CloseRooms, At
  <2>3. rooms'[st] = rows /\ \A t \in Streams \ {st} : rooms'[t] = rooms[t]
    BY <1>4, <2>1, <2>2 DEF CloseRooms, SetRooms, Typed, RoomsOK
  <2>4. \A t \in Streams : RoomNumbers(t)' = RoomNumbers(t)
    BY <2>3 DEF RoomNumbers
  <2>5. /\ ActiveRooms(st)' = {}
        /\ \A t \in Streams \ {st} : ActiveRooms(t)' = ActiveRooms(t)
    BY <2>3 DEF ActiveRooms, RoomNumbers
  <2>6. Allocation!CloseRooms(st)
    BY <2>2, <2>4, <2>5 DEF Allocation!CloseRooms
  <2> QED
    BY <2>2, <2>6 DEF Allocation!Next
<1> QED
  BY <1>1, <1>2, <1>3, <1>4, StepQuiet, RequestQuiet, LossQuiet, QuietStutters DEF Next, Step

(* The concurrent, unlocked allocation of joinRoom is the atomic one.      *)
THEOREM AllocationRefined == Spec => AllocationSpec
<1>1. Typed /\ Allocated /\ [Next]_vars => (Typed /\ Allocated)'
  BY NextTyped, NextAllocated
<1>2. Typed /\ Allocated /\ [Next]_vars => [Allocation!Next]_(Allocation!vars)
  BY NextRefines
<1> QED
  BY <1>1, <1>2, InitAllocated, InitRefines, PTL DEF Spec, AllocationSpec, Allocation!Spec

-----------------------------------------------------------------------------
(* How far a room can exceed its capacity.                                 *)

Coming == {"upsert", "increment"}

(* No call but c chooses a room in this step. *)
NoEntryBut(S) ==
  \A d \in Calls \ S : call'[d].pc \in Coming =>
    call[d].pc \in Coming /\ call'[d].stream = call[d].stream /\ call'[d].room = call[d].room

LEMMA EnteringFinite ==
  ASSUME NEW st, NEW r
  PROVE  /\ IsFiniteSet(Entering(st, r))
         /\ Cardinality(Entering(st, r)) \in Nat
         /\ Cardinality(Calls) \in Nat
         /\ Cardinality(Entering(st, r)) <= Cardinality(Calls)
<1>1. Entering(st, r) \subseteq Calls /\ IsFiniteSet(Calls)
  BY DEF Entering
<1> QED
  BY <1>1, FS_Subset, FS_CardinalityType

(* A step keeps the bound if no room gains both a listener and a join that *)
(* is on its way, unless the room has a free place.                        *)
LEMMA CountKept ==
  ASSUME Typed, Typed', CountBounded,
         \A st \in Streams : \A r \in RoomNumbers(st)' :
           \/ rooms'[st][r].currentCount < Capacity
           \/ /\ r \in RoomNumbers(st)
              /\ rooms'[st][r].currentCount <= rooms[st][r].currentCount
              /\ Entering(st, r)' \subseteq Entering(st, r)
  PROVE  CountBounded'
<1> SUFFICES ASSUME NEW st \in Streams, NEW r \in RoomNumbers(st)'
             PROVE  rooms'[st][r].currentCount + Cardinality(Entering(st, r)')
                      < Capacity + Cardinality(Calls)
  BY DEF CountBounded
<1>1. rooms'[st][r].currentCount \in Int
  BY DEF Typed, RoomsOK, Room
<1>2. /\ Entering(st, r)' \subseteq Calls
      /\ Cardinality(Entering(st, r)') \in Nat
      /\ Cardinality(Calls) \in Nat
      /\ Cardinality(Entering(st, r)') <= Cardinality(Calls)
  <2>1. Entering(st, r)' \subseteq Calls /\ IsFiniteSet(Calls)
    BY DEF Entering
  <2> QED
    BY <2>1, FS_Subset, FS_CardinalityType
<1>3. CASE rooms'[st][r].currentCount < Capacity
  BY <1>1, <1>2, <1>3
<1>4. CASE /\ r \in RoomNumbers(st)
           /\ rooms'[st][r].currentCount <= rooms[st][r].currentCount
           /\ Entering(st, r)' \subseteq Entering(st, r)
  <2>1. rooms[st][r].currentCount \in Int
    BY <1>4 DEF Typed, RoomsOK, Room
  <2>2. Cardinality(Entering(st, r)') <= Cardinality(Entering(st, r))
    BY <1>4, EnteringFinite, FS_Subset
  <2>3. rooms[st][r].currentCount + Cardinality(Entering(st, r)) < Capacity + Cardinality(Calls)
    BY <1>4 DEF CountBounded
  <2> QED
    BY <1>1, <1>2, <1>4, <2>1, <2>2, <2>3, EnteringFinite
<1> QED
  BY <1>3, <1>4

LEMMA RoomsUntouched ==
  ASSUME Typed, Typed', CountBounded, UNCHANGED rooms, NoEntryBut({})
  PROVE  CountBounded'
<1>1. ASSUME NEW st \in Streams, NEW r \in RoomNumbers(st)'
      PROVE  /\ r \in RoomNumbers(st)
             /\ rooms'[st][r].currentCount <= rooms[st][r].currentCount
             /\ Entering(st, r)' \subseteq Entering(st, r)
  <2>1. r \in RoomNumbers(st)
    BY DEF RoomNumbers
  <2>2. rooms[st][r].currentCount \in Int
    BY <2>1 DEF Typed, RoomsOK, Room
  <2>3. Entering(st, r)' \subseteq Entering(st, r)
    BY DEF Entering, NoEntryBut, Coming
  <2> QED
    BY <2>1, <2>2, <2>3
<1> QED
  BY <1>1, CountKept

(* How a call moves without choosing a room. *)
LEMMA CallEnters ==
  ASSUME Typed, NEW c \in Calls,
         \/ Return(c)
         \/ \E pc \in PCs \ Coming : Goto(c, pc)
         \/ call[c].pc = "upsert" /\ Goto(c, "increment")
         \/ \E pc \in PCs \ Coming : \E s, st : Start(c, pc, s, st)
         \/ \E k : k.pc \notin Coming /\ call' = [call EXCEPT ![c] = k]
  PROVE  NoEntryBut({})
<1> SUFFICES ASSUME NEW d \in Calls, call'[d].pc \in Coming
             PROVE  /\ call[d].pc \in Coming
                    /\ call'[d].stream = call[d].stream /\ call'[d].room = call[d].room
  BY DEF NoEntryBut
<1>0. call \in [Calls -> Call]
  BY DEF Typed, CallsOK
<1>1. d # c \/ (call[c].pc = "upsert" /\ Goto(c, "increment"))
  <2>1. CASE Return(c)
    BY <1>0, <2>1 DEF Return, Idle, Coming
  <2>2. ASSUME NEW pc \in PCs \ Coming, Goto(c, pc) PROVE d # c
    BY <1>0, <2>2 DEF Goto, Call, Coming
  <2>3. ASSUME NEW pc \in PCs \ Coming, NEW s, NEW st, Start(c, pc, s, st) PROVE d # c
    BY <1>0, <2>3 DEF Start, Idle, Coming
  <2>4. ASSUME NEW k, k.pc \notin Coming, call' = [call EXCEPT ![c] = k] PROVE d # c
    BY <1>0, <2>4
  <2> QED
    BY <2>1, <2>2, <2>3, <2>4
<1>2. CASE d # c
  <2>1. call'[d] = call[d]
    BY <1>0, <1>2 DEF Return, Goto, Start
  <2> QED
    BY <2>1
<1>3. CASE call[c].pc = "upsert" /\ Goto(c, "increment")
  BY <1>0, <1>3 DEF Goto, Call, Coming
<1> QED
  BY <1>1, <1>2, <1>3

(* Only JoinFindRoom and JoinCreateRoom choose a room. *)
LEMMA StepEnters ==
  ASSUME Typed, NEW c \in Calls, Step(c), ~JoinFindRoom(c), ~JoinCreateRoom(c)
  PROVE  NoEntryBut({})
<1> USE DEF PCs, JoinPCs, LeavePCs, HostPCs, Coming
<1>0. call \in [Calls -> Call] /\ call[c] \in Call
  BY DEF Typed, CallsOK
<1>1. CASE \/ JoinFindListener(c) \/ JoinCountRooms(c) \/ JoinIncrement(c) \/ JoinAddTotal(c)
           \/ JoinAck(c) \/ JoinUpsert(c)
  BY <1>1, CallEnters
  DEF JoinFindListener, JoinCountRooms, JoinIncrement, JoinAddTotal, JoinAck, JoinUpsert, At
<1>2. CASE \/ LeaveMark(c) \/ LeaveDecrement(c) \/ WritePaused(c) \/ WriteLive(c)
           \/ WriteEnded(c) \/ CloseRooms(c)
  BY <1>2, CallEnters
  DEF LeaveMark, LeaveDecrement, WritePaused, WriteLive, WriteEnded, CloseRooms
<1>3. CASE JoinLastRoom(c)
  <2>1. PICK r : call' = [call EXCEPT ![c].pc = "count_rooms", ![c].room = r]
    BY <1>3 DEF JoinLastRoom
  <2> DEFINE k == [call[c] EXCEPT !.pc = "count_rooms", !.room = r]
  <2>2. k.pc \notin Coming /\ call' = [call EXCEPT ![c] = k]
    BY <1>0, <2>1 DEF Call
  <2> QED
    BY <2>2, CallEnters
<1>4. CASE JoinCountViewers(c)
  <2> DEFINE k == [call[c] EXCEPT !.pc = "write_peak", !.seen = Cardinality(Viewers(call[c].stream))]
  <2>1. k.pc \notin Coming /\ call' = [call EXCEPT ![c] = k]
    BY <1>0, <1>4 DEF JoinCountViewers, Call
  <2> QED
    BY <2>1, CallEnters
<1>5. CASE JoinWritePeak(c)
  <2> DEFINE k == [call[c] EXCEPT !.pc = "add_total", !.seen = 0]
  <2>1. k.pc \notin Coming /\ call' = [call EXCEPT ![c] = k]
    BY <1>0, <1>5 DEF JoinWritePeak, Call
  <2> QED
    BY <2>1, CallEnters
<1>6. CASE LeaveFind(c)
  <2> DEFINE s == call[c].session
             k == [call[c] EXCEPT !.pc = "leave_mark", !.stream = listeners[s].stream,
                                  !.room = listeners[s].room]
  <2>1. CASE Present(s)
    <3>1. k.pc \notin Coming /\ call' = [call EXCEPT ![c] = k]
      BY <1>0, <1>6, <2>1 DEF LeaveFind, Call
    <3> QED
      BY <3>1, CallEnters
  <2>2. CASE ~Present(s)
    BY <1>6, <2>2, CallEnters DEF LeaveFind
  <2> QED
    BY <2>1, <2>2
<1>7. CASE CloseFind(c)
  <2> DEFINE k == [call[c] EXCEPT !.pc = "close_rooms", !.todo = Viewers(call[c].stream)]
  <2>1. k.pc \notin Coming /\ call' = [call EXCEPT ![c] = k]
    BY <1>0, <1>7 DEF CloseFind, Call
  <2> QED
    BY <2>1, CallEnters
<1>8. ASSUME NEW s \in Sessions, CloseListener(c, s) PROVE NoEntryBut({})
  <2> DEFINE k == [call[c] EXCEPT !.todo = @ \ {s}]
  <2>1. k.pc \notin Coming /\ call' = [call EXCEPT ![c] = k]
    BY <1>0, <1>8 DEF CloseListener, At, Call
  <2> QED
    BY <2>1, CallEnters
<1> QED
  BY <1>1, <1>2, <1>3, <1>4, <1>5, <1>6, <1>7, <1>8 DEF Step

LEMMA RequestEnters ==
  ASSUME Typed, \/ \E c \in Calls : Request(c)
                \/ ServerRestart
                \/ \E s \in Sessions : Disconnect(s)
  PROVE  NoEntryBut({}) /\ UNCHANGED rooms
<1> USE DEF PCs, JoinPCs, LeavePCs, HostPCs, Coming
<1>1. ASSUME NEW c \in Calls, Request(c) PROVE NoEntryBut({}) /\ UNCHANGED rooms
  <2>1. ASSUME NEW s \in Sessions, NEW st \in Streams, JoinStream(c, s, st)
        PROVE  NoEntryBut({}) /\ UNCHANGED rooms
    BY <2>1, CallEnters DEF JoinStream, dbVars
  <2>2. ASSUME NEW s \in Sessions, LeaveStream(c, s) PROVE NoEntryBut({}) /\ UNCHANGED rooms
    BY <2>2, CallEnters DEF LeaveStream, dbVars
  <2>3. ASSUME NEW st \in Streams, NEW pc \in {"pause", "resume", "end"}, NEW from, HostOp(c, st, pc, from)
        PROVE  NoEntryBut({}) /\ UNCHANGED rooms
    BY <2>3, CallEnters DEF HostOp, dbVars
  <2> QED
    BY <1>1, <2>1, <2>2, <2>3 DEF Request, PauseStream, ResumeStream, EndStream
<1>2. CASE ServerRestart
  BY <1>2 DEF ServerRestart, NoEntryBut, Idle, dbVars
<1>3. ASSUME NEW s \in Sessions, Disconnect(s) PROVE NoEntryBut({}) /\ UNCHANGED rooms
  <2>1. CASE UNCHANGED call
    BY <1>3, <2>1 DEF Disconnect, NoEntryBut, dbVars
  <2>2. ASSUME NEW c \in Calls, Start(c, "leave_find", s, None) PROVE NoEntryBut({}) /\ UNCHANGED rooms
    BY <1>3, <2>2, CallEnters DEF Disconnect, dbVars
  <2> QED
    BY <1>3, <2>1, <2>2 DEF Disconnect
<1> QED
  BY <1>1, <1>2, <1>3

LEMMA NextCount ==
  ASSUME Typed, Allocated, Typed', CountBounded, [Next]_vars
  PROVE  CountBounded'
<1>0. call \in [Calls -> Call]
  BY DEF Typed, CallsOK
<1>1. CASE UNCHANGED vars
  BY <1>1, RoomsUntouched DEF vars, NoEntryBut
<1>2. CASE \/ \E c \in Calls : Request(c)
           \/ ServerRestart
           \/ \E s \in Sessions : Disconnect(s)
  BY <1>2, RequestEnters, RoomsUntouched
<1>3. ASSUME NEW c \in Calls, JoinFindRoom(c) PROVE CountBounded'
  <2>1. CASE Goto(c, "last_room")
    BY <1>3, <2>1, CallEnters, RoomsUntouched DEF JoinFindRoom, dbVars, PCs, JoinPCs, Coming
  <2>2. ASSUME NEW r \in FreeRooms(call[c].stream),
               call' = [call EXCEPT ![c].pc = "upsert", ![c].room = r]
        PROVE  CountBounded'
    <3>1. UNCHANGED rooms
      BY <1>3 DEF JoinFindRoom, dbVars
    <3>2. /\ \A d \in Calls \ {c} : call'[d] = call[d]
          /\ call'[c].stream = call[c].stream /\ call'[c].room = r
      BY <1>0, <2>2 DEF Call
    <3>3. ASSUME NEW st \in Streams, NEW q \in RoomNumbers(st)'
          PROVE  \/ rooms'[st][q].currentCount < Capacity
                 \/ /\ q \in RoomNumbers(st)
                    /\ rooms'[st][q].currentCount <= rooms[st][q].currentCount
                    /\ Entering(st, q)' \subseteq Entering(st, q)
      <4>1. q \in RoomNumbers(st) /\ rooms[st][q].currentCount \in Int
        BY <3>1 DEF RoomNumbers, Typed, RoomsOK, Room
      <4>2. CASE call[c].stream = st /\ q = r
        BY <2>2, <3>1, <4>2 DEF FreeRooms
      <4>3. CASE call[c].stream # st \/ q # r
        <5>1. Entering(st, q)' \subseteq Entering(st, q)
          BY <3>2, <4>3 DEF Entering
        <5> QED
          BY <3>1, <4>1, <5>1
      <4> QED
        BY <4>2, <4>3
    <3> QED
      BY <3>3, CountKept
  <2> QED
    BY <1>3, <2>1, <2>2 DEF JoinFindRoom
<1>4. ASSUME NEW c \in Calls, JoinCreateRoom(c) PROVE CountBounded'
  <2>1. PICK st, new : st = call[c].stream /\ new = NextRoomNumber(c)
    OBVIOUS
  <2>2. CASE new \in RoomNumbers(st)
    BY <1>4, <2>1, <2>2, CallEnters, RoomsUntouched DEF JoinCreateRoom
  <2>3. CASE new \notin RoomNumbers(st)
    <3> DEFINE rows == [n \in RoomNumbers(st) \cup {new} |->
                          IF n = new THEN [isActive |-> TRUE, currentCount |-> 0] ELSE rooms[st][n]]
    <3>1. st \in Streams
      BY <1>4, <2>1, <2>3, CreateRoomOpensNext
    <3>2. SetRooms(st, rows) /\ call' = [call EXCEPT ![c].pc = "upsert", ![c].room = new]
      BY <1>4, <2>1, <2>3 DEF JoinCreateRoom
    <3>3. rooms'[st] = rows /\ \A t \in Streams \ {st} : rooms'[t] = rooms[t]
      <4> HIDE DEF rows
      <4> QED
        BY <3>1, <3>2 DEF SetRooms, Typed, RoomsOK
    <3>4. /\ \A d \in Calls \ {c} : call'[d] = call[d]
          /\ call'[c].stream = st /\ call'[c].room = new
      BY <1>0, <2>1, <3>2 DEF Call
    <3>5. ASSUME NEW t \in Streams, NEW q \in RoomNumbers(t)'
          PROVE  \/ rooms'[t][q].currentCount < Capacity
                 \/ /\ q \in RoomNumbers(t)
                    /\ rooms'[t][q].currentCount <= rooms[t][q].currentCount
                    /\ Entering(t, q)' \subseteq Entering(t, q)
      <4>1. CASE t = st /\ q = new
        <5>1. rooms'[t][q].currentCount = 0
          BY <3>3, <4>1
        <5> QED
          BY <5>1
      <4>2. CASE ~(t = st /\ q = new)
        <5>1. q \in RoomNumbers(t) /\ rooms'[t][q] = rooms[t][q]
          BY <3>3, <4>2 DEF RoomNumbers
        <5>2. rooms[t][q].currentCount \in Int
          BY <5>1 DEF Typed, RoomsOK, Room
        <5>3. Entering(t, q)' \subseteq Entering(t, q)
          BY <3>4, <4>2 DEF Entering
        <5> QED
          BY <5>1, <5>2, <5>3
      <4> QED
        BY <4>1, <4>2
    <3> QED
      BY <3>5, CountKept
  <2> QED
    BY <2>2, <2>3
<1>5. ASSUME NEW c \in Calls, JoinIncrement(c) PROVE CountBounded'
  <2>1. PICK st, r : st = call[c].stream /\ r = call[c].room
    OBVIOUS
  <2>2. st \in Streams /\ call[c].pc = "increment"
    BY <1>5, <2>1 DEF Typed, CallsOK, CallsAddressed, JoinPCs, JoinIncrement, At
  <2>3. rooms' = [rooms EXCEPT ![st] = [rooms[st] EXCEPT ![r].currentCount = @ + 1]]
    BY <1>5, <2>1 DEF JoinIncrement, AddToRoom, SetRooms
  <2>4. \A t \in Streams : RoomNumbers(t)' = RoomNumbers(t)
    BY <1>5, <2>1, <2>2, AddToRoomUpdate DEF JoinIncrement, Typed
  <2>5. /\ \A d \in Calls \ {c} : call'[d] = call[d]
        /\ call'[c].pc = "count_viewers"
    BY <1>0, <1>5 DEF JoinIncrement, Goto, Call
  <2> SUFFICES ASSUME NEW t \in Streams, NEW q \in RoomNumbers(t)
               PROVE  rooms'[t][q].currentCount + Cardinality(Entering(t, q)')
                        < Capacity + Cardinality(Calls)
    BY <2>4 DEF CountBounded
  <2>6. /\ rooms[t][q] \in Room /\ rooms[t] \in [RoomNumbers(t) -> Room]
        /\ rooms[t][q].currentCount \in Int
        /\ DOMAIN rooms = Streams
    BY DEF Typed, RoomsOK, Room
  <2>7. rooms[t][q].currentCount + Cardinality(Entering(t, q)) < Capacity + Cardinality(Calls)
    BY DEF CountBounded
  <2>8. CASE t = st /\ q = r
    <3>1. rooms'[t][q].currentCount = rooms[t][q].currentCount + 1
      BY <2>3, <2>6, <2>8 DEF Room
    <3>2. c \in Entering(t, q) /\ Entering(t, q)' = Entering(t, q) \ {c}
      BY <2>1, <2>2, <2>5, <2>8 DEF Entering
    <3>3. Cardinality(Entering(t, q)') = Cardinality(Entering(t, q)) - 1
      BY <3>2, EnteringFinite, FS_RemoveElement
    <3> QED
      BY <2>6, <2>7, <3>1, <3>3, EnteringFinite
  <2>9. CASE ~(t = st /\ q = r)
    <3>1. rooms'[t][q] = rooms[t][q]
      BY <2>2, <2>3, <2>6, <2>9 DEF RoomNumbers
    <3>2. Entering(t, q)' = Entering(t, q)
      BY <2>1, <2>2, <2>5, <2>9 DEF Entering
    <3> QED
      BY <2>7, <3>1, <3>2
  <2> QED
    BY <2>8, <2>9
<1>6. ASSUME NEW c \in Calls, LeaveDecrement(c) PROVE CountBounded'
  <2>1. PICK st, r : st = call[c].stream /\ r = call[c].room
    OBVIOUS
  <2>2. st \in Streams
    BY <1>6, <2>1 DEF Typed, CallsOK, CallsAddressed, LeaveDecrement, At
  <2>3. rooms' = [rooms EXCEPT ![st] = [rooms[st] EXCEPT ![r].currentCount = @ + (-1)]]
    BY <1>6, <2>1 DEF LeaveDecrement, AddToRoom, SetRooms
  <2>4. \A t \in Streams : RoomNumbers(t)' = RoomNumbers(t)
    BY <1>6, <2>1, <2>2, AddToRoomUpdate DEF LeaveDecrement, Typed
  <2>5. NoEntryBut({})
    BY <1>6, CallEnters DEF LeaveDecrement
  <2>6. ASSUME NEW t \in Streams, NEW q \in RoomNumbers(t)'
        PROVE  /\ q \in RoomNumbers(t)
               /\ rooms'[t][q].currentCount <= rooms[t][q].currentCount
               /\ Entering(t, q)' \subseteq Entering(t, q)
    <3>1. q \in RoomNumbers(t)
      BY <2>4
    <3>2. /\ rooms[t][q] \in Room /\ rooms[t] \in [RoomNumbers(t) -> Room]
          /\ rooms[t][q].currentCount \in Int
          /\ DOMAIN rooms = Streams
      BY <3>1 DEF Typed, RoomsOK, Room
    <3>3. rooms'[t][q].currentCount <= rooms[t][q].currentCount
      <4>1. CASE t = st /\ q = r
        <5>1. rooms'[t] = [rooms[t] EXCEPT ![q].currentCount = @ + (-1)]
          BY <2>3, <3>2, <4>1
        <5>2. rooms'[t][q] = [rooms[t][q] EXCEPT !.currentCount = @ + (-1)]
          BY <3>1, <3>2, <5>1
        <5>3. rooms'[t][q].currentCount = rooms[t][q].currentCount + (-1)
          BY <3>2, <5>2 DEF Room
        <5> QED
          BY <3>2, <5>3
      <4>2. CASE ~(t = st /\ q = r)
        <5>1. rooms'[t][q] = rooms[t][q]
          BY <2>2, <2>3, <3>2, <4>2 DEF RoomNumbers
        <5> QED
          BY <3>2, <5>1
      <4> QED
        BY <4>1, <4>2
    <3>4. Entering(t, q)' \subseteq Entering(t, q)
      BY <2>5 DEF Entering, NoEntryBut, Coming
    <3> QED
      BY <3>1, <3>3, <3>4
  <2> QED
    BY <2>6, CountKept
<1>7. ASSUME NEW c \in Calls, CloseRooms(c) PROVE CountBounded'
  <2>1. PICK st : st = call[c].stream
    OBVIOUS
  <2> DEFINE rows == [n \in RoomNumbers(st) |-> [isActive |-> FALSE, currentCount |-> 0]]
  <2>2. st \in Streams
    BY <1>7, <2>1 DEF Typed, CallsOK, CallsAddressed, HostPCs, CloseRooms, At
  <2>3. rooms'[st] = rows /\ \A t \in Streams \ {st} : rooms'[t] = rooms[t]
    BY <1>7, <2>1, <2>2 DEF CloseRooms, SetRooms, Typed, RoomsOK
  <2>4. NoEntryBut({})
    BY <1>7, CallEnters DEF CloseRooms
  <2>5. ASSUME NEW t \in Streams, NEW q \in RoomNumbers(t)'
        PROVE  \/ rooms'[t][q].currentCount < Capacity
               \/ /\ q \in RoomNumbers(t)
                  /\ rooms'[t][q].currentCount <= rooms[t][q].currentCount
                  /\ Entering(t, q)' \subseteq Entering(t, q)
    <3>1. q \in RoomNumbers(t)
      BY <2>3 DEF RoomNumbers
    <3>2. CASE t = st
      <4>1. rooms'[t][q].currentCount = 0
        BY <2>3, <3>1, <3>2
      <4> QED
        BY <4>1
    <3>3. CASE t # st
      <4>1. rooms[t][q].currentCount \in Int
        BY <3>1 DEF Typed, RoomsOK, Room
      <4>2. Entering(t, q)' \subseteq Entering(t, q)
        BY <2>4 DEF Entering, NoEntryBut, Coming
      <4> QED
        BY <2>3, <3>1, <3>3, <4>1, <4>2
    <3> QED
      BY <3>2, <3>3
  <2> QED
    BY <2>5, CountKept
<1>8. ASSUME NEW c \in Calls, Step(c), ~JoinFindRoom(c), ~JoinCreateRoom(c),
             ~JoinIncrement(c), ~LeaveDecrement(c), ~CloseRooms(c)
      PROVE  CountBounded'
  <2>1. UNCHANGED rooms
    BY <1>8 DEF Step, dbVars, JoinFindListener, JoinLastRoom, JoinCountRooms, JoinUpsert,
                JoinCountViewers, JoinWritePeak, JoinAddTotal, JoinAck, LeaveFind, LeaveMark,
                WritePaused, WriteLive, WriteEnded, SetStatus, CloseFind, CloseListener
  <2> QED
    BY <1>8, <2>1, StepEnters, RoomsUntouched
<1> QED
  BY <1>1, <1>2, <1>3, <1>4, <1>5, <1>6, <1>7, <1>8 DEF Next

(* A room exceeds ROOM_CAPACITY by less than the number of calls that may  *)
(* be in flight at once.                                                   *)
THEOREM CountBoundedCorrect == Spec => []CountBounded
<1>1. Init => CountBounded
  <2> SUFFICES ASSUME Init, NEW st \in Streams, NEW r \in RoomNumbers(st)
               PROVE  rooms[st][r].currentCount + Cardinality(Entering(st, r))
                        < Capacity + Cardinality(Calls)
    BY DEF CountBounded
  <2>1. rooms[st][r].currentCount = 0
    BY InitRooms DEF RoomNumbers
  <2> QED
    BY <2>1, EnteringFinite
<1>2. /\ Typed /\ Allocated /\ CountBounded /\ [Next]_vars
      => (Typed /\ Allocated /\ CountBounded)'
  BY NextTyped, NextAllocated, NextCount
<1> QED
  BY <1>1, <1>2, InitAllocated, PTL DEF Spec

-----------------------------------------------------------------------------
(* The joins of one socket in sequence.  Several properties need that a    *)
(* socket sends no join while its join is in flight, and likewise for      *)
(* leave-stream; a join, a leave-stream and the disconnect may overlap.    *)
InSequence == MaxCallsPerSession = 1

Searching == {"find_room", "last_room", "count_rooms", "create_room", "upsert"}
Counting == {"increment", "count_viewers", "write_peak", "add_total"}
Leaving == {"leave_mark", "decrement"}

(* What a call k knows about the listeners ls and rooms rs: a join has a   *)
(* new session until it inserts the listener; later, and during a leave,   *)
(* the listener is where the call takes it to be.                          *)
Sound(k, ls, rs) ==
  /\ k.pc \in {"idle"} \cup HostPCs => k.session = None
  /\ k.pc \in Searching => k.session \notin DOMAIN ls
  /\ k.pc = "upsert" => k.room \in DOMAIN rs[k.stream]
  /\ k.pc \in Counting \cup Leaving => k.session \in DOMAIN ls /\ ls[k.session].stream = k.stream
  /\ k.pc \in {"increment"} \cup Leaving => ls[k.session].room = k.room
  /\ k.pc = "close_rooms" => \A s \in k.todo : s \in DOMAIN ls /\ ls[s].stream = k.stream

CallsSound == \A c \in Calls : Sound(call[c], listeners, rooms)

OneJoinEach ==
  \A c, d \in Calls :
    call[c].pc \in JoinPCs /\ call[d].pc \in JoinPCs /\ call[c].session = call[d].session => c = d

ListenersHoused == \A s \in DOMAIN listeners : listeners[s].room \in RoomNumbers(listeners[s].stream)

SequenceInv == OneJoinEach /\ ListenersHoused /\ CallsSound

(* Rooms and listeners stay, and a new listener is the one c inserts. *)
Grows(c) ==
  /\ \A st \in Streams : RoomNumbers(st) \subseteq RoomNumbers(st)'
  /\ \A s \in DOMAIN listeners :
       /\ s \in DOMAIN listeners'
       /\ listeners'[s].stream = listeners[s].stream /\ listeners'[s].room = listeners[s].room
  /\ \A s \in DOMAIN listeners' \ DOMAIN listeners :
       /\ call[c].pc \in JoinPCs /\ s = call[c].session
       /\ listeners'[s].stream \in Streams
       /\ listeners'[s].room \in DOMAIN rooms'[listeners'[s].stream]

(* A session that may send a join has none in flight. *)
LEMMA StartsAlone ==
  ASSUME InSequence, NEW s \in Sessions, MaySend(s, JoinPCs)
  PROVE  \A c \in Calls : call[c].pc \in JoinPCs => call[c].session # s
<1> DEFINE W == Working(s, JoinPCs)
<1>1. IsFiniteSet(W) /\ Cardinality(W) \in Nat
  BY FS_Subset, FS_CardinalityType DEF Working, InFlight
<1>2. Cardinality(W) = 0
  BY <1>1 DEF InSequence, MaySend
<1>3. W = {}
  BY <1>1, <1>2, FS_EmptySet
<1> QED
  BY <1>3 DEF Working, InFlight

(* A step of one call that rooms and listeners survive. *)
LEMMA SequenceKept ==
  ASSUME Typed, SequenceInv, NEW c \in Calls, Grows(c),
         \A d \in Calls \ {c} : call'[d] = call[d],
         call'[c].pc \in JoinPCs =>
           \/ call[c].pc \in JoinPCs /\ call'[c].session = call[c].session
           \/ \A d \in Calls : call[d].pc \in JoinPCs => call[d].session # call'[c].session,
         Sound(call'[c], listeners', rooms')
  PROVE  SequenceInv'
<1>1. OneJoinEach'
  BY DEF SequenceInv, OneJoinEach
<1>2. ListenersHoused'
  <2> SUFFICES ASSUME NEW s \in DOMAIN listeners'
               PROVE  listeners'[s].room \in DOMAIN rooms'[listeners'[s].stream]
    BY DEF ListenersHoused, RoomNumbers
  <2>1. CASE s \in DOMAIN listeners
    <3>1. listeners[s].stream \in Streams
      BY <2>1 DEF Typed, ListenersOK, Listener
    <3>2. listeners[s].room \in RoomNumbers(listeners[s].stream)
      BY <2>1 DEF SequenceInv, ListenersHoused
    <3> QED
      BY <2>1, <3>1, <3>2 DEF Grows, RoomNumbers
  <2>2. CASE s \notin DOMAIN listeners
    BY <2>2 DEF Grows
  <2> QED
    BY <2>1, <2>2
<1>3. ASSUME NEW d \in Calls \ {c} PROVE Sound(call'[d], listeners', rooms')
  <2> DEFINE k == call[d]
  <2>1. k \in Call /\ Sound(k, listeners, rooms) /\ call'[d] = k
    BY DEF Typed, CallsOK, SequenceInv, CallsSound
  <2>2. k.pc \in Searching => k.session \notin DOMAIN listeners'
    <3> SUFFICES ASSUME k.pc \in Searching PROVE k.session \notin DOMAIN listeners'
      OBVIOUS
    <3>1. k.session \in Sessions
      BY DEF Typed, CallsOK, CallsAddressed, Searching, JoinPCs
    <3>2. call[c].pc \in JoinPCs => k.session # call[c].session
      BY DEF SequenceInv, OneJoinEach, Searching, JoinPCs
    <3> QED
      BY <2>1, <3>2 DEF Sound, Grows
  <2>3. k.pc = "upsert" => k.room \in DOMAIN rooms'[k.stream]
    <3>1. k.pc = "upsert" => k.stream \in Streams
      BY DEF Typed, CallsOK, CallsAddressed, JoinPCs
    <3> QED
      BY <2>1, <3>1 DEF Sound, Grows, RoomNumbers
  <2>4. k.pc \in Counting \cup Leaving
          => k.session \in DOMAIN listeners' /\ listeners'[k.session].stream = k.stream
    BY <2>1 DEF Sound, Grows
  <2>5. k.pc \in {"increment"} \cup Leaving => listeners'[k.session].room = k.room
    BY <2>1 DEF Sound, Grows, Counting
  <2>6. k.pc = "close_rooms" => \A s \in k.todo : s \in DOMAIN listeners' /\ listeners'[s].stream = k.stream
    BY <2>1 DEF Sound, Grows
  <2> QED
    BY <2>1, <2>2, <2>3, <2>4, <2>5, <2>6 DEF Sound
<1>4. CallsSound'
  BY <1>3 DEF CallsSound
<1> QED
  BY <1>1, <1>2, <1>4 DEF SequenceInv

(* When neither rooms nor listeners change. *)
LEMMA SequenceCall ==
  ASSUME Typed, SequenceInv, NEW c \in Calls, UNCHANGED <<rooms, listeners>>,
         \A d \in Calls \ {c} : call'[d] = call[d],
         call'[c].pc \in JoinPCs =>
           \/ call[c].pc \in JoinPCs /\ call'[c].session = call[c].session
           \/ \A d \in Calls : call[d].pc \in JoinPCs => call[d].session # call'[c].session,
         Sound(call'[c], listeners, rooms)
  PROVE  SequenceInv'
  BY SequenceKept DEF Grows, RoomNumbers

LEMMA IdleSound == Idle.session = None /\ Idle.pc \notin JoinPCs /\ \A ls, rs : Sound(Idle, ls, rs)
  BY DEF Sound, Idle, Searching, Counting, Leaving, JoinPCs

(* The steps of a join.                                                    *)
LEMMA JoinInSequence ==
  ASSUME Typed, Typed', SequenceInv, NEW c \in Calls,
         \/ JoinFindListener(c) \/ JoinFindRoom(c) \/ JoinLastRoom(c) \/ JoinCountRooms(c)
         \/ JoinCreateRoom(c) \/ JoinUpsert(c) \/ JoinIncrement(c) \/ JoinCountViewers(c)
         \/ JoinWritePeak(c) \/ JoinAddTotal(c) \/ JoinAck(c)
  PROVE  SequenceInv'
<1> USE DEF Searching, Counting, Leaving, HostPCs, At
<1>0. /\ call \in [Calls -> Call] /\ call[c] \in Call
      /\ Sound(call[c], listeners, rooms)
      /\ call[c].pc \in JoinPCs => call[c].session \in Sessions /\ call[c].stream \in Streams
  BY DEF Typed, CallsOK, CallsAddressed, SequenceInv, CallsSound
<1>j. call[c].pc \in JoinPCs
  BY DEF JoinFindListener, JoinFindRoom, JoinLastRoom, JoinCountRooms, JoinCreateRoom, JoinUpsert,
         JoinIncrement, JoinCountViewers, JoinWritePeak, JoinAddTotal, JoinAck, JoinPCs
<1>1. CASE \/ JoinFindListener(c) \/ JoinFindRoom(c) \/ JoinLastRoom(c) \/ JoinCountRooms(c)
           \/ JoinCountViewers(c)
  <2>1. UNCHANGED <<rooms, listeners>> /\ \A d \in Calls \ {c} : call'[d] = call[d]
    BY <1>0, <1>1 DEF JoinFindListener, JoinFindRoom, JoinLastRoom, JoinCountRooms, JoinCountViewers,
                      Goto, Return, dbVars
  <2>2. CASE call' = [call EXCEPT ![c] = Idle]
    BY <1>0, <2>1, <2>2, IdleSound, SequenceCall
  <2>3. CASE call' # [call EXCEPT ![c] = Idle]
    <3>1. call'[c].session = call[c].session /\ call'[c].stream = call[c].stream
      BY <1>0, <1>1, <2>3 DEF JoinFindListener, JoinFindRoom, JoinLastRoom, JoinCountRooms,
                              JoinCountViewers, Goto, Return, Call
    <3>2. \/ /\ call'[c].pc \in Searching \ {"upsert"}
             /\ call[c].session \notin DOMAIN listeners
          \/ /\ call'[c].pc = "upsert" /\ call'[c].room \in DOMAIN rooms[call[c].stream]
             /\ call[c].session \notin DOMAIN listeners
          \/ call'[c].pc = "ack"
          \/ call'[c].pc = "write_peak" /\ call[c].pc = "count_viewers"
      <4>1. CASE JoinFindListener(c)
        BY <1>0, <4>1 DEF JoinFindListener, Goto, Call, Registered
      <4>2. CASE JoinFindRoom(c)
        <5>1. CASE Goto(c, "last_room")
          BY <1>0, <4>2, <5>1 DEF JoinFindRoom, Goto, Call, Sound
        <5>2. ASSUME NEW r \in FreeRooms(call[c].stream),
                     call' = [call EXCEPT ![c].pc = "upsert", ![c].room = r]
              PROVE  call'[c].pc = "upsert" /\ call'[c].room \in DOMAIN rooms[call[c].stream]
          BY <1>0, <5>2 DEF Call, FreeRooms, ActiveRooms, RoomNumbers
        <5>3. call[c].session \notin DOMAIN listeners
          BY <1>0, <4>2 DEF JoinFindRoom, Sound
        <5> QED
          BY <4>2, <5>1, <5>2, <5>3 DEF JoinFindRoom
      <4>3. CASE JoinLastRoom(c)
        <5>1. PICK r : call' = [call EXCEPT ![c].pc = "count_rooms", ![c].room = r]
          BY <4>3 DEF JoinLastRoom
        <5>2. call'[c].pc = "count_rooms"
          BY <1>0, <5>1 DEF Call
        <5> QED
          BY <1>0, <4>3, <5>2 DEF JoinLastRoom, Sound
      <4>4. CASE JoinCountRooms(c)
        BY <1>0, <2>3, <4>4 DEF JoinCountRooms, Goto, Return, Call, Sound
      <4>5. CASE JoinCountViewers(c)
        BY <1>0, <4>5 DEF JoinCountViewers, Call
      <4> QED
        BY <1>1, <4>1, <4>2, <4>3, <4>4, <4>5
    <3>3. Sound(call'[c], listeners, rooms)
      BY <1>0, <3>1, <3>2 DEF Sound
    <3> QED
      BY <1>j, <2>1, <3>1, <3>3, SequenceCall
  <2> QED
    BY <2>2, <2>3
<1>2. CASE JoinCreateRoom(c)
  <2> DEFINE st == call[c].stream
             new == NextRoomNumber(c)
  <2>1. CASE new \in RoomNumbers(st)
    BY <1>0, <1>2, <2>1, IdleSound, SequenceCall DEF JoinCreateRoom, Return
  <2>2. CASE new \notin RoomNumbers(st)
    <3>1. /\ \A d \in Calls \ {c} : call'[d] = call[d]
          /\ call'[c].pc = "upsert" /\ call'[c].room = new
          /\ call'[c].session = call[c].session /\ call'[c].stream = st
      BY <1>0, <1>2, <2>2 DEF JoinCreateRoom, Call
    <3>2. st \in Streams /\ call[c].session \notin DOMAIN listeners
      BY <1>0, <1>2 DEF JoinCreateRoom, Sound, JoinPCs
    <3>3. /\ DOMAIN rooms'[st] = RoomNumbers(st) \cup {new}
          /\ \A t \in Streams \ {st} : rooms'[t] = rooms[t]
      BY <1>2, <2>2, <3>2 DEF JoinCreateRoom, SetRooms, Typed, RoomsOK
    <3>4. listeners' = listeners
      BY <1>2 DEF JoinCreateRoom
    <3>5. Grows(c)
      BY <3>3, <3>4 DEF Grows, RoomNumbers
    <3>6. Sound(call'[c], listeners', rooms')
      BY <3>1, <3>2, <3>3, <3>4 DEF Sound
    <3> QED
      BY <1>j, <3>1, <3>5, <3>6, SequenceKept
  <2> QED
    BY <2>1, <2>2
<1>3. CASE JoinUpsert(c)
  <2> DEFINE s == call[c].session
             new == [stream |-> call[c].stream, room |-> call[c].room, left |-> FALSE]
  <2>1. /\ s \notin DOMAIN listeners /\ s \in Sessions /\ call[c].stream \in Streams
        /\ call[c].room \in DOMAIN rooms[call[c].stream]
    BY <1>0, <1>3 DEF JoinUpsert, Sound, JoinPCs
  <2>2. /\ listeners' = [l \in DOMAIN listeners \cup {s} |-> IF l = s THEN new ELSE listeners[l]]
        /\ rooms' = rooms
    BY <1>3, <2>1 DEF JoinUpsert, Registered
  <2>3. /\ \A d \in Calls \ {c} : call'[d] = call[d]
        /\ call'[c].pc = "increment" /\ call'[c].room = call[c].room
        /\ call'[c].session = s /\ call'[c].stream = call[c].stream
    BY <1>0, <1>3 DEF JoinUpsert, Goto, Call
  <2>4. /\ DOMAIN listeners' = DOMAIN listeners \cup {s}
        /\ listeners'[s] = new
        /\ \A l \in DOMAIN listeners : listeners'[l] = listeners[l]
    BY <2>1, <2>2
  <2>5. listeners'[s].stream = call[c].stream /\ listeners'[s].room = call[c].room
    BY <2>4
  <2>6. Grows(c)
    BY <1>j, <2>1, <2>2, <2>4, <2>5 DEF Grows, RoomNumbers
  <2>7. Sound(call'[c], listeners', rooms')
    BY <2>3, <2>4, <2>5 DEF Sound
  <2> QED
    BY <1>j, <2>3, <2>6, <2>7, SequenceKept
<1>4. CASE JoinIncrement(c) \/ JoinWritePeak(c) \/ JoinAddTotal(c) \/ JoinAck(c)
  <2>1. \A d \in Calls \ {c} : call'[d] = call[d]
    BY <1>0, <1>4 DEF JoinIncrement, JoinWritePeak, JoinAddTotal, JoinAck, Goto, Return
  <2>2. listeners' = listeners /\ \A st \in Streams : RoomNumbers(st)' = RoomNumbers(st)
    BY <1>0, <1>4, AddToRoomUpdate
    DEF JoinIncrement, JoinWritePeak, JoinAddTotal, JoinAck, dbVars, Typed, RoomNumbers, JoinPCs
  <2>3. Grows(c)
    BY <2>2 DEF Grows
  <2>4. CASE call'[c] = Idle
    BY <2>1, <2>3, <2>4, IdleSound, SequenceKept
  <2>5. CASE call'[c] # Idle
    <3>1. /\ call'[c].session = call[c].session /\ call'[c].stream = call[c].stream
          /\ call'[c].pc \in {"count_viewers", "add_total", "ack"}
          /\ call[c].pc \in Counting
      BY <1>0, <1>4, <2>5 DEF JoinIncrement, JoinWritePeak, JoinAddTotal, JoinAck, Goto, Return, Call
    <3>2. Sound(call'[c], listeners', rooms')
      BY <1>0, <2>2, <3>1 DEF Sound
    <3> QED
      BY <1>j, <2>1, <2>3, <3>1, <3>2, SequenceKept
  <2> QED
    BY <2>4, <2>5
<1> QED
  BY <1>1, <1>2, <1>3, <1>4

(* The steps of a leave and of the host's operations.                      *)
LEMMA LeaveInSequence ==
  ASSUME Typed, Typed', SequenceInv, NEW c \in Calls,
         \/ LeaveFind(c) \/ LeaveMark(c) \/ LeaveDecrement(c)
         \/ WritePaused(c) \/ WriteLive(c) \/ WriteEnded(c)
         \/ CloseFind(c) \/ (\E s \in Sessions : CloseListener(c, s)) \/ CloseRooms(c)
  PROVE  SequenceInv'
<1> USE DEF Searching, Counting, Leaving, HostPCs, At
<1>0. /\ call \in [Calls -> Call] /\ call[c] \in Call
      /\ Sound(call[c], listeners, rooms)
      /\ call[c].pc \in {"leave_mark", "decrement"} \cup HostPCs => call[c].stream \in Streams
  BY DEF Typed, CallsOK, CallsAddressed, SequenceInv, CallsSound
<1>1. CASE LeaveFind(c)
  <2> DEFINE s == call[c].session
  <2>1. UNCHANGED <<rooms, listeners>> /\ \A d \in Calls \ {c} : call'[d] = call[d]
    BY <1>0, <1>1 DEF LeaveFind, Return, dbVars
  <2>2. CASE Present(s)
    <3>1. /\ call'[c].session = s /\ call'[c].pc = "leave_mark"
          /\ call'[c].stream = listeners[s].stream /\ call'[c].room = listeners[s].room
      BY <1>0, <1>1, <2>2 DEF LeaveFind, Call
    <3>2. Sound(call'[c], listeners, rooms)
      BY <2>2, <3>1 DEF Sound, Present, Registered
    <3> QED
      BY <2>1, <3>1, <3>2, SequenceCall DEF JoinPCs
  <2>3. CASE ~Present(s)
    BY <1>0, <1>1, <2>1, <2>3, IdleSound, SequenceCall DEF LeaveFind, Return
  <2> QED
    BY <2>2, <2>3
<1>2. CASE LeaveMark(c) \/ \E s \in Sessions : CloseListener(c, s)
  <2>1. /\ \A d \in Calls \ {c} : call'[d] = call[d]
        /\ call'[c].session = call[c].session /\ call'[c].stream = call[c].stream
        /\ call'[c].room = call[c].room
        /\ \/ call[c].pc = "leave_mark" /\ call'[c].pc = "decrement"
           \/ call[c].pc = "close_rooms" /\ call'[c].pc = "close_rooms" /\ call'[c].todo \subseteq call[c].todo
        /\ rooms' = rooms
    <3>1. CASE LeaveMark(c)
      BY <1>0, <3>1 DEF LeaveMark, Goto, Call
    <3>2. ASSUME NEW s \in Sessions, CloseListener(c, s)
          PROVE  /\ \A d \in Calls \ {c} : call'[d] = call[d]
                 /\ call'[c] = [call[c] EXCEPT !.todo = @ \ {s}]
                 /\ call[c].pc = "close_rooms" /\ rooms' = rooms
      BY <1>0, <3>2 DEF CloseListener
    <3>3. CASE \E s \in Sessions : CloseListener(c, s)
      <4>1. PICK s \in Sessions : CloseListener(c, s)
        BY <3>3
      <4>2. call'[c] = [call[c] EXCEPT !.todo = @ \ {s}] /\ call[c].pc = "close_rooms"
        BY <3>2, <4>1
      <4>3. /\ call'[c].pc = "close_rooms" /\ call'[c].todo = call[c].todo \ {s}
            /\ call'[c].session = call[c].session /\ call'[c].stream = call[c].stream
            /\ call'[c].room = call[c].room
        BY <1>0, <4>2 DEF Call
      <4> QED
        BY <3>2, <4>1, <4>2, <4>3
    <3> QED
      BY <1>2, <3>1, <3>3
  <2>2. PICK s : listeners' = [listeners EXCEPT ![s].left = TRUE]
    BY <1>2 DEF LeaveMark, CloseListener, SetLeft
  <2>3. \A l \in DOMAIN listeners : listeners[l] \in Listener
    BY DEF Typed, ListenersOK
  <2>4. /\ DOMAIN listeners' = DOMAIN listeners
        /\ \A l \in DOMAIN listeners : /\ listeners'[l].stream = listeners[l].stream
                                       /\ listeners'[l].room = listeners[l].room
    BY <2>2, <2>3 DEF Listener
  <2>5. Grows(c)
    BY <2>1, <2>4 DEF Grows, RoomNumbers
  <2>6. Sound(call'[c], listeners', rooms')
    BY <1>0, <2>1, <2>4 DEF Sound
  <2> QED
    BY <2>1, <2>5, <2>6, SequenceKept DEF JoinPCs
<1>3. CASE LeaveDecrement(c) \/ CloseRooms(c)
  <2>1. (\A d \in Calls \ {c} : call'[d] = call[d]) /\ call'[c] = Idle
    BY <1>0, <1>3 DEF LeaveDecrement, CloseRooms, Return
  <2>2. listeners' = listeners /\ \A st \in Streams : RoomNumbers(st)' = RoomNumbers(st)
    <3>1. CASE LeaveDecrement(c)
      BY <1>0, <3>1, AddToRoomUpdate DEF LeaveDecrement, Typed
    <3>2. CASE CloseRooms(c)
      BY <1>0, <3>2 DEF CloseRooms, SetRooms, RoomNumbers, Typed, RoomsOK
    <3> QED
      BY <1>3, <3>1, <3>2
  <2>3. Grows(c)
    BY <2>2 DEF Grows
  <2> QED
    BY <2>1, <2>3, IdleSound, SequenceKept
<1>4. CASE WritePaused(c) \/ WriteLive(c) \/ WriteEnded(c)
  <2>1. /\ \A d \in Calls \ {c} : call'[d] = call[d]
        /\ UNCHANGED <<rooms, listeners>>
        /\ call'[c] = Idle \/ (call'[c].pc = "close_find" /\ call'[c].session = call[c].session)
        /\ call[c].pc \in HostPCs
    BY <1>0, <1>4 DEF WritePaused, WriteLive, WriteEnded, SetStatus, Return, Goto, Call
  <2>2. call'[c].session = None /\ Sound(call'[c], listeners, rooms)
    <3>1. CASE call'[c] = Idle
      BY <3>1, IdleSound
    <3>2. CASE call'[c].pc = "close_find" /\ call'[c].session = call[c].session
      <4>1. call[c].session = None
        BY <1>0, <2>1 DEF Sound
      <4> QED
        BY <3>2, <4>1 DEF Sound, HostPCs, Searching, Counting, Leaving
    <3> QED
      BY <2>1, <3>1, <3>2
  <2> QED
    BY <2>1, <2>2, IdleSound, SequenceCall DEF JoinPCs
<1>5. CASE CloseFind(c)
  <2>1. /\ \A d \in Calls \ {c} : call'[d] = call[d]
        /\ UNCHANGED <<rooms, listeners>>
        /\ call'[c].pc = "close_rooms" /\ call'[c].session = call[c].session
        /\ call'[c].stream = call[c].stream /\ call'[c].todo = Viewers(call[c].stream)
        /\ call[c].pc = "close_find"
    BY <1>0, <1>5 DEF CloseFind, dbVars, Call
  <2>2. Sound(call'[c], listeners, rooms)
    BY <1>0, <2>1 DEF Sound, Viewers
  <2> QED
    BY <2>1, <2>2, IdleSound, SequenceCall DEF JoinPCs
<1> QED
  BY <1>1, <1>2, <1>3, <1>4, <1>5

(* A join starts for a session that has none. *)
LEMMA StartInSequence ==
  ASSUME Typed, SequenceInv, InSequence, NEW c \in Calls, NEW pc, NEW s, NEW st, Start(c, pc, s, st),
         UNCHANGED <<rooms, listeners>>,
         \/ s \in Sessions /\ MaySend(s, JoinPCs) /\ pc = "find_listener"
         \/ s \in Sessions /\ pc = "leave_find"
         \/ s = None /\ pc \in {"pause", "resume", "end"}
  PROVE  SequenceInv'
<1>1. /\ \A d \in Calls \ {c} : call'[d] = call[d]
      /\ call'[c].pc = pc /\ call'[c].session = s
  BY DEF Start, Idle, Typed, CallsOK
<1>2. Sound(call'[c], listeners, rooms)
  BY <1>1 DEF Sound, Searching, Counting, Leaving, HostPCs
<1>3. pc = "find_listener" \/ pc \notin JoinPCs
  BY DEF JoinPCs
<1>4. pc = "find_listener" => \A d \in Calls : call[d].pc \in JoinPCs => call[d].session # s
  BY StartsAlone
<1> QED
  BY <1>1, <1>2, <1>3, <1>4, SequenceCall

LEMMA NextSequence ==
  ASSUME Typed, Typed', InSequence, SequenceInv, [Next]_vars
  PROVE  SequenceInv'
<1>1. CASE UNCHANGED vars
  BY <1>1 DEF vars, SequenceInv, OneJoinEach, ListenersHoused, CallsSound, RoomNumbers
<1>2. ASSUME NEW c \in Calls, Step(c) PROVE SequenceInv'
  BY <1>2, JoinInSequence, LeaveInSequence DEF Step
<1>3. ASSUME NEW c \in Calls, Request(c) PROVE SequenceInv'
  BY <1>3, StartInSequence
  DEF Request, JoinStream, LeaveStream, PauseStream, ResumeStream, EndStream, HostOp, dbVars
<1>4. ASSUME NEW s \in Sessions, Disconnect(s) PROVE SequenceInv'
  <2>1. CASE UNCHANGED call
    BY <1>4, <2>1 DEF Disconnect, dbVars, SequenceInv, OneJoinEach, ListenersHoused, CallsSound,
                      RoomNumbers
  <2>2. ASSUME NEW c \in Calls, Start(c, "leave_find", s, None) PROVE SequenceInv'
    BY <1>4, <2>2, StartInSequence DEF Disconnect, dbVars
  <2> QED
    BY <1>4, <2>1, <2>2 DEF Disconnect
<1>5. CASE ServerRestart
  <2>1. (\A c \in Calls : call'[c] = Idle) /\ UNCHANGED <<rooms, listeners>>
    BY <1>5 DEF ServerRestart, dbVars
  <2>2. OneJoinEach' /\ CallsSound'
    BY <2>1, IdleSound DEF OneJoinEach, CallsSound
  <2> QED
    BY <2>1, <2>2 DEF SequenceInv, ListenersHoused, RoomNumbers
<1> QED
  BY <1>1, <1>2, <1>3, <1>4, <1>5 DEF Next

LEMMA InitSequence == Init => SequenceInv
<1> SUFFICES ASSUME Init PROVE SequenceInv
  OBVIOUS
<1>1. \A c \in Calls : call[c] = Idle
  BY DEF Init
<1> QED
  BY <1>1, IdleSound DEF Init, SequenceInv, OneJoinEach, ListenersHoused, CallsSound, Idle

(* How the pc of a call moves through the steps that the counts watch. *)
Moves(c) ==
  LET k == call[c]  n == call'[c] IN
  /\ \A d \in Calls \ {c} : call'[d] = call[d]
  /\ n.pc = "increment" <=> k.pc = "upsert"
  /\ n.pc = "count_viewers" <=> k.pc = "increment"
  /\ n.pc = "write_peak" <=> k.pc = "count_viewers"
  /\ n.pc = "add_total" <=> k.pc = "write_peak"
  /\ n.pc = "decrement" <=> k.pc = "leave_mark"
  /\ n.pc \in Counting \cup {"decrement"} => n.stream = k.stream
  /\ n.pc \in {"increment", "decrement"} => n.room = k.room
  /\ n.pc \in Counting \cup {"ack", "leave_mark"} => n.session = k.session
  /\ k.pc = "add_total" => n.pc = "ack"
  /\ n.pc = "close_rooms" => k.pc \in {"close_find", "close_rooms"} /\ n.stream = k.stream
  /\ n.pc = "leave_mark" =>
       /\ UNCHANGED listeners /\ Present(n.session)
       /\ n.stream = listeners[n.session].stream /\ n.room = listeners[n.session].room

(* What a step of a call changes, by its pc. *)
Effects(c) ==
  LET pc == call[c].pc IN
  /\ IF pc = "write_peak" THEN JoinWritePeak(c) ELSE UNCHANGED peak
  /\ pc = "count_viewers" => JoinCountViewers(c)
  /\ pc = "leave_find" => LeaveFind(c)
  /\ IF pc = "add_total" THEN JoinAddTotal(c) ELSE UNCHANGED total
  /\ CASE pc = "create_room" -> JoinCreateRoom(c)
       [] pc = "increment" -> JoinIncrement(c)
       [] pc = "decrement" -> LeaveDecrement(c)
       [] pc = "upsert" -> JoinUpsert(c)
       [] pc = "leave_mark" -> LeaveMark(c)
       [] pc = "close_rooms" -> CloseRooms(c) \/ \E s \in Sessions : CloseListener(c, s)
       [] OTHER -> UNCHANGED <<rooms, listeners>>

LEMMA StepEffects ==
  ASSUME Typed, NEW c \in Calls, Step(c)
  PROVE  Moves(c) /\ Effects(c)
<1> USE DEF Counting, At, Moves, Effects
<1>0. call \in [Calls -> Call] /\ call[c] \in Call
  BY DEF Typed, CallsOK
<1>1. CASE JoinFindListener(c)
  BY <1>0, <1>1 DEF JoinFindListener, Goto, Call, dbVars
<1>2. CASE JoinFindRoom(c)
  <2>1. CASE Goto(c, "last_room")
    BY <1>0, <1>2, <2>1 DEF JoinFindRoom, Goto, Call, dbVars
  <2>2. ASSUME NEW r, call' = [call EXCEPT ![c].pc = "upsert", ![c].room = r]
        PROVE  Moves(c) /\ Effects(c)
    <3>1. call'[c].pc = "upsert" /\ \A d \in Calls \ {c} : call'[d] = call[d]
      BY <1>0, <2>2 DEF Call
    <3> QED
      BY <1>2, <3>1 DEF JoinFindRoom, dbVars
  <2> QED
    BY <1>2, <2>1, <2>2 DEF JoinFindRoom
<1>3. CASE JoinLastRoom(c)
  <2>1. PICK r : call' = [call EXCEPT ![c].pc = "count_rooms", ![c].room = r]
    BY <1>3 DEF JoinLastRoom
  <2>2. call'[c].pc = "count_rooms" /\ \A d \in Calls \ {c} : call'[d] = call[d]
    BY <1>0, <2>1 DEF Call
  <2> QED
    BY <1>3, <2>2 DEF JoinLastRoom, dbVars
<1>4. CASE JoinCountRooms(c)
  BY <1>0, <1>4 DEF JoinCountRooms, Goto, Return, Idle, Call, dbVars
<1>5. CASE JoinCreateRoom(c)
  <2>1. call'[c].pc \in {"idle", "upsert"} /\ \A d \in Calls \ {c} : call'[d] = call[d]
    BY <1>0, <1>5 DEF JoinCreateRoom, Return, Idle, Call
  <2> QED
    BY <1>5, <2>1 DEF JoinCreateRoom
<1>6. CASE JoinUpsert(c)
  BY <1>0, <1>6 DEF JoinUpsert, Goto, Call
<1>7. CASE JoinIncrement(c)
  BY <1>0, <1>7 DEF JoinIncrement, Goto, Call
<1>8. CASE JoinCountViewers(c)
  <2>1. /\ call'[c].pc = "write_peak" /\ call'[c].stream = call[c].stream
        /\ call'[c].session = call[c].session
        /\ \A d \in Calls \ {c} : call'[d] = call[d]
    BY <1>0, <1>8 DEF JoinCountViewers, Call
  <2> QED
    BY <1>8, <2>1 DEF JoinCountViewers, dbVars
<1>9. CASE JoinWritePeak(c)
  <2>1. /\ call'[c].pc = "add_total" /\ call'[c].stream = call[c].stream
        /\ call'[c].session = call[c].session
        /\ \A d \in Calls \ {c} : call'[d] = call[d]
    BY <1>0, <1>9 DEF JoinWritePeak, Call
  <2> QED
    BY <1>9, <2>1 DEF JoinWritePeak
<1>10. CASE JoinAddTotal(c)
  BY <1>0, <1>10 DEF JoinAddTotal, Goto, Call
<1>11. CASE JoinAck(c)
  BY <1>0, <1>11 DEF JoinAck, Return, Idle, dbVars
<1>12. CASE LeaveFind(c)
  <2> DEFINE s == call[c].session
  <2>1. CASE Present(s)
    <3>1. /\ call'[c].session = s /\ call'[c].pc = "leave_mark"
          /\ call'[c].stream = listeners[s].stream /\ call'[c].room = listeners[s].room
          /\ \A d \in Calls \ {c} : call'[d] = call[d]
      BY <1>0, <1>12, <2>1 DEF LeaveFind, Call
    <3> QED
      BY <1>12, <2>1, <3>1 DEF LeaveFind, dbVars
  <2>2. CASE ~Present(s)
    BY <1>0, <1>12, <2>2 DEF LeaveFind, Return, Idle, dbVars
  <2> QED
    BY <2>1, <2>2
<1>13. CASE LeaveMark(c)
  BY <1>0, <1>13 DEF LeaveMark, Goto, Call
<1>14. CASE LeaveDecrement(c)
  BY <1>0, <1>14 DEF LeaveDecrement, Return, Idle
<1>15. CASE WritePaused(c) \/ WriteLive(c) \/ WriteEnded(c)
  BY <1>0, <1>15 DEF WritePaused, WriteLive, WriteEnded, SetStatus, Return, Goto, Idle, Call
<1>16. CASE CloseFind(c)
  <2>1. /\ call'[c].pc = "close_rooms" /\ call'[c].stream = call[c].stream
        /\ \A d \in Calls \ {c} : call'[d] = call[d]
    BY <1>0, <1>16 DEF CloseFind, Call
  <2> QED
    BY <1>16, <2>1 DEF CloseFind, dbVars
<1>17. ASSUME NEW s \in Sessions, CloseListener(c, s) PROVE Moves(c) /\ Effects(c)
  <2>1. call' = [call EXCEPT ![c] = [call[c] EXCEPT !.todo = @ \ {s}]]
    BY <1>17 DEF CloseListener
  <2>2. /\ call'[c].pc = "close_rooms" /\ call'[c].stream = call[c].stream
        /\ \A d \in Calls \ {c} : call'[d] = call[d]
    BY <1>0, <1>17, <2>1 DEF CloseListener, Call
  <2> QED
    BY <1>17, <2>2 DEF CloseListener
<1>18. CASE CloseRooms(c)
  BY <1>0, <1>18 DEF CloseRooms, Return, Idle
<1> QED
  BY <1>1, <1>2, <1>3, <1>4, <1>5, <1>6, <1>7, <1>8, <1>9, <1>10, <1>11, <1>12, <1>13, <1>14, <1>15,
     <1>16, <1>17, <1>18 DEF Step

LEMMA StartEffects ==
  ASSUME Typed, NEW c \in Calls, NEW s, NEW st, UNCHANGED dbVars,
         NEW pc \in {"find_listener", "leave_find", "pause", "resume", "end"}, Start(c, pc, s, st)
  PROVE  Moves(c) /\ Effects(c)
<1>1. call[c].pc = "idle" /\ call'[c].pc = pc /\ \A d \in Calls \ {c} : call'[d] = call[d]
  BY DEF Start, Idle, At, Typed, CallsOK
<1> QED
  BY <1>1 DEF Moves, Effects, Counting, dbVars

(* A step moves one call or none, or it is a restart. *)
LEMMA NextEffects ==
  ASSUME Typed, [Next]_vars
  PROVE  \/ UNCHANGED <<call, peak, total, rooms, listeners>>
         \/ \E c \in Calls : Moves(c) /\ Effects(c)
         \/ ServerRestart
<1>1. CASE UNCHANGED vars
  BY <1>1 DEF vars
<1>2. ASSUME NEW c \in Calls, Request(c) PROVE Moves(c) /\ Effects(c)
  BY <1>2, StartEffects
  DEF Request, JoinStream, LeaveStream, PauseStream, ResumeStream, EndStream, HostOp
<1>3. ASSUME NEW s \in Sessions, Disconnect(s)
      PROVE  \/ UNCHANGED <<call, peak, total, rooms, listeners>>
             \/ \E c \in Calls : Moves(c) /\ Effects(c)
  <2>1. CASE UNCHANGED call
    BY <1>3, <2>1 DEF Disconnect, dbVars
  <2>2. CASE \E c \in Calls : Start(c, "leave_find", s, None)
    BY <1>3, <2>2, StartEffects DEF Disconnect
  <2> QED
    BY <1>3, <2>1, <2>2 DEF Disconnect
<1> QED
  BY <1>1, <1>2, <1>3, StepEffects DEF Next

(* A step that neither inserts a listener nor changes where one is: it may *)
(* only mark some as gone.                                                 *)
LEMMA ListenersStay ==
  ASSUME Typed, NEW c \in Calls, Effects(c), call[c].pc # "upsert"
  PROVE  /\ DOMAIN listeners' = DOMAIN listeners
         /\ \A s \in DOMAIN listeners :
              /\ listeners'[s].stream = listeners[s].stream /\ listeners'[s].room = listeners[s].room
              /\ listeners[s].left => listeners'[s].left
<1>1. CASE UNCHANGED listeners
  BY <1>1
<1>2. CASE \E s : SetLeft(s, TRUE)
  <2>1. PICK s : listeners' = [listeners EXCEPT ![s].left = TRUE]
    BY <1>2 DEF SetLeft
  <2>2. \A l \in DOMAIN listeners : listeners[l] \in Listener
    BY DEF Typed, ListenersOK
  <2> QED
    BY <2>1, <2>2 DEF Listener
<1>3. UNCHANGED listeners \/ \E s : SetLeft(s, TRUE)
  BY DEF Effects, JoinCreateRoom, JoinIncrement, LeaveDecrement, LeaveMark, CloseRooms, CloseListener
<1> QED
  BY <1>1, <1>2, <1>3

(* A join that inserts its listener. *)
LEMMA ListenerInserted ==
  ASSUME Typed, SequenceInv, NEW c \in Calls, Effects(c), call[c].pc = "upsert"
  PROVE  LET s == call[c].session IN
         /\ s \notin DOMAIN listeners /\ DOMAIN listeners' = DOMAIN listeners \cup {s}
         /\ call[c].stream \in Streams
         /\ listeners'[s].stream = call[c].stream /\ listeners'[s].room = call[c].room
         /\ ~listeners'[s].left
         /\ \A l \in DOMAIN listeners : listeners'[l] = listeners[l]
         /\ UNCHANGED <<rooms, peak, total>>
<1> DEFINE s == call[c].session
           new == [stream |-> call[c].stream, room |-> call[c].room, left |-> FALSE]
<1>1. JoinUpsert(c) /\ call[c].stream \in Streams
  BY DEF Effects, Typed, CallsOK, CallsAddressed, JoinPCs
<1>2. s \notin DOMAIN listeners
  BY DEF SequenceInv, CallsSound, Sound, Searching
<1>3. listeners' = [l \in DOMAIN listeners \cup {s} |-> IF l = s THEN new ELSE listeners[l]]
  BY <1>1, <1>2 DEF JoinUpsert, Registered
<1>4. listeners'[s] = new /\ UNCHANGED <<rooms, peak, total>>
  BY <1>1, <1>3 DEF JoinUpsert
<1> QED
  BY <1>1, <1>2, <1>3, <1>4

-----------------------------------------------------------------------------
(* The sockets and their calls.                                            *)

(* A step keeps the session of its call, or the call returns; and no call  *)
(* turns into a join or a leave.                                           *)
LEMMA StepSession ==
  ASSUME Typed, NEW c \in Calls, Step(c)
  PROVE  /\ \A d \in Calls \ {c} : call'[d] = call[d]
         /\ call'[c].session \in {call[c].session, None}
         /\ call'[c].pc \in JoinPCs => call[c].pc \in JoinPCs
         /\ call'[c].pc \in LeavePCs => call[c].pc \in LeavePCs
<1> USE DEF JoinPCs, LeavePCs, At
<1>0. call \in [Calls -> Call] /\ call[c] \in Call
  BY DEF Typed, CallsOK
<1> DEFINE Kept == /\ call'[c].session \in {call[c].session, None}
                   /\ call'[c].pc \in JoinPCs => call[c].pc \in JoinPCs
                   /\ call'[c].pc \in LeavePCs => call[c].pc \in LeavePCs
<1> SUFFICES Kept
  BY StepEffects DEF Moves
<1>1. ASSUME NEW pc, call' = [call EXCEPT ![c].pc = pc], call[c].pc \in JoinPCs \/ pc \notin JoinPCs,
             call[c].pc \in LeavePCs \/ pc \notin LeavePCs
      PROVE  Kept
  <2>1. call'[c] = [call[c] EXCEPT !.pc = pc]
    BY <1>0, <1>1
  <2>2. call'[c].pc = pc /\ call'[c].session = call[c].session
    BY <1>0, <2>1 DEF Call
  <2> QED
    BY <1>1, <2>2
<1>2. ASSUME call' = [call EXCEPT ![c] = Idle] PROVE Kept
  BY <1>0, <1>2 DEF Idle, Call
<1>10. CASE JoinFindListener(c)
  BY <1>1, <1>10 DEF JoinFindListener, Goto, Return
<1>11. CASE JoinCountRooms(c)
  <2>1. call[c].pc = "count_rooms" /\ (Return(c) \/ Goto(c, "create_room"))
    BY <1>11 DEF JoinCountRooms
  <2> QED
    BY <1>1, <1>2, <2>1 DEF Goto, Return
<1>12. CASE JoinIncrement(c)
  BY <1>1, <1>12 DEF JoinIncrement, Goto, Return
<1>13. CASE JoinAddTotal(c)
  BY <1>1, <1>13 DEF JoinAddTotal, Goto, Return
<1>14. CASE JoinUpsert(c)
  BY <1>1, <1>14 DEF JoinUpsert, Goto, Return
<1>15. CASE LeaveMark(c)
  BY <1>1, <1>15 DEF LeaveMark, Goto, Return
<1>16. CASE WriteEnded(c)
  BY <1>1, <1>16 DEF WriteEnded, Goto, Return
<1>17. CASE JoinAck(c)
  BY <1>2, <1>17 DEF JoinAck, Goto, Return
<1>18. CASE LeaveDecrement(c)
  BY <1>2, <1>18 DEF LeaveDecrement, Goto, Return
<1>19. CASE WritePaused(c)
  BY <1>2, <1>19 DEF WritePaused, Goto, Return
<1>20. CASE WriteLive(c)
  BY <1>2, <1>20 DEF WriteLive, Goto, Return
<1>21. CASE CloseRooms(c)
  BY <1>2, <1>21 DEF CloseRooms, Goto, Return
<1>3. CASE JoinFindRoom(c) \/ JoinLastRoom(c)
  <2>1. \/ Goto(c, "last_room")
        \/ \E pc \in {"upsert", "count_rooms"} : \E r : call' = [call EXCEPT ![c].pc = pc, ![c].room = r]
    BY <1>3 DEF JoinFindRoom, JoinLastRoom
  <2>2. call'[c].session = call[c].session /\ call'[c].pc \in JoinPCs \ LeavePCs
    <3>1. CASE Goto(c, "last_room")
      BY <1>0, <3>1 DEF Goto, Call
    <3>2. ASSUME NEW pc \in {"upsert", "count_rooms"}, NEW r,
                 call' = [call EXCEPT ![c].pc = pc, ![c].room = r]
          PROVE  call'[c].session = call[c].session /\ call'[c].pc = pc
      BY <1>0, <3>2 DEF Call
    <3> QED
      BY <2>1, <3>1, <3>2
  <2>3. call[c].pc \in JoinPCs
    BY <1>3 DEF JoinFindRoom, JoinLastRoom
  <2>4. call'[c].pc \notin LeavePCs
    BY <2>2
  <2> QED
    BY <2>2, <2>3, <2>4
<1>4. CASE JoinCreateRoom(c)
  <2>1. \/ Return(c)
        \/ \E r : call' = [call EXCEPT ![c].pc = "upsert", ![c].room = r]
    BY <1>4 DEF JoinCreateRoom
  <2>2. call'[c].session \in {call[c].session, None} /\ call'[c].pc \in {"idle", "upsert"}
    BY <1>0, <2>1 DEF Return, Idle, Call
  <2>3. call[c].pc \in JoinPCs
    BY <1>4 DEF JoinCreateRoom
  <2>4. call'[c].pc \notin LeavePCs
    BY <2>2
  <2> QED
    BY <2>2, <2>3, <2>4
<1>5. CASE JoinCountViewers(c) \/ JoinWritePeak(c)
  BY <1>0, <1>5 DEF JoinCountViewers, JoinWritePeak, Call
<1>6. CASE LeaveFind(c)
  <2>1. CASE Present(call[c].session)
    BY <1>0, <1>6, <2>1 DEF LeaveFind, Call
  <2>2. CASE ~Present(call[c].session)
    BY <1>0, <1>6, <2>2 DEF LeaveFind, Return, Idle
  <2> QED
    BY <2>1, <2>2
<1>7. CASE CloseFind(c)
  BY <1>0, <1>7 DEF CloseFind, Call
<1>8. ASSUME NEW s \in Sessions, CloseListener(c, s) PROVE Kept
  <2>1. call'[c] = [call[c] EXCEPT !.todo = @ \ {s}]
    BY <1>0, <1>8 DEF CloseListener
  <2> QED
    BY <1>0, <1>8, <2>1 DEF CloseListener, Call
<1> QED
  BY <1>3, <1>4, <1>5, <1>6, <1>7, <1>8, <1>10, <1>11, <1>12, <1>13, <1>14, <1>15, <1>16, <1>17,
     <1>18, <1>19, <1>20, <1>21 DEF Step

(* A step of a call leaves a socket as it is, but for JoinAck.             *)
LEMMA StepSockets ==
  ASSUME Typed, NEW c \in Calls, Step(c)
  PROVE  /\ IF call[c].pc = "ack" THEN JoinAck(c) ELSE UNCHANGED sockets
         /\ \A s \in Sessions : /\ sockets'[s].connected = sockets[s].connected
                                /\ sockets'[s].lost = sockets[s].lost
<1>1. IF call[c].pc = "ack" THEN JoinAck(c) ELSE UNCHANGED sockets
  BY DEF Step, At, JoinFindListener, JoinFindRoom, JoinLastRoom, JoinCountRooms, JoinCreateRoom,
         JoinUpsert, JoinIncrement, JoinCountViewers, JoinWritePeak, JoinAddTotal, LeaveFind,
         JoinAck, LeaveMark, LeaveDecrement, WritePaused, WriteLive, WriteEnded, SetStatus,
         CloseFind, CloseListener, CloseRooms
<1>2. CASE UNCHANGED sockets
  BY <1>1, <1>2
<1>3. CASE JoinAck(c)
  BY <1>1, <1>3 DEF JoinAck, Typed, SocketsOK, SocketState
<1> QED
  BY <1>1, <1>2, <1>3

(* A call starts for the host, or for a session whose socket is there.     *)
LEMMA RequestStarts ==
  ASSUME Typed, NEW c \in Calls, Request(c)
  PROVE  /\ UNCHANGED dbVars
         /\ \A d \in Calls \ {c} : call'[d] = call[d]
         /\ At(c, "idle")
         /\ \/ /\ call'[c].session \in Sessions /\ sockets[call'[c].session].connected
               /\ \/ call'[c].pc = "find_listener" /\ MaySend(call'[c].session, JoinPCs)
                  \/ call'[c].pc = "leave_find" /\ MaySend(call'[c].session, LeavePCs)
            \/ call'[c].session = None /\ call'[c].pc \in {"pause", "resume", "end"}
         /\ \A s \in Sessions : /\ sockets'[s].connected = sockets[s].connected
                                /\ sockets'[s].stream = sockets[s].stream
                                /\ sockets'[s].lost = sockets[s].lost
<1>0. call \in [Calls -> Call] /\ sockets \in [Sessions -> SocketState]
  BY DEF Typed, CallsOK, SocketsOK
<1>1. ASSUME NEW pc, NEW s, NEW st, Start(c, pc, s, st)
      PROVE  /\ \A d \in Calls \ {c} : call'[d] = call[d]
             /\ At(c, "idle") /\ call'[c].pc = pc /\ call'[c].session = s
  BY <1>0, <1>1 DEF Start, Idle
<1>2. ASSUME NEW s \in Sessions, NEW st \in Streams, JoinStream(c, s, st)
      PROVE  /\ Start(c, "find_listener", s, st) /\ sockets[s].connected /\ MaySend(s, JoinPCs)
             /\ UNCHANGED <<dbVars, sockets>>
  BY <1>2 DEF JoinStream
<1>3. ASSUME NEW s \in Sessions, LeaveStream(c, s)
      PROVE  /\ Start(c, "leave_find", s, None) /\ sockets[s].connected /\ MaySend(s, LeavePCs)
             /\ UNCHANGED dbVars
             /\ \A x \in Sessions : /\ sockets'[x].connected = sockets[x].connected
                                    /\ sockets'[x].stream = sockets[x].stream
                                    /\ sockets'[x].lost = sockets[x].lost
  BY <1>0, <1>3 DEF LeaveStream, SocketState
<1>4. ASSUME NEW st, NEW pc, NEW from, HostOp(c, st, pc, from)
      PROVE  Start(c, pc, None, st) /\ UNCHANGED <<dbVars, sockets>>
  BY <1>4 DEF HostOp
<1>5. CASE \E s \in Sessions, st \in Streams : JoinStream(c, s, st)
  BY <1>1, <1>2, <1>5
<1>6. CASE \E s \in Sessions : LeaveStream(c, s)
  BY <1>1, <1>3, <1>6
<1>7. CASE \E st \in Streams : PauseStream(c, st) \/ ResumeStream(c, st) \/ EndStream(c, st)
  BY <1>1, <1>4, <1>7 DEF PauseStream, ResumeStream, EndStream
<1> QED
  BY <1>5, <1>6, <1>7 DEF Request

(* A socket that goes starts at most the leave of its session.             *)
LEMMA DisconnectStarts ==
  ASSUME Typed, NEW s \in Sessions, Disconnect(s)
  PROVE  /\ UNCHANGED dbVars
         /\ sockets[s].connected /\ ~sockets'[s].connected
         /\ sockets'[s].lost = (IF Working(s, JoinPCs) = {} THEN "no" ELSE "joining")
         /\ \A x \in Sessions \ {s} : sockets'[x] = sockets[x]
         /\ \/ sockets[s].stream = None /\ UNCHANGED call
            \/ \E c \in Calls : /\ At(c, "idle")
                                /\ call'[c].pc = "leave_find" /\ call'[c].session = s
                                /\ \A d \in Calls \ {c} : call'[d] = call[d]
<1>0. call \in [Calls -> Call] /\ sockets \in [Sessions -> SocketState]
  BY DEF Typed, CallsOK, SocketsOK
<1>1. ASSUME NEW c \in Calls, Start(c, "leave_find", s, None)
      PROVE  /\ At(c, "idle") /\ call'[c].pc = "leave_find" /\ call'[c].session = s
             /\ \A d \in Calls \ {c} : call'[d] = call[d]
  BY <1>0, <1>1 DEF Start, Idle
<1> DEFINE lost == IF Working(s, JoinPCs) = {} THEN "no" ELSE "joining"
<1>2. sockets' = [sockets EXCEPT ![s].connected = FALSE, ![s].channels = {}, ![s].lost = lost]
  BY DEF Disconnect
<1>3. ~sockets'[s].connected /\ sockets'[s].lost = lost /\ \A x \in Sessions \ {s} : sockets'[x] = sockets[x]
  <2> HIDE DEF lost
  <2> QED
    BY <1>0, <1>2 DEF SocketState
<1> QED
  BY <1>1, <1>3 DEF Disconnect

(* A restart ends the calls and takes along every socket that had a row.   *)
LEMMA RestartSevers ==
  ASSUME Typed, ServerRestart
  PROVE  /\ UNCHANGED dbVars
         /\ \A c \in Calls : call'[c] = Idle
         /\ \A s \in DOMAIN listeners : ~sockets'[s].connected /\ sockets'[s].lost = "server"
         /\ \A s \in Sessions : \/ sockets'[s] = sockets[s] /\ Unused(s)
                                \/ ~sockets'[s].connected /\ sockets'[s].lost = "server"
<1>1. /\ UNCHANGED dbVars
      /\ \A c \in Calls : call'[c] = Idle
      /\ \A s \in Sessions : \/ sockets'[s] = sockets[s] /\ Unused(s)
                             \/ ~sockets'[s].connected /\ sockets'[s].lost = "server"
  BY DEF ServerRestart
<1>2. \A s \in DOMAIN listeners : s \in Sessions /\ ~Unused(s)
  BY DEF Typed, ListenersOK, Unused, Registered
<1> QED
  BY <1>1, <1>2

(* A socket that is there went nowhere, and one that went with the process *)
(* has no call.                                                            *)
LostSockets ==
  \A s \in Sessions :
    /\ sockets[s].connected => sockets[s].lost = "no"
    /\ sockets[s].lost = "server" => \A c \in Calls : call[c].session # s

(* No socket comes back. *)
SocketsFade ==
  \A s \in Sessions : /\ ~sockets[s].connected => ~sockets'[s].connected
                      /\ sockets[s].lost = "server" => sockets'[s].lost = "server"

LEMMA NextLost ==
  ASSUME Typed, LostSockets, [Next]_vars
  PROVE  LostSockets' /\ SocketsFade
<1> USE DEF LostSockets, SocketsFade
<1>1. CASE UNCHANGED vars
  BY <1>1 DEF vars
<1>2. ASSUME NEW c \in Calls, Step(c) PROVE LostSockets' /\ SocketsFade
  BY <1>2, StepSession, StepSockets
<1>3. ASSUME NEW c \in Calls, Request(c) PROVE LostSockets' /\ SocketsFade
  BY <1>3, RequestStarts
<1>4. ASSUME NEW s \in Sessions, Disconnect(s) PROVE LostSockets' /\ SocketsFade
  <2>1. sockets'[s].lost # "server" /\ sockets[s].lost # "server"
    BY <1>4, DisconnectStarts
  <2>2. ASSUME NEW x \in Sessions \ {s}, sockets'[x].lost = "server", NEW c \in Calls
        PROVE  call'[c].session # x
    BY <1>4, <2>2, DisconnectStarts
  <2> QED
    BY <1>4, <2>1, <2>2, DisconnectStarts
<1>5. CASE ServerRestart
  <2>1. \A c \in Calls : call'[c].session = None
    BY <1>5, RestartSevers DEF Idle
  <2>2. \A s \in Sessions : Unused(s) => sockets[s].connected
    BY DEF Unused
  <2> QED
    BY <1>5, <2>1, <2>2, RestartSevers
<1> QED
  BY <1>1, <1>2, <1>3, <1>4, <1>5 DEF Next

LEMMA InitLost == Init => LostSockets
  BY DEF Init, LostSockets

-----------------------------------------------------------------------------
(* The total number of listeners of a stream.                              *)
CountedIn(st) == {c \in Calls : call[c].stream = st /\ call[c].pc \in Counting}
ListenersOf(st) == {s \in DOMAIN listeners : listeners[s].stream = st}
HeldOf(st) == {s \in ListenersOf(st) : sockets[s].lost # "server"}

LEMMA CountedFinite ==
  ASSUME Typed, NEW st
  PROVE  /\ IsFiniteSet(CountedIn(st)) /\ IsFiniteSet(ListenersOf(st)) /\ IsFiniteSet(HeldOf(st))
         /\ Cardinality(CountedIn(st)) \in Nat
         /\ Cardinality(ListenersOf(st)) \in Nat /\ Cardinality(HeldOf(st)) \in Nat
<1>1. CountedIn(st) \subseteq Calls /\ ListenersOf(st) \subseteq Sessions /\ HeldOf(st) \subseteq Sessions
  BY DEF CountedIn, ListenersOf, HeldOf, Typed, ListenersOK
<1> QED
  BY <1>1, FS_Subset, FS_CardinalityType

TotalsCounted ==
  \A st \in Streams :
    /\ total[st] + Cardinality(CountedIn(st)) <= Cardinality(ListenersOf(st))
    /\ Cardinality(HeldOf(st)) <= total[st] + Cardinality(CountedIn(st))

LEMMA TotalsMean == TotalsCounted <=> TotalCountsSessions
  BY DEF TotalsCounted, TotalCountsSessions, CountedIn, ListenersOf, HeldOf, Counting

(* Adding one element to a finite set adds at most one. *)
LEMMA AtMostOneMore ==
  ASSUME NEW S, NEW T, IsFiniteSet(S), NEW x, T \subseteq S \cup {x}
  PROVE  IsFiniteSet(T) /\ Cardinality(T) <= Cardinality(S) + 1
<1>1. /\ IsFiniteSet(S \cup {x}) /\ Cardinality(S) \in Nat
      /\ Cardinality(S \cup {x}) = Cardinality(S) \/ Cardinality(S \cup {x}) = Cardinality(S) + 1
  BY FS_AddElement, FS_CardinalityType
<1> DEFINE U == S \cup {x}
<1>2. IsFiniteSet(T) /\ Cardinality(T) <= Cardinality(U) /\ Cardinality(T) \in Nat
  BY <1>1, FS_Subset, FS_CardinalityType
<1> QED
  BY <1>1, <1>2

LEMMA NextTotals ==
  ASSUME Typed, Typed', SequenceInv, LostSockets, TotalsCounted, [Next]_vars
  PROVE  TotalsCounted'
<1> SUFFICES ASSUME NEW st \in Streams
             PROVE  /\ total'[st] + Cardinality(CountedIn(st)') <= Cardinality(ListenersOf(st)')
                    /\ Cardinality(HeldOf(st)') <= total'[st] + Cardinality(CountedIn(st)')
  BY DEF TotalsCounted
<1> DEFINE Goal == /\ total'[st] + Cardinality(CountedIn(st)') <= Cardinality(ListenersOf(st)')
                   /\ Cardinality(HeldOf(st)') <= total'[st] + Cardinality(CountedIn(st)')
<1>0. /\ total[st] + Cardinality(CountedIn(st)) <= Cardinality(ListenersOf(st))
      /\ Cardinality(HeldOf(st)) <= total[st] + Cardinality(CountedIn(st))
      /\ total \in [Streams -> Nat]
      /\ IsFiniteSet(CountedIn(st)) /\ IsFiniteSet(ListenersOf(st)) /\ IsFiniteSet(HeldOf(st))
      /\ Cardinality(CountedIn(st)) \in Nat /\ Cardinality(ListenersOf(st)) \in Nat
      /\ Cardinality(HeldOf(st)) \in Nat
  BY CountedFinite DEF TotalsCounted, Typed, DatabaseOK
<1>g. IsFiniteSet(HeldOf(st)') /\ Cardinality(HeldOf(st)') \in Nat
  <2>1. HeldOf(st)' \subseteq Sessions
    BY DEF HeldOf, ListenersOf, Typed, ListenersOK
  <2> QED
    BY <2>1, FS_Subset, FS_CardinalityType
<1>s. DOMAIN listeners \subseteq Sessions /\ \A s \in Sessions : sockets'[s].lost # "server" => sockets[s].lost # "server"
  BY NextLost DEF SocketsFade, Typed, ListenersOK
<1>f. ASSUME ListenersOf(st)' = ListenersOf(st)
      PROVE  Cardinality(HeldOf(st)') <= Cardinality(HeldOf(st))
  <2>1. HeldOf(st)' \subseteq HeldOf(st)
    BY <1>s, <1>f DEF HeldOf, ListenersOf
  <2> QED
    BY <1>0, <1>g, <2>1, FS_Subset
<1>1. CASE UNCHANGED <<call, peak, total, rooms, listeners>>
  BY <1>0, <1>1, <1>f, <1>g DEF CountedIn, ListenersOf
<1>2. ASSUME NEW c \in Calls, Moves(c), Effects(c)
      PROVE  Goal
  <2>1. CASE call[c].pc = "upsert"
    <3> DEFINE s == call[c].session
    <3>1. /\ s \notin DOMAIN listeners /\ DOMAIN listeners' = DOMAIN listeners \cup {s}
          /\ listeners'[s].stream = call[c].stream
          /\ \A l \in DOMAIN listeners : listeners'[l] = listeners[l]
          /\ total' = total
      BY <1>2, <2>1, ListenerInserted
    <3>2. CASE call[c].stream = st
      <4>1. ListenersOf(st)' = ListenersOf(st) \cup {s} /\ s \notin ListenersOf(st)
        BY <3>1, <3>2 DEF ListenersOf
      <4>2. CountedIn(st)' = CountedIn(st) \cup {c} /\ c \notin CountedIn(st)
        BY <1>2, <2>1, <3>2 DEF CountedIn, Counting, Moves
      <4>3. /\ Cardinality(ListenersOf(st)') = Cardinality(ListenersOf(st)) + 1
            /\ Cardinality(CountedIn(st)') = Cardinality(CountedIn(st)) + 1
        BY <1>0, <4>1, <4>2, FS_AddElement
      <4>4. HeldOf(st)' \subseteq HeldOf(st) \cup {s}
        BY <1>s, <4>1 DEF HeldOf, ListenersOf
      <4>5. Cardinality(HeldOf(st)') <= Cardinality(HeldOf(st)) + 1
        BY <1>0, <4>4, AtMostOneMore
      <4> QED
        BY <1>0, <1>g, <3>1, <4>3, <4>5
    <3>3. CASE call[c].stream # st
      <4>1. ListenersOf(st)' = ListenersOf(st)
        BY <3>1, <3>3 DEF ListenersOf
      <4>2. CountedIn(st)' = CountedIn(st)
        BY <1>2, <2>1, <3>3 DEF CountedIn, Counting, Moves
      <4> QED
        BY <1>0, <1>f, <1>g, <3>1, <4>1, <4>2
    <3> QED
      BY <3>2, <3>3
  <2>2. CASE call[c].pc # "upsert"
    <3>1. ListenersOf(st)' = ListenersOf(st)
      BY <1>2, <2>2, ListenersStay DEF ListenersOf
    <3>2. CASE call[c].pc = "add_total" /\ call[c].stream = st
      <4>1. total'[st] = total[st] + 1
        BY <1>0, <1>2, <3>2 DEF Effects, JoinAddTotal
      <4>2. CountedIn(st)' = CountedIn(st) \ {c} /\ c \in CountedIn(st)
        BY <1>2, <3>2 DEF CountedIn, Counting, Moves
      <4>3. Cardinality(CountedIn(st)') = Cardinality(CountedIn(st)) - 1
        BY <1>0, <4>2, FS_RemoveElement
      <4> QED
        BY <1>0, <1>f, <1>g, <3>1, <4>1, <4>3
    <3>3. CASE ~(call[c].pc = "add_total" /\ call[c].stream = st)
      <4>1. total'[st] = total[st]
        BY <1>0, <1>2, <3>3 DEF Effects, JoinAddTotal
      <4>2. CountedIn(st)' = CountedIn(st)
        BY <1>2, <2>2, <3>3 DEF CountedIn, Counting, Moves
      <4> QED
        BY <1>0, <1>f, <1>g, <3>1, <4>1, <4>2
    <3> QED
      BY <3>2, <3>3
  <2> QED
    BY <2>1, <2>2
<1>3. CASE ServerRestart
  <2>1. HeldOf(st)' = {}
    BY <1>3, RestartSevers DEF HeldOf, ListenersOf, dbVars
  <2>2. CountedIn(st)' = {}
    BY <1>3, RestartSevers DEF CountedIn, Counting, Idle
  <2>3. total' = total /\ ListenersOf(st)' = ListenersOf(st)
    BY <1>3, RestartSevers DEF dbVars, ListenersOf
  <2>4. Cardinality(HeldOf(st)') = 0 /\ Cardinality(CountedIn(st)') = 0
    BY <2>1, <2>2, FS_EmptySet
  <2> QED
    BY <1>0, <2>3, <2>4
<1> QED
  BY <1>1, <1>2, <1>3, NextEffects

LEMMA InitTotals == Init => TotalsCounted
<1> SUFFICES ASSUME Init, NEW st \in Streams
             PROVE  /\ total[st] + Cardinality(CountedIn(st)) <= Cardinality(ListenersOf(st))
                    /\ Cardinality(HeldOf(st)) <= total[st] + Cardinality(CountedIn(st))
  BY DEF TotalsCounted
<1>1. CountedIn(st) = {} /\ ListenersOf(st) = {} /\ HeldOf(st) = {} /\ total[st] = 0
  BY DEF Init, CountedIn, ListenersOf, HeldOf, Counting, Idle
<1> QED
  BY <1>1, FS_EmptySet

LEMMA InitTyped == Init => Typed
  BY InitTypeOK, TypeParts DEF Typed

(* While a socket sends no join during its join, totalViewers and the      *)
(* joins that have still to add to it count each session of a stream once, *)
(* however often it leaves and joins again; a restart of the server may    *)
(* only lose those of its own sockets.                                     *)
THEOREM TotalCountsSessionsCorrect ==
  ASSUME InSequence
  PROVE  Spec => []TotalCountsSessions
<1>1. Init => Typed /\ SequenceInv /\ LostSockets /\ TotalsCounted
  BY InitTyped, InitSequence, InitLost, InitTotals
<1>2. Typed /\ SequenceInv /\ LostSockets /\ TotalsCounted /\ [Next]_vars
        => (Typed /\ SequenceInv /\ LostSockets /\ TotalsCounted)'
  BY NextTyped, NextSequence, NextLost, NextTotals
<1>3. TotalsCounted => TotalCountsSessions
  BY TotalsMean
<1> QED
  BY <1>1, <1>2, <1>3, PTL DEF Spec

-----------------------------------------------------------------------------
(* The peak of the viewers.                                                *)

(* The viewers but those of a process that was restarted. *)
Watching(st) == {s \in Viewers(st) : sockets[s].lost # "server"}

(* A viewer count above the stored peak is about to be noticed: a join has *)
(* still to count, or has counted at least that many.                      *)
PeakFollows ==
  \A st \in Streams :
    \/ \E c \in Calls : call[c].stream = st /\ call[c].pc \in {"increment", "count_viewers"}
    \/ Cardinality(Watching(st)) <= peak[st]
    \/ \E c \in Calls : /\ call[c].stream = st /\ call[c].pc = "write_peak"
                        /\ Cardinality(Watching(st)) <= call[c].seen

LEMMA FewerViewers ==
  ASSUME Typed, Typed', SocketsFade, NEW st, Viewers(st)' \subseteq Viewers(st)
  PROVE  /\ Cardinality(Watching(st)') <= Cardinality(Watching(st))
         /\ Cardinality(Watching(st)') <= Cardinality(Viewers(st))
         /\ Cardinality(Watching(st)') \in Nat /\ Cardinality(Watching(st)) \in Nat
         /\ Cardinality(Viewers(st)) \in Nat
<1>1. Viewers(st) \subseteq Sessions /\ Viewers(st)' \subseteq Sessions
  BY DEF Viewers, Typed, ListenersOK
<1>2. IsFiniteSet(Viewers(st)) /\ Watching(st)' \subseteq Watching(st) /\ Watching(st) \subseteq Viewers(st)
  BY <1>1, FS_Subset DEF Watching, SocketsFade
<1>3. /\ Cardinality(Watching(st)) <= Cardinality(Viewers(st)) /\ IsFiniteSet(Watching(st))
      /\ Cardinality(Viewers(st)) \in Nat
  BY <1>2, FS_Subset, FS_CardinalityType
<1>4. Cardinality(Watching(st)) \in Nat
  BY <1>3, FS_CardinalityType
<1>5. IsFiniteSet(Watching(st)') /\ Cardinality(Watching(st)') <= Cardinality(Watching(st))
  BY <1>2, <1>3, FS_Subset
<1>6. Cardinality(Watching(st)') \in Nat
  BY <1>5, FS_CardinalityType
<1> QED
  BY <1>3, <1>4, <1>5, <1>6

LEMMA NextPeak ==
  ASSUME Typed, Typed', SequenceInv, LostSockets, PeakFollows, [Next]_vars
  PROVE  PeakFollows'
<1> SUFFICES ASSUME NEW st \in Streams
             PROVE  \/ \E c \in Calls : call'[c].stream = st /\ call'[c].pc \in {"increment", "count_viewers"}
                    \/ Cardinality(Watching(st)') <= peak'[st]
                    \/ \E c \in Calls : /\ call'[c].stream = st /\ call'[c].pc = "write_peak"
                                        /\ Cardinality(Watching(st)') <= call'[c].seen
  BY DEF PeakFollows
<1> DEFINE Counts(c) == call[c].stream = st /\ call[c].pc \in {"increment", "count_viewers"}
           Saw(c) == /\ call[c].stream = st /\ call[c].pc = "write_peak"
                     /\ Cardinality(Watching(st)) <= call[c].seen
<1>0. /\ (\E c \in Calls : Counts(c)) \/ Cardinality(Watching(st)) <= peak[st] \/ \E c \in Calls : Saw(c)
      /\ peak \in [Streams -> Nat]
      /\ call \in [Calls -> Call]
  BY DEF PeakFollows, Typed, DatabaseOK, CallsOK
<1>s. SocketsFade
  BY NextLost
<1>1. CASE UNCHANGED <<call, peak, total, rooms, listeners>>
  <2>1. Viewers(st)' = Viewers(st)
    BY <1>1 DEF Viewers
  <2>2. /\ Cardinality(Watching(st)') <= Cardinality(Watching(st))
        /\ Cardinality(Watching(st)') \in Nat /\ Cardinality(Watching(st)) \in Nat
    BY <1>s, <2>1, FewerViewers
  <2>3. \A c \in Calls : call[c].seen \in Nat
    BY <1>0 DEF Call
  <2> QED
    BY <1>0, <1>1, <2>2, <2>3
<1>2. ASSUME NEW c \in Calls, Moves(c), Effects(c)
      PROVE  \/ \E d \in Calls : Counts(d)'
             \/ Cardinality(Watching(st)') <= peak'[st]
             \/ \E d \in Calls : Saw(d)'
  <2>0. call[c] \in Call
    BY <1>0
  <2>1. CASE call[c].pc = "upsert" /\ call[c].stream = st
    BY <1>2, <2>1 DEF Moves, Counting
  <2>2. CASE ~(call[c].pc = "upsert" /\ call[c].stream = st)
    <3>1. Viewers(st)' \subseteq Viewers(st)
      <4>1. CASE call[c].pc = "upsert"
        <5>1. PICK s : /\ DOMAIN listeners' = DOMAIN listeners \cup {s}
                       /\ listeners'[s].stream = call[c].stream
                       /\ \A l \in DOMAIN listeners : listeners'[l] = listeners[l]
          BY <1>2, <4>1, ListenerInserted
        <5> QED
          BY <2>2, <4>1, <5>1 DEF Viewers
      <4>2. CASE call[c].pc # "upsert"
        BY <1>2, <4>2, ListenersStay DEF Viewers
      <4> QED
        BY <4>1, <4>2
    <3>2. /\ Cardinality(Watching(st)') <= Cardinality(Watching(st))
          /\ Cardinality(Watching(st)') <= Cardinality(Viewers(st))
          /\ Cardinality(Watching(st)') \in Nat /\ Cardinality(Watching(st)) \in Nat
          /\ Cardinality(Viewers(st)) \in Nat
      BY <1>s, <3>1, FewerViewers
    <3>3. peak'[st] \in Nat /\ peak[st] \in Nat /\ peak[st] <= peak'[st]
      <4>1. peak' \in [Streams -> Nat]
        BY DEF Typed, DatabaseOK
      <4>2. CASE JoinWritePeak(c)
        BY <1>0, <2>0, <4>1, <4>2 DEF JoinWritePeak, Call
      <4>3. CASE UNCHANGED peak
        BY <1>0, <4>3
      <4> QED
        BY <1>2, <4>2, <4>3 DEF Effects
    <3>4. CASE Cardinality(Watching(st)) <= peak[st]
      BY <3>2, <3>3, <3>4
    <3>5. ASSUME NEW d \in Calls, Counts(d) PROVE (\E e \in Calls : Counts(e)') \/ \E e \in Calls : Saw(e)'
      <4>1. CASE d # c
        BY <1>2, <3>5, <4>1 DEF Moves
      <4>2. CASE d = c /\ call[c].pc = "increment"
        BY <1>2, <3>5, <4>2 DEF Moves, Counting
      <4>3. CASE d = c /\ call[c].pc = "count_viewers"
        <5>1. JoinCountViewers(c)
          BY <1>2, <4>3 DEF Effects
        <5>2. /\ call'[c].pc = "write_peak" /\ call'[c].stream = st
              /\ call'[c].seen = Cardinality(Viewers(st))
          BY <2>0, <1>0, <3>5, <4>3, <5>1 DEF JoinCountViewers, Call
        <5> QED
          BY <3>2, <5>2
      <4> QED
        BY <3>5, <4>1, <4>2, <4>3
    <3>6. ASSUME NEW d \in Calls, Saw(d)
          PROVE  Cardinality(Watching(st)') <= peak'[st] \/ \E e \in Calls : Saw(e)'
      <4>1. d # c => call'[d] = call[d]
        BY <1>2 DEF Moves
      <4>2. call[d].seen \in Nat
        BY <1>0 DEF Call
      <4>3. CASE d # c
        BY <3>2, <3>6, <4>1, <4>2, <4>3
      <4>4. CASE d = c
        <5>1. JoinWritePeak(c)
          BY <1>2, <3>6, <4>4 DEF Effects
        <5>2. peak'[st] >= call[c].seen
          BY <1>0, <3>6, <4>2, <4>4, <5>1 DEF JoinWritePeak
        <5> QED
          BY <3>2, <3>3, <3>6, <4>2, <4>4, <5>2
      <4> QED
        BY <4>3, <4>4
    <3> QED
      BY <1>0, <3>4, <3>5, <3>6
  <2> QED
    BY <2>1, <2>2
<1>3. CASE ServerRestart
  <2>1. Watching(st)' = {} /\ peak' = peak
    BY <1>3, RestartSevers DEF Watching, Viewers, dbVars
  <2>2. Cardinality(Watching(st)') = 0
    BY <2>1, FS_EmptySet
  <2> QED
    BY <1>0, <2>1, <2>2
<1> QED
  BY <1>1, <1>2, <1>3, NextEffects

LEMMA InitPeak == Init => PeakFollows
<1> SUFFICES ASSUME Init, NEW st \in Streams PROVE Cardinality(Watching(st)) <= peak[st]
  BY DEF PeakFollows
<1>1. Watching(st) = {} /\ peak[st] = 0
  BY DEF Init, Viewers, Watching
<1> QED
  BY <1>1, FS_EmptySet

(* While a socket sends no join during its join, the two unlocked steps of *)
(* updatePeakViewers lose no maximum: once the joins of a stream have      *)
(* written, the stored peak covers its viewers, those of a process that    *)
(* was restarted apart.                                                    *)
THEOREM PeakCoversViewersCorrect ==
  ASSUME InSequence
  PROVE  Spec => []PeakCoversViewers
<1>1. Init => Typed /\ SequenceInv /\ LostSockets /\ PeakFollows
  BY InitTyped, InitSequence, InitLost, InitPeak
<1>2. Typed /\ SequenceInv /\ LostSockets /\ PeakFollows /\ [Next]_vars
        => (Typed /\ SequenceInv /\ LostSockets /\ PeakFollows)'
  BY NextTyped, NextSequence, NextLost, NextPeak
<1>3. PeakFollows => PeakCoversViewers
  BY DEF PeakFollows, PeakCoversViewers, Watching
<1> QED
  BY <1>1, <1>2, <1>3, PTL DEF Spec

-----------------------------------------------------------------------------
(* Listeners whose socket is gone.                                         *)

(* The socket of a present listener carries the stream, or has a call that *)
(* will set it; once the socket is gone, a call is about to mark the       *)
(* listener, unless a join was cut off.                                    *)
GhostsLeave ==
  \A s \in Sessions : Present(s) =>
    IF sockets[s].connected
      THEN sockets[s].stream # None \/
             \E c \in Calls : call[c].session = s /\ call[c].pc \in Counting \cup {"ack"}
      ELSE sockets[s].lost = "no" =>
             \E c \in Calls : call[c].session = s /\ call[c].pc \in {"leave_find", "leave_mark"}

(* A socket that went while it had no join in flight has none afterwards.  *)
GoneSocketsLeave ==
  \A s \in Sessions : ~sockets[s].connected /\ sockets[s].lost = "no" =>
    \A c \in Calls : call[c].session = s => call[c].pc \notin JoinPCs

GhostInv == GhostsLeave /\ GoneSocketsLeave

(* A listener becomes present by an upsert of its own session only. *)
LEMMA PresentBefore ==
  ASSUME Typed, NEW c \in Calls, Effects(c), NEW s, Present(s)',
         ~(call[c].pc = "upsert" /\ call[c].session = s)
  PROVE  Present(s)
<1> DEFINE t == call[c].session
           new == [stream |-> call[c].stream, room |-> call[c].room, left |-> FALSE]
<1>1. CASE call[c].pc = "upsert"
  <2>1. JoinUpsert(c) /\ t # s
    BY <1>1 DEF Effects
  <2>2. CASE Registered(t)
    <3>1. listeners' = [listeners EXCEPT ![t].left = FALSE]
      BY <2>1, <2>2 DEF JoinUpsert, SetLeft
    <3> QED
      BY <2>1, <3>1 DEF Present, Registered
  <2>3. CASE ~Registered(t)
    <3>1. listeners' = [l \in DOMAIN listeners \cup {t} |-> IF l = t THEN new ELSE listeners[l]]
      BY <2>1, <2>3 DEF JoinUpsert
    <3> HIDE DEF new
    <3> QED
      BY <2>1, <3>1 DEF Present, Registered
  <2> QED
    BY <2>2, <2>3
<1>2. CASE call[c].pc # "upsert"
  BY <1>2, ListenersStay DEF Present, Registered
<1> QED
  BY <1>1, <1>2

LEMMA StepGhosts ==
  ASSUME Typed, GhostInv, NEW c \in Calls, Step(c)
  PROVE  GhostInv'
<1> USE DEF Counting
<1> DEFINE t == call[c].session
<1>0. call \in [Calls -> Call] /\ sockets \in [Sessions -> SocketState]
  BY DEF Typed, CallsOK, SocketsOK
<1>1. Moves(c) /\ Effects(c)
  BY StepEffects
<1>2. /\ IF call[c].pc = "ack" THEN JoinAck(c) ELSE UNCHANGED sockets
      /\ \A s \in Sessions : /\ sockets'[s].connected = sockets[s].connected
                             /\ sockets'[s].lost = sockets[s].lost
  BY StepSockets
<1>3. /\ \A d \in Calls \ {c} : call'[d] = call[d]
      /\ call'[c].session \in {t, None}
      /\ call'[c].pc \in JoinPCs => call[c].pc \in JoinPCs
  BY StepSession
<1>4. GoneSocketsLeave'
  <2> SUFFICES ASSUME NEW s \in Sessions, ~sockets[s].connected, sockets[s].lost = "no",
                      NEW d \in Calls, call'[d].session = s
               PROVE  call'[d].pc \notin JoinPCs
    BY <1>2 DEF GoneSocketsLeave
  <2>1. call[d].session = s
    BY <1>3
  <2>2. call[d].pc \notin JoinPCs
    BY <2>1 DEF GhostInv, GoneSocketsLeave
  <2> QED
    BY <1>3, <2>2
<1>5. ASSUME NEW s \in Sessions, Present(s)'
      PROVE  IF sockets'[s].connected
               THEN sockets'[s].stream # None \/
                      \E d \in Calls : call'[d].session = s /\ call'[d].pc \in Counting \cup {"ack"}
               ELSE sockets'[s].lost = "no" =>
                      \E d \in Calls : call'[d].session = s /\ call'[d].pc \in {"leave_find", "leave_mark"}
  <2>1. sockets'[s].connected = sockets[s].connected /\ sockets'[s].lost = sockets[s].lost
    BY <1>2
  <2>2. CASE call[c].pc = "upsert" /\ t = s
    <3>1. sockets[s].connected \/ sockets[s].lost # "no"
      BY <2>2 DEF GhostInv, GoneSocketsLeave, JoinPCs
    <3>2. call'[c].pc = "increment" /\ call'[c].session = s
      BY <1>1, <2>2 DEF Moves
    <3> QED
      BY <2>1, <3>1, <3>2
  <2>3. CASE ~(call[c].pc = "upsert" /\ t = s)
    <3>1. Present(s)
      BY <1>1, <1>5, <2>3, PresentBefore
    <3>2. CASE sockets[s].connected
      <4>1. CASE sockets[s].stream # None
        <5>1. sockets'[s].stream # None
          <6>1. CASE call[c].pc = "ack" /\ t = s
            <7>1. call[c].stream \in Streams
              BY <6>1 DEF Typed, CallsOK, CallsAddressed, JoinPCs
            <7>2. sockets'[s].stream = call[c].stream
              BY <1>0, <1>2, <6>1 DEF JoinAck, SocketState
            <7> QED
              BY <7>1, <7>2
          <6>2. CASE ~(call[c].pc = "ack" /\ t = s)
            BY <1>0, <1>2, <4>1, <6>2 DEF JoinAck
          <6> QED
            BY <6>1, <6>2
        <5> QED
          BY <2>1, <3>2, <5>1
      <4>2. CASE sockets[s].stream = None
        <5>1. PICK d \in Calls : call[d].session = s /\ call[d].pc \in Counting \cup {"ack"}
          BY <3>1, <3>2, <4>2 DEF GhostInv, GhostsLeave
        <5>2. CASE d # c
          BY <1>3, <2>1, <3>2, <5>1, <5>2
        <5>3. CASE d = c /\ call[c].pc = "ack"
          <6>1. call[c].stream \in Streams
            BY <5>3 DEF Typed, CallsOK, CallsAddressed, JoinPCs
          <6>2. sockets'[s].stream = call[c].stream
            BY <1>0, <1>2, <5>1, <5>3 DEF JoinAck, SocketState
          <6> QED
            BY <2>1, <3>2, <6>1, <6>2
        <5>4. CASE d = c /\ call[c].pc \in Counting
          <6>1. call'[c].pc \in Counting \cup {"ack"} /\ call'[c].session = s
            BY <1>1, <5>1, <5>4 DEF Moves
          <6> QED
            BY <2>1, <3>2, <6>1
        <5> QED
          BY <5>1, <5>2, <5>3, <5>4
      <4> QED
        BY <4>1, <4>2
    <3>3. CASE ~sockets[s].connected /\ sockets[s].lost = "no"
      <4>1. PICK d \in Calls : call[d].session = s /\ call[d].pc \in {"leave_find", "leave_mark"}
        BY <3>1, <3>3 DEF GhostInv, GhostsLeave
      <4>2. CASE d # c
        BY <1>3, <2>1, <3>3, <4>1, <4>2
      <4>3. CASE d = c /\ call[c].pc = "leave_find"
        <5>1. call'[c].pc = "leave_mark" /\ call'[c].session = s
          BY <1>0, <1>1, <3>1, <4>1, <4>3 DEF Effects, LeaveFind, Call
        <5> QED
          BY <2>1, <3>3, <5>1
      <4>4. CASE d = c /\ call[c].pc = "leave_mark"
        <5>1. listeners' = [listeners EXCEPT ![s].left = TRUE]
          BY <1>1, <4>1, <4>4 DEF Effects, LeaveMark, SetLeft
        <5>2. listeners[s] \in Listener /\ s \in DOMAIN listeners
          BY <3>1 DEF Present, Registered, Typed, ListenersOK
        <5>3. listeners'[s].left
          BY <5>1, <5>2 DEF Listener
        <5> QED
          BY <1>5, <5>3 DEF Present
      <4> QED
        BY <4>1, <4>2, <4>3, <4>4
    <3>4. CASE ~sockets[s].connected /\ sockets[s].lost # "no"
      BY <2>1, <3>4
    <3> QED
      BY <3>2, <3>3, <3>4
  <2> QED
    BY <2>2, <2>3
<1> QED
  BY <1>4, <1>5 DEF GhostInv, GhostsLeave

LEMMA NextGhosts ==
  ASSUME Typed, LostSockets, GhostInv, [Next]_vars
  PROVE  GhostInv'
<1> USE DEF Counting
<1>1. CASE UNCHANGED vars
  BY <1>1 DEF vars, GhostInv, GhostsLeave, GoneSocketsLeave, Present, Registered
<1>2. ASSUME NEW c \in Calls, Request(c) PROVE GhostInv'
  <2>1. /\ UNCHANGED listeners
        /\ \A d \in Calls \ {c} : call'[d] = call[d]
        /\ call[c].pc = "idle"
        /\ \/ call'[c].session \in Sessions /\ sockets[call'[c].session].connected
           \/ call'[c].session = None
        /\ \A s \in Sessions : /\ sockets'[s].connected = sockets[s].connected
                               /\ sockets'[s].stream = sockets[s].stream
                               /\ sockets'[s].lost = sockets[s].lost
    BY <1>2, RequestStarts DEF dbVars, At
  <2>2. GoneSocketsLeave'
    BY <2>1 DEF GhostInv, GoneSocketsLeave
  <2>3. GhostsLeave'
    <3> SUFFICES ASSUME NEW s \in Sessions, Present(s)
                 PROVE  IF sockets[s].connected
                          THEN sockets[s].stream # None \/
                                 \E d \in Calls : call'[d].session = s /\ call'[d].pc \in Counting \cup {"ack"}
                          ELSE sockets[s].lost = "no" =>
                                 \E d \in Calls : /\ call'[d].session = s
                                                  /\ call'[d].pc \in {"leave_find", "leave_mark"}
      BY <2>1 DEF GhostsLeave, Present, Registered
    <3>1. \A d \in Calls : call[d].pc # "idle" => call'[d] = call[d]
      BY <2>1
    <3> QED
      BY <3>1 DEF GhostInv, GhostsLeave
  <2> QED
    BY <2>2, <2>3 DEF GhostInv
<1>3. ASSUME NEW s \in Sessions, Disconnect(s) PROVE GhostInv'
  <2>1. /\ UNCHANGED listeners
        /\ sockets[s].connected /\ ~sockets'[s].connected
        /\ sockets'[s].lost = (IF Working(s, JoinPCs) = {} THEN "no" ELSE "joining")
        /\ \A x \in Sessions \ {s} : sockets'[x] = sockets[x]
    BY <1>3, DisconnectStarts DEF dbVars
  <2>2. sockets'[s].lost = "no" => \A c \in Calls : call[c].session = s => call[c].pc \notin JoinPCs
    BY <2>1 DEF Working, InFlight
  <2>3. CASE sockets[s].stream = None /\ UNCHANGED call
    <3>1. Present(s) => \E c \in Calls : call[c].session = s /\ call[c].pc \in JoinPCs
      BY <2>1, <2>3 DEF GhostInv, GhostsLeave, JoinPCs
    <3> QED
      BY <2>1, <2>2, <2>3, <3>1 DEF GhostInv, GhostsLeave, GoneSocketsLeave, Present, Registered
  <2>4. ASSUME NEW c \in Calls, At(c, "idle"), call'[c].pc = "leave_find", call'[c].session = s,
               \A d \in Calls \ {c} : call'[d] = call[d]
        PROVE  GhostInv'
    <3>1. \A d \in Calls : call[d].pc # "idle" => call'[d] = call[d]
      BY <2>4 DEF At
    <3>2. GoneSocketsLeave'
      BY <2>1, <2>2, <2>4 DEF GhostInv, GoneSocketsLeave, JoinPCs
    <3>3. GhostsLeave'
      BY <2>1, <2>4, <3>1 DEF GhostInv, GhostsLeave, Present, Registered
    <3> QED
      BY <3>2, <3>3 DEF GhostInv
  <2> QED
    BY <1>3, <2>3, <2>4, DisconnectStarts
<1>4. CASE ServerRestart
  <2>1. /\ listeners' = listeners
        /\ \A c \in Calls : call'[c].session = None
        /\ \A s \in Sessions : Present(s) => ~sockets'[s].connected /\ sockets'[s].lost = "server"
    BY <1>4, RestartSevers DEF dbVars, Present, Registered, Idle
  <2> QED
    BY <2>1 DEF GhostInv, GhostsLeave, GoneSocketsLeave, Present, Registered
<1> QED
  BY <1>1, <1>2, <1>3, <1>4, StepGhosts DEF Next

LEMMA InitGhosts == Init => GhostInv
  BY DEF Init, GhostInv, GhostsLeave, GoneSocketsLeave, Present, Registered, Idle

(* Whatever calls of a socket overlap, it leaves no present listener       *)
(* behind, unless it goes while its own join is in flight or with the      *)
(* process: it finds the stream in client.data whenever it has a present   *)
(* listener and no join that has still to set it.                          *)
THEOREM NoGhostListenersCorrect == Spec => []NoGhostListeners
<1>1. Init => Typed /\ LostSockets /\ GhostInv
  BY InitTyped, InitLost, InitGhosts
<1>2. Typed /\ LostSockets /\ GhostInv /\ [Next]_vars => (Typed /\ LostSockets /\ GhostInv)'
  BY NextTyped, NextLost, NextGhosts
<1>3. GhostInv => NoGhostListeners
  BY DEF GhostInv, GhostsLeave, NoGhostListeners, InFlight
<1> QED
  BY <1>1, <1>2, <1>3, PTL DEF Spec

-----------------------------------------------------------------------------
(* The leaves of one socket: the leave-stream it sent and its disconnect.  *)
LeavesPaired ==
  \A s \in Sessions :
    /\ sockets[s].connected => \A c, d \in Working(s, LeavePCs) : c = d
    /\ \E c, d : Working(s, LeavePCs) \subseteq {c, d}

LEMMA NextPaired ==
  ASSUME Typed, InSequence, LeavesPaired, [Next]_vars
  PROVE  LeavesPaired'
<1> USE DEF LeavesPaired
<1>f. ASSUME NEW s \in Sessions, Working(s, LeavePCs)' \subseteq Working(s, LeavePCs),
             sockets'[s].connected => sockets[s].connected
      PROVE  /\ sockets'[s].connected => \A c, d \in Working(s, LeavePCs)' : c = d
             /\ \E c, d : Working(s, LeavePCs)' \subseteq {c, d}
  BY <1>f
<1>1. CASE UNCHANGED vars
  <2>1. \A s \in Sessions : Working(s, LeavePCs)' = Working(s, LeavePCs) /\ sockets'[s] = sockets[s]
    BY <1>1 DEF vars, Working, InFlight
  <2> QED
    BY <1>f, <2>1
<1>2. ASSUME NEW c \in Calls, Step(c) PROVE LeavesPaired'
  <2>1. \A s \in Sessions : Working(s, LeavePCs)' \subseteq Working(s, LeavePCs)
    BY <1>2, StepSession DEF Working, InFlight
  <2>2. \A s \in Sessions : sockets'[s].connected = sockets[s].connected
    BY <1>2, StepSockets
  <2> QED
    BY <1>f, <2>1, <2>2
<1>3. ASSUME NEW c \in Calls, Request(c) PROVE LeavesPaired'
  <2>1. \A s \in Sessions : sockets'[s].connected = sockets[s].connected
    BY <1>3, RequestStarts
  <2>2. \A d \in Calls \ {c} : call'[d] = call[d]
    BY <1>3, RequestStarts
  <2>3. ASSUME NEW s \in Sessions, ~(call'[c].session = s /\ call'[c].pc = "leave_find")
        PROVE  Working(s, LeavePCs)' \subseteq Working(s, LeavePCs)
    <3>1. call'[c].session = s => call'[c].pc \notin LeavePCs
      BY <1>3, <2>3, RequestStarts DEF LeavePCs
    <3> QED
      BY <2>2, <3>1 DEF Working, InFlight
  <2>4. ASSUME NEW s \in Sessions, call'[c].session = s, call'[c].pc = "leave_find"
        PROVE  Working(s, LeavePCs)' \subseteq {c}
    <3>1. MaySend(s, LeavePCs)
      BY <1>3, <2>4, RequestStarts
    <3> DEFINE W == Working(s, LeavePCs)
    <3>2. IsFiniteSet(W) /\ Cardinality(W) \in Nat
      BY FS_Subset, FS_CardinalityType DEF Working, InFlight
    <3>3. Cardinality(W) = 0
      BY <3>1, <3>2 DEF InSequence, MaySend
    <3>4. W = {}
      BY <3>2, <3>3, FS_EmptySet
    <3> QED
      BY <2>2, <3>4 DEF Working, InFlight
  <2> QED
    BY <1>f, <2>1, <2>3, <2>4
<1>4. ASSUME NEW s \in Sessions, Disconnect(s) PROVE LeavesPaired'
  <2>1. /\ sockets[s].connected /\ ~sockets'[s].connected
        /\ \A x \in Sessions \ {s} : sockets'[x] = sockets[x]
    BY <1>4, DisconnectStarts
  <2>2. CASE UNCHANGED call
    <3>1. \A x \in Sessions : Working(x, LeavePCs)' = Working(x, LeavePCs)
      BY <2>2 DEF Working, InFlight
    <3> QED
      BY <1>f, <2>1, <3>1
  <2>3. ASSUME NEW c \in Calls, call'[c].session = s, \A d \in Calls \ {c} : call'[d] = call[d]
        PROVE  LeavesPaired'
    <3>1. \A x \in Sessions \ {s} : Working(x, LeavePCs)' \subseteq Working(x, LeavePCs)
      BY <2>3 DEF Working, InFlight
    <3>2. Working(s, LeavePCs)' \subseteq Working(s, LeavePCs) \cup {c}
      BY <2>3 DEF Working, InFlight
    <3>3. \E d, e : Working(s, LeavePCs)' \subseteq {d, e}
      <4>1. CASE Working(s, LeavePCs) = {}
        BY <3>2, <4>1
      <4>2. CASE Working(s, LeavePCs) # {}
        <5>1. PICK d : d \in Working(s, LeavePCs)
          BY <4>2
        <5>2. Working(s, LeavePCs) \subseteq {d}
          BY <2>1, <5>1
        <5>3. Working(s, LeavePCs)' \subseteq {d, c}
          BY <3>2, <5>2
        <5> QED
          BY <5>3
      <4> QED
        BY <4>1, <4>2
    <3>4. ASSUME NEW x \in Sessions
          PROVE  /\ sockets'[x].connected => \A d, e \in Working(x, LeavePCs)' : d = e
                 /\ \E d, e : Working(x, LeavePCs)' \subseteq {d, e}
      <4>1. CASE x = s
        BY <2>1, <3>3, <4>1
      <4>2. CASE x # s
        BY <1>f, <2>1, <3>1, <4>2
      <4> QED
        BY <4>1, <4>2
    <3> QED
      BY <3>4
  <2> QED
    BY <1>4, <2>2, <2>3, DisconnectStarts
<1>5. CASE ServerRestart
  <2>1. \A s \in Sessions : Working(s, LeavePCs)' = {}
    BY <1>5, RestartSevers DEF Working, InFlight, Idle, LeavePCs
  <2> QED
    BY <2>1
<1> QED
  BY <1>1, <1>2, <1>3, <1>4, <1>5 DEF Next

LEMMA InitPaired == Init => LeavesPaired
<1> SUFFICES ASSUME Init PROVE LeavesPaired
  OBVIOUS
<1>1. \A s \in Sessions : Working(s, LeavePCs) = {}
  BY DEF Init, Working, InFlight, Idle, LeavePCs
<1> QED
  BY <1>1 DEF LeavesPaired

-----------------------------------------------------------------------------
(* The count of a room.                                                    *)

(* Call c works on room r of stream st. *)
Works(c, st, r) == call[c].stream = st /\ call[c].room = r

(* No listener changes, or just one is marked as gone. *)
LeftKept ==
  /\ DOMAIN listeners' = DOMAIN listeners
  /\ \A s \in DOMAIN listeners :
       /\ listeners'[s].stream = listeners[s].stream /\ listeners'[s].room = listeners[s].room
       /\ listeners'[s].left = listeners[s].left

Marked(x) ==
  /\ x \in DOMAIN listeners /\ ~listeners[x].left
  /\ DOMAIN listeners' = DOMAIN listeners
  /\ listeners'[x].left
  /\ \A s \in DOMAIN listeners :
       /\ listeners'[s].stream = listeners[s].stream /\ listeners'[s].room = listeners[s].room
       /\ s # x => listeners'[s].left = listeners[s].left

LEMMA MarkOrKeep ==
  ASSUME Typed, SequenceInv, NEW c \in Calls, Effects(c), call[c].pc # "upsert"
  PROVE  LET s == call[c].session IN
         /\ call[c].pc \notin {"leave_mark", "close_rooms"} => LeftKept
         /\ call[c].pc = "leave_mark" => IF Present(s) THEN Marked(s) ELSE LeftKept
         /\ call[c].pc = "close_rooms" =>
              LeftKept \/ \E x : Marked(x) /\ listeners[x].stream = call[c].stream
<1> DEFINE s == call[c].session
<1>0. \A l \in DOMAIN listeners : listeners[l] \in Listener
  BY DEF Typed, ListenersOK
<1>1. ASSUME NEW x \in DOMAIN listeners, SetLeft(x, TRUE)
      PROVE  IF listeners[x].left THEN LeftKept ELSE Marked(x)
  <2>1. listeners' = [listeners EXCEPT ![x] = [listeners[x] EXCEPT !.left = TRUE]]
    BY <1>1 DEF SetLeft
  <2>2. /\ DOMAIN listeners' = DOMAIN listeners
        /\ \A l \in DOMAIN listeners \ {x} : listeners'[l] = listeners[l]
        /\ listeners'[x] = [listeners[x] EXCEPT !.left = TRUE]
    BY <1>1, <2>1
  <2>3. /\ listeners'[x].left
        /\ listeners'[x].stream = listeners[x].stream /\ listeners'[x].room = listeners[x].room
    BY <1>0, <1>1, <2>2 DEF Listener
  <2>4. CASE listeners[x].left
    <3>1. listeners[x].left = TRUE /\ listeners'[x].left = TRUE
      BY <1>0, <1>1, <2>2, <2>4 DEF Listener
    <3>2. ASSUME NEW l \in DOMAIN listeners
          PROVE  /\ listeners'[l].stream = listeners[l].stream /\ listeners'[l].room = listeners[l].room
                 /\ listeners'[l].left = listeners[l].left
      BY <2>2, <2>3, <3>1
    <3>3. LeftKept
      BY <2>2, <3>2 DEF LeftKept
    <3> QED
      BY <2>4, <3>3
  <2>5. CASE ~listeners[x].left
    <3>1. ASSUME NEW l \in DOMAIN listeners
          PROVE  /\ listeners'[l].stream = listeners[l].stream /\ listeners'[l].room = listeners[l].room
                 /\ l # x => listeners'[l].left = listeners[l].left
      BY <2>2, <2>3
    <3>2. Marked(x)
      BY <1>1, <2>2, <2>3, <2>5, <3>1 DEF Marked
    <3> QED
      BY <2>5, <3>2
  <2> QED
    BY <2>4, <2>5
<1>2. CASE UNCHANGED listeners
  <2>1. LeftKept
    BY <1>2 DEF LeftKept
  <2>2. call[c].pc = "leave_mark" => SetLeft(s, TRUE) /\ s \in DOMAIN listeners
    BY DEF Effects, LeaveMark, SequenceInv, CallsSound, Sound, Leaving
  <2>3. call[c].pc = "leave_mark" /\ Present(s) => Marked(s)
    BY <1>1, <2>2 DEF Present
  <2> QED
    BY <2>1, <2>3
<1>3. CASE call[c].pc = "leave_mark"
  <2>1. SetLeft(s, TRUE) /\ s \in DOMAIN listeners
    BY <1>3 DEF Effects, LeaveMark, SequenceInv, CallsSound, Sound, Leaving
  <2>2. IF Present(s) THEN Marked(s) ELSE LeftKept
    BY <1>1, <2>1 DEF Present, Registered
  <2> QED
    BY <1>3, <2>2
<1>4. ASSUME NEW x, CloseListener(c, x)
      PROVE  /\ call[c].pc = "close_rooms"
             /\ LeftKept \/ \E y : Marked(y) /\ listeners[y].stream = call[c].stream
  <2>1. call[c].pc = "close_rooms" /\ x \in call[c].todo /\ SetLeft(x, TRUE)
    BY <1>4 DEF CloseListener, At
  <2>2. x \in DOMAIN listeners /\ listeners[x].stream = call[c].stream
    BY <2>1 DEF SequenceInv, CallsSound, Sound
  <2>3. IF listeners[x].left THEN LeftKept ELSE Marked(x)
    BY <1>1, <2>1, <2>2
  <2> QED
    BY <2>1, <2>2, <2>3
<1>5. UNCHANGED listeners \/ call[c].pc = "leave_mark" \/ \E x : CloseListener(c, x)
  BY DEF Effects, JoinCreateRoom, JoinIncrement, LeaveDecrement, CloseRooms
<1> QED
  BY <1>2, <1>3, <1>4, <1>5

(* A room that is active after a step was active before, and its count     *)
(* changed as the step's operation says.                                   *)
LEMMA RoomAfter ==
  ASSUME Typed, NEW c \in Calls, Effects(c), NEW st \in Streams,
         NEW r \in RoomNumbers(st), r \in DOMAIN rooms'[st], rooms'[st][r].isActive
  PROVE  /\ r \in ActiveRooms(st)
         /\ call[c].pc = "increment" /\ Works(c, st, r)
              => rooms'[st][r].currentCount = rooms[st][r].currentCount + 1
         /\ call[c].pc = "decrement" /\ Works(c, st, r)
              => rooms'[st][r].currentCount = rooms[st][r].currentCount - 1
         /\ ~(call[c].pc \in {"increment", "decrement"} /\ Works(c, st, r))
              => rooms'[st][r].currentCount = rooms[st][r].currentCount
<1> DEFINE k == call[c]
<1>0. /\ DOMAIN rooms = Streams
      /\ k.pc \in {"create_room", "increment", "decrement", "close_rooms"} => k.stream \in Streams
      /\ rooms[st] \in [RoomNumbers(st) -> Room] /\ rooms[st][r] \in Room
  BY DEF Typed, RoomsOK, CallsOK, CallsAddressed, JoinPCs, HostPCs
<1>1. CASE UNCHANGED rooms /\ k.pc \notin {"increment", "decrement"}
  BY <1>1 DEF ActiveRooms
<1>2. ASSUME NEW n \in {1, -1}, AddToRoom(c, n), k.pc = (IF n = 1 THEN "increment" ELSE "decrement")
      PROVE  /\ r \in ActiveRooms(st)
             /\ rooms'[st][r].currentCount = rooms[st][r].currentCount + (IF Works(c, st, r) THEN n ELSE 0)
  <2>1. CASE Works(c, st, r)
    <3>1. rooms'[st] = [rooms[st] EXCEPT ![r].currentCount = @ + n]
      BY <1>0, <1>2, <2>1 DEF AddToRoom, SetRooms, Works
    <3>2. rooms'[st][r] = [rooms[st][r] EXCEPT !.currentCount = @ + n]
      BY <1>0, <3>1
    <3> QED
      BY <1>0, <2>1, <3>2 DEF ActiveRooms, Room
  <2>2. CASE k.stream # st
    <3>1. rooms'[st] = rooms[st]
      BY <1>0, <1>2, <2>2 DEF AddToRoom, SetRooms
    <3> QED
      BY <1>0, <2>2, <3>1 DEF ActiveRooms, Room, Works
  <2>3. CASE k.stream = st /\ k.room # r
    <3>1. rooms'[st] = [rooms[st] EXCEPT ![k.room].currentCount = @ + n]
      BY <1>0, <1>2, <2>3 DEF AddToRoom, SetRooms
    <3>2. rooms'[st][r] = rooms[st][r]
      BY <1>0, <2>3, <3>1
    <3> QED
      BY <1>0, <2>3, <3>2 DEF ActiveRooms, Room, Works
  <2> QED
    BY <2>1, <2>2, <2>3 DEF Works
<1>3. CASE JoinCreateRoom(c)
  <2>1. rooms'[st][r] = rooms[st][r]
    <3> DEFINE new == NextRoomNumber(c)
    <3>1. CASE UNCHANGED rooms
      BY <3>1
    <3>2. CASE new \notin RoomNumbers(k.stream)
      <4>1. rooms' = [rooms EXCEPT ![k.stream] = [n \in RoomNumbers(k.stream) \cup {new} |->
                   IF n = new THEN [isActive |-> TRUE, currentCount |-> 0] ELSE rooms[k.stream][n]]]
        BY <1>3, <3>2 DEF JoinCreateRoom, SetRooms
      <4> HIDE DEF new
      <4> QED
        BY <1>0, <3>2, <4>1
    <3> QED
      BY <1>3, <3>1, <3>2 DEF JoinCreateRoom
  <2> QED
    BY <1>0, <1>3, <2>1 DEF ActiveRooms, JoinCreateRoom, At
<1>4. CASE CloseRooms(c)
  <2>1. k.pc = "close_rooms" /\ k.stream # st /\ rooms'[st] = rooms[st]
    <3>1. /\ k.pc = "close_rooms" /\ k.stream \in Streams
          /\ rooms' = [rooms EXCEPT ![k.stream] =
                         [n \in RoomNumbers(k.stream) |-> [isActive |-> FALSE, currentCount |-> 0]]]
      BY <1>0, <1>4 DEF CloseRooms, At, SetRooms
    <3>2. k.stream # st
      BY <1>0, <3>1
    <3> QED
      BY <1>0, <3>1, <3>2
  <2> QED
    BY <1>0, <2>1 DEF ActiveRooms
<1>5. k.pc = "increment" => AddToRoom(c, 1)
  BY DEF Effects, JoinIncrement
<1>6. k.pc = "decrement" => AddToRoom(c, -1)
  BY DEF Effects, LeaveDecrement
<1>7. k.pc \in {"increment", "decrement"} \/ UNCHANGED rooms \/ JoinCreateRoom(c) \/ CloseRooms(c)
  BY DEF Effects, JoinUpsert, LeaveMark, CloseListener
<1>8. CASE k.pc = "increment"
  BY <1>0, <1>2, <1>5, <1>8 DEF Room
<1>9. CASE k.pc = "decrement"
  BY <1>0, <1>2, <1>6, <1>9 DEF Room
<1>10. CASE k.pc \notin {"increment", "decrement"}
  BY <1>1, <1>3, <1>4, <1>7, <1>10
<1> QED
  BY <1>8, <1>9, <1>10

(* The calls that have still to change the count of a room. *)
LEMMA WorkersAfter ==
  ASSUME NEW c \in Calls, Moves(c), NEW st, NEW r
  PROVE  /\ AtRoom("increment", st, r)' = IF call[c].pc = "upsert" /\ Works(c, st, r)
                                            THEN AtRoom("increment", st, r) \cup {c}
                                            ELSE AtRoom("increment", st, r) \ {c}
         /\ AtRoom("decrement", st, r)' = IF call[c].pc = "leave_mark" /\ Works(c, st, r)
                                            THEN AtRoom("decrement", st, r) \cup {c}
                                            ELSE AtRoom("decrement", st, r) \ {c}
<1> USE DEF AtRoom, At, Works, Counting
<1>1. \A d \in Calls \ {c} : call'[d] = call[d]
  BY DEF Moves
<1>2. /\ (call'[c].pc = "increment" /\ call'[c].stream = st /\ call'[c].room = r)
           <=> (call[c].pc = "upsert" /\ call[c].stream = st /\ call[c].room = r)
      /\ (call'[c].pc = "decrement" /\ call'[c].stream = st /\ call'[c].room = r)
           <=> (call[c].pc = "leave_mark" /\ call[c].stream = st /\ call[c].room = r)
  BY DEF Moves
<1> QED
  BY <1>1, <1>2

(* A room that a join has just opened has no listener and no call yet.     *)
LEMMA NewRoomEmpty ==
  ASSUME Typed, SequenceInv, NEW c \in Calls, Moves(c), Effects(c), NEW st \in Streams,
         NEW r \in DOMAIN rooms'[st], r \notin RoomNumbers(st)
  PROVE  /\ rooms'[st][r].currentCount = 0
         /\ Occupants(st, r)' = {} /\ AtRoom("increment", st, r)' = {}
         /\ AtRoom("decrement", st, r)' = {} /\ AtRoom("leave_mark", st, r)' = {}
<1>0. /\ DOMAIN rooms = Streams
      /\ call[c].pc \in {"create_room", "increment", "decrement", "close_rooms", "upsert"}
           => call[c].stream \in Streams
      /\ rooms[st] \in [RoomNumbers(st) -> Room]
  BY DEF Typed, RoomsOK, CallsOK, CallsAddressed, JoinPCs, HostPCs
<1>1. ~UNCHANGED rooms
  BY DEF RoomNumbers
<1>2. \A n : ~AddToRoom(c, n) \/ call[c].pc \notin {"increment", "decrement"}
  BY <1>0 DEF AddToRoom, SetRooms, RoomNumbers
<1>3. ~CloseRooms(c)
  BY <1>0 DEF CloseRooms, SetRooms, RoomNumbers, At
<1>4. JoinCreateRoom(c) /\ call[c].pc = "create_room"
  BY <1>1, <1>2, <1>3 DEF Effects, JoinIncrement, LeaveDecrement, JoinUpsert, LeaveMark, CloseListener
<1>5. rooms'[st][r].currentCount = 0
  <2> DEFINE new == NextRoomNumber(c)
  <2>1. rooms' = [rooms EXCEPT ![call[c].stream] = [n \in RoomNumbers(call[c].stream) \cup {new} |->
             IF n = new THEN [isActive |-> TRUE, currentCount |-> 0] ELSE rooms[call[c].stream][n]]]
    BY <1>1, <1>4 DEF JoinCreateRoom, SetRooms
  <2> HIDE DEF new
  <2> QED
    BY <1>0, <1>4, <2>1 DEF RoomNumbers
<1>6. Occupants(st, r)' = {}
  BY <1>4 DEF JoinCreateRoom, Occupants, Viewers, SequenceInv, ListenersHoused
<1>7. AtRoom("increment", st, r)' = {} /\ AtRoom("decrement", st, r)' = {} /\ AtRoom("leave_mark", st, r)' = {}
  <2> SUFFICES ASSUME NEW d \in Calls, call'[d].stream = st, call'[d].room = r,
                      call'[d].pc \in {"increment", "decrement", "leave_mark"}
               PROVE  FALSE
    BY DEF AtRoom, At
  <2>1. d # c
    <3>1. call'[c].pc \in {"idle", "upsert"}
      BY <1>4 DEF JoinCreateRoom, Return, Idle, Typed, CallsOK, Call
    <3> QED
      BY <3>1
  <2>2. call[d].stream = st /\ call[d].room = r /\ call[d].pc \in {"increment", "decrement", "leave_mark"}
    BY <2>1 DEF Moves
  <2>3. /\ call[d].session \in DOMAIN listeners
        /\ listeners[call[d].session].stream = st /\ listeners[call[d].session].room = r
    BY <2>2 DEF SequenceInv, CallsSound, Sound, Counting, Leaving
  <2> QED
    BY <2>3 DEF SequenceInv, ListenersHoused
<1> QED
  BY <1>5, <1>6, <1>7

(* The leaves that are about to mark a listener which has left meanwhile. *)
Late(st, r) == {c \in AtRoom("leave_mark", st, r) : listeners[call[c].session].left}

LEMMA CountFinite ==
  ASSUME Typed, NEW st, NEW r
  PROVE  /\ IsFiniteSet(Occupants(st, r)) /\ Cardinality(Occupants(st, r)) \in Nat
         /\ IsFiniteSet(Housed(st, r)) /\ Cardinality(Housed(st, r)) \in Nat
         /\ IsFiniteSet(Departed(st, r)) /\ Cardinality(Departed(st, r)) \in Nat
         /\ IsFiniteSet(Severed(st, r)) /\ Cardinality(Severed(st, r)) \in Nat
         /\ IsFiniteSet(Late(st, r)) /\ Cardinality(Late(st, r)) \in Nat
         /\ \A pc : IsFiniteSet(AtRoom(pc, st, r)) /\ Cardinality(AtRoom(pc, st, r)) \in Nat
<1>1. /\ Occupants(st, r) \subseteq Sessions /\ Housed(st, r) \subseteq Sessions
      /\ Departed(st, r) \subseteq Sessions /\ Severed(st, r) \subseteq Sessions
      /\ Late(st, r) \subseteq Calls /\ \A pc : AtRoom(pc, st, r) \subseteq Calls
  BY DEF Occupants, Viewers, AtRoom, Housed, Departed, Severed, Late, Typed, ListenersOK
<1> QED
  BY <1>1, FS_Subset, FS_CardinalityType

(* Listeners, departures and cut-off sockets of a room only add up.        *)
LEMMA HousedGrow ==
  ASSUME Typed, Typed', SocketsFade, NEW st, NEW r,
         \A s \in DOMAIN listeners :
           /\ s \in DOMAIN listeners'
           /\ listeners'[s].stream = listeners[s].stream /\ listeners'[s].room = listeners[s].room
           /\ listeners[s].left => listeners'[s].left
  PROVE  /\ Housed(st, r) \subseteq Housed(st, r)' /\ Departed(st, r) \subseteq Departed(st, r)'
         /\ Severed(st, r) \subseteq Severed(st, r)'
         /\ Cardinality(Housed(st, r)) <= Cardinality(Housed(st, r)')
         /\ Cardinality(Departed(st, r)) <= Cardinality(Departed(st, r)')
         /\ Cardinality(Severed(st, r)) <= Cardinality(Severed(st, r)')
<1>1. /\ Housed(st, r)' \subseteq Sessions /\ Departed(st, r)' \subseteq Sessions
      /\ Severed(st, r)' \subseteq Sessions
  BY DEF Housed, Departed, Severed, Typed, ListenersOK
<1>2. IsFiniteSet(Housed(st, r)') /\ IsFiniteSet(Departed(st, r)') /\ IsFiniteSet(Severed(st, r)')
  BY <1>1, FS_Subset
<1>3. Housed(st, r) \subseteq Housed(st, r)'
  BY DEF Housed
<1>4. Departed(st, r) \subseteq Departed(st, r)' /\ Severed(st, r) \subseteq Severed(st, r)'
  BY DEF Housed, Departed, Severed, SocketsFade, Typed, ListenersOK
<1> QED
  BY <1>2, <1>3, <1>4, FS_Subset

LEMMA ListenersLast ==
  ASSUME Typed, SequenceInv, NEW c \in Calls, Effects(c), NEW s \in DOMAIN listeners
  PROVE  /\ s \in DOMAIN listeners'
         /\ listeners'[s].stream = listeners[s].stream /\ listeners'[s].room = listeners[s].room
         /\ listeners[s].left => listeners'[s].left
<1>1. CASE call[c].pc = "upsert"
  BY <1>1, ListenerInserted
<1>2. CASE call[c].pc # "upsert"
  BY <1>2, ListenersStay
<1> QED
  BY <1>1, <1>2

(* The listeners of a room change by the one a join inserts and the one a  *)
(* leave or closeAllRooms marks.                                           *)
LEMMA OccupantsAfter ==
  ASSUME Typed, SequenceInv, NEW c \in Calls, Effects(c), NEW st \in Streams, NEW r
  PROVE  LET s == call[c].session IN
         /\ call[c].pc = "upsert" =>
              IF Works(c, st, r)
                THEN /\ s \notin Occupants(st, r) /\ Occupants(st, r)' = Occupants(st, r) \cup {s}
                     /\ s \notin Housed(st, r) /\ Housed(st, r)' = Housed(st, r) \cup {s}
                ELSE Occupants(st, r)' = Occupants(st, r)
         /\ LeftKept => Occupants(st, r)' = Occupants(st, r)
         /\ \A x : Marked(x) =>
              IF listeners[x].stream = st /\ listeners[x].room = r
                THEN x \in Occupants(st, r) /\ Occupants(st, r)' = Occupants(st, r) \ {x}
                ELSE Occupants(st, r)' = Occupants(st, r)
<1> USE DEF Occupants, Viewers
<1> DEFINE s == call[c].session
<1>1. ASSUME call[c].pc = "upsert"
      PROVE  IF Works(c, st, r)
               THEN /\ s \notin Occupants(st, r) /\ Occupants(st, r)' = Occupants(st, r) \cup {s}
                    /\ s \notin Housed(st, r) /\ Housed(st, r)' = Housed(st, r) \cup {s}
               ELSE Occupants(st, r)' = Occupants(st, r)
  <2>1. /\ s \notin DOMAIN listeners /\ DOMAIN listeners' = DOMAIN listeners \cup {s}
        /\ listeners'[s].stream = call[c].stream /\ listeners'[s].room = call[c].room
        /\ ~listeners'[s].left
        /\ \A l \in DOMAIN listeners : listeners'[l] = listeners[l]
    BY <1>1, ListenerInserted
  <2>2. CASE Works(c, st, r)
    <3>1. Occupants(st, r)' = Occupants(st, r) \cup {s} /\ s \notin Occupants(st, r)
      BY <2>1, <2>2 DEF Works
    <3>2. Housed(st, r)' = Housed(st, r) \cup {s} /\ s \notin Housed(st, r)
      BY <2>1, <2>2 DEF Works, Housed
    <3> QED
      BY <2>2, <3>1, <3>2
  <2>3. CASE ~Works(c, st, r)
    <3>1. Occupants(st, r)' = Occupants(st, r)
      BY <2>1, <2>3 DEF Works
    <3> QED
      BY <2>3, <3>1
  <2> QED
    BY <2>2, <2>3
<1>2. LeftKept => Occupants(st, r)' = Occupants(st, r)
  BY DEF LeftKept
<1>3. ASSUME NEW x, Marked(x)
      PROVE  IF listeners[x].stream = st /\ listeners[x].room = r
               THEN x \in Occupants(st, r) /\ Occupants(st, r)' = Occupants(st, r) \ {x}
               ELSE Occupants(st, r)' = Occupants(st, r)
  BY <1>3 DEF Marked
<1> QED
  BY <1>1, <1>2, <1>3

(* A leave that is about to mark knows where its listener is. *)
LEMMA LeaverHoused ==
  ASSUME Typed, SequenceInv, NEW st, NEW r, NEW d \in AtRoom("leave_mark", st, r)
  PROVE  /\ d \in Calls /\ call[d].pc = "leave_mark" /\ call[d].session \in DOMAIN listeners
         /\ listeners[call[d].session].stream = st /\ listeners[call[d].session].room = r
         /\ d \in Working(call[d].session, LeavePCs)
  BY DEF AtRoom, At, SequenceInv, CallsSound, Sound, Leaving, Working, InFlight, LeavePCs

(* No call becomes late by its own step.                                   *)
LEMMA LateNext ==
  ASSUME Typed, SequenceInv, NEW c \in Calls, Moves(c), NEW st, NEW r
  PROVE  Late(st, r)' = {d \in AtRoom("leave_mark", st, r) \ {c} : listeners'[call[d].session].left}
<1>1. c \notin Late(st, r)'
  BY DEF Late, AtRoom, At, Moves, Present, Registered
<1>2. ASSUME NEW d \in Calls \ {c}
      PROVE  d \in Late(st, r)' <=> d \in AtRoom("leave_mark", st, r) /\ listeners'[call[d].session].left
  BY DEF Late, AtRoom, At, Moves
<1>3. Late(st, r)' \subseteq Calls /\ AtRoom("leave_mark", st, r) \subseteq Calls
  BY DEF Late, AtRoom
<1> QED
  BY <1>1, <1>2, <1>3

LEMMA LateKept ==
  ASSUME Typed, SequenceInv, NEW c \in Calls, Moves(c), Effects(c), NEW st, NEW r,
         \/ call[c].pc = "upsert" \/ LeftKept
         \/ \E x : Marked(x) /\ ~(listeners[x].stream = st /\ listeners[x].room = r)
  PROVE  Late(st, r)' = Late(st, r) \ {c}
<1>1. ASSUME NEW d \in AtRoom("leave_mark", st, r)
      PROVE  listeners'[call[d].session].left = listeners[call[d].session].left
  <2> DEFINE s == call[d].session
  <2>1. s \in DOMAIN listeners /\ listeners[s].stream = st /\ listeners[s].room = r
    BY LeaverHoused
  <2>2. CASE call[c].pc = "upsert"
    <3>1. \A l \in DOMAIN listeners : listeners'[l] = listeners[l]
      BY <2>2, ListenerInserted
    <3> QED
      BY <2>1, <3>1
  <2>3. CASE LeftKept
    BY <2>1, <2>3 DEF LeftKept
  <2>4. ASSUME NEW x, Marked(x), ~(listeners[x].stream = st /\ listeners[x].room = r)
        PROVE  listeners'[s].left = listeners[s].left
    BY <2>1, <2>4 DEF Marked
  <2> QED
    BY <2>2, <2>3, <2>4
<1> QED
  BY <1>1, LateNext DEF Late

(* A listener that is marked while another leave of its socket is about to *)
(* mark it: the socket has departed, and each such leave but one comes     *)
(* with a departure.                                                       *)
LEMMA LateMarked ==
  ASSUME Typed, Typed', SequenceInv, LeavesPaired, SocketsFade, NEW c \in Calls, Moves(c), Effects(c),
         NEW st, NEW r, NEW x, Marked(x), listeners[x].stream = st, listeners[x].room = r
  PROVE  LET e == IF c \in Working(x, LeavePCs) THEN 0 ELSE 1 IN
         Cardinality(Late(st, r)') + Cardinality(Departed(st, r))
           <= Cardinality(Late(st, r)) + e + Cardinality(Departed(st, r)')
<1> DEFINE L == Late(st, r)  L1 == Late(st, r)'  D == Departed(st, r)  D1 == Departed(st, r)'
           W == Working(x, LeavePCs)
<1>1. L1 \subseteq L \cup (W \ {c})
  <2> SUFFICES ASSUME NEW d \in L1 PROVE d \in L \cup (W \ {c})
    OBVIOUS
  <2>1. d \in AtRoom("leave_mark", st, r) /\ d # c /\ listeners'[call[d].session].left
    BY LateNext
  <2>2. call[d].session \in DOMAIN listeners /\ d \in Working(call[d].session, LeavePCs)
    BY <2>1, LeaverHoused
  <2>3. CASE call[d].session = x
    BY <2>1, <2>2, <2>3
  <2>4. CASE call[d].session # x
    BY <2>1, <2>2, <2>4 DEF Marked, Late
  <2> QED
    BY <2>3, <2>4
<1>2. /\ IsFiniteSet(L) /\ Cardinality(L) \in Nat /\ IsFiniteSet(D) /\ Cardinality(D) \in Nat
  BY CountFinite
<1>3. IsFiniteSet(L1) /\ IsFiniteSet(D1) /\ Cardinality(L1) \in Nat /\ Cardinality(D1) \in Nat
  <2>1. L1 \subseteq Calls /\ D1 \subseteq Sessions
    BY DEF Late, AtRoom, Departed, Housed, Typed, ListenersOK
  <2> QED
    BY <2>1, FS_Subset, FS_CardinalityType
<1>4. D \subseteq D1 /\ Cardinality(D) <= Cardinality(D1)
  BY ListenersLast, HousedGrow
<1>5. x \in Sessions
  BY DEF Marked, Typed, ListenersOK
<1>6. CASE sockets[x].connected
  <2>1. \A d, e \in W : d = e
    BY <1>5, <1>6 DEF LeavesPaired
  <2>2. CASE c \in W
    <3>1. L1 \subseteq L
      BY <1>1, <2>1, <2>2
    <3>2. Cardinality(L1) <= Cardinality(L)
      BY <1>2, <3>1, FS_Subset
    <3> HIDE DEF L, L1, D, D1
    <3> QED
      BY <1>2, <1>3, <1>4, <2>2, <3>2 DEF L, L1, D, D1
  <2>3. CASE c \notin W
    <3>1. PICK d : L1 \subseteq L \cup {d}
      <4>1. CASE W = {}
        BY <1>1, <4>1
      <4>2. CASE W # {}
        <5>1. PICK d : d \in W
          BY <4>2
        <5> QED
          BY <1>1, <2>1, <5>1
      <4> QED
        BY <4>1, <4>2
    <3>2. Cardinality(L1) <= Cardinality(L) + 1
      <4> HIDE DEF L, L1
      <4> QED
        BY <1>2, <3>1, AtMostOneMore
    <3> QED
      BY <1>2, <1>3, <1>4, <2>3, <3>2
  <2> QED
    BY <2>2, <2>3
<1>7. CASE ~sockets[x].connected
  <2>1. D \cup {x} \subseteq D1 /\ x \notin D
    BY <1>4, <1>5, <1>7 DEF Departed, Housed, Marked, SocketsFade
  <2>2. Cardinality(D) + 1 <= Cardinality(D1)
    <3> HIDE DEF D, D1
    <3>1. Cardinality(D \cup {x}) = Cardinality(D) + 1
      BY <1>2, <2>1, FS_AddElement
    <3>2. Cardinality(D \cup {x}) <= Cardinality(D1)
      BY <1>3, <2>1, FS_Subset
    <3> QED
      BY <3>1, <3>2
  <2>3. PICK a, b : W \subseteq {a, b}
    BY <1>5 DEF LeavesPaired
  <2>4. CASE c \in W
    <3>1. PICK d : L1 \subseteq L \cup {d}
      BY <1>1, <2>3, <2>4
    <3>2. Cardinality(L1) <= Cardinality(L) + 1
      <4> HIDE DEF L, L1
      <4> QED
        BY <1>2, <3>1, AtMostOneMore
    <3> QED
      BY <1>2, <1>3, <2>2, <2>4, <3>2
  <2>5. CASE c \notin W
    <3> DEFINE M == L \cup {a}
    <3>1. L1 \subseteq M \cup {b}
      BY <1>1, <2>3
    <3>2. IsFiniteSet(M) /\ Cardinality(M) <= Cardinality(L) + 1
      <4> HIDE DEF L
      <4> QED
        BY <1>2, AtMostOneMore
    <3>3. Cardinality(L1) <= Cardinality(M) + 1 /\ Cardinality(M) \in Nat
      <4> HIDE DEF L, L1, M
      <4> QED
        BY <3>1, <3>2, AtMostOneMore, FS_CardinalityType
    <3> HIDE DEF M
    <3> QED
      BY <1>2, <1>3, <2>2, <2>5, <3>2, <3>3
  <2> QED
    BY <2>4, <2>5
<1> QED
  BY <1>6, <1>7

Unclosed(st) == \A c \in Calls : At(c, "close_rooms") => call[c].stream # st

(* The count with the joins that have still to increment it, and the       *)
(* listeners with the leaves that have still to decrement it.              *)
Counted(st, r) == rooms[st][r].currentCount + Cardinality(AtRoom("increment", st, r))
There(st, r) == Cardinality(Occupants(st, r)) + Cardinality(AtRoom("decrement", st, r))

(* The count lacks at most one for each departure and each socket cut off; *)
(* it never exceeds the listeners the room ever had, and while the stream  *)
(* is not closing it exceeds the present ones by the sockets cut off.      *)
CountHolds(st, r) ==
  /\ There(st, r) + Cardinality(Late(st, r))
       <= Counted(st, r) + Cardinality(Departed(st, r)) + Cardinality(Severed(st, r))
  /\ Counted(st, r) <= Cardinality(Housed(st, r))
  /\ Unclosed(st) => Counted(st, r) <= There(st, r) + Cardinality(Severed(st, r))

RoomsCounted == \A st \in Streams : \A r \in ActiveRooms(st) : CountHolds(st, r)

LEMMA CountNumbers ==
  ASSUME Typed, NEW st \in Streams, NEW r \in RoomNumbers(st)
  PROVE  /\ rooms[st][r].currentCount \in Int /\ Counted(st, r) \in Int /\ There(st, r) \in Nat
         /\ Cardinality(Late(st, r)) \in Nat /\ Cardinality(Departed(st, r)) \in Nat
         /\ Cardinality(Severed(st, r)) \in Nat /\ Cardinality(Housed(st, r)) \in Nat
<1>1. rooms[st][r].currentCount \in Int
  BY DEF Typed, RoomsOK, Room
<1> QED
  BY <1>1, CountFinite DEF Counted, There

(* How a step of a call changes the numbers of a room that stays open.     *)
LEMMA RoomStep ==
  ASSUME Typed, Typed', SequenceInv, LeavesPaired, SocketsFade, NEW c \in Calls, Moves(c), Effects(c),
         NEW st \in Streams, NEW r \in RoomNumbers(st), r \in DOMAIN rooms'[st], rooms'[st][r].isActive
  PROVE  \/ /\ Counted(st, r)' = Counted(st, r) + 1 /\ There(st, r)' = There(st, r) + 1
            /\ Cardinality(Late(st, r)') = Cardinality(Late(st, r))
            /\ Cardinality(Housed(st, r)') = Cardinality(Housed(st, r)) + 1
         \/ /\ Counted(st, r)' = Counted(st, r) /\ There(st, r)' = There(st, r)
            /\ Cardinality(Late(st, r)') + Cardinality(Departed(st, r))
                 <= Cardinality(Late(st, r)) + Cardinality(Departed(st, r)')
         \/ /\ Counted(st, r)' = Counted(st, r) /\ There(st, r)' = There(st, r) + 1
            /\ Cardinality(Late(st, r)') = Cardinality(Late(st, r)) - 1
         \/ /\ call[c].pc = "close_rooms" /\ call[c].stream = st
            /\ Counted(st, r)' = Counted(st, r) /\ There(st, r)' = There(st, r) - 1
            /\ Cardinality(Late(st, r)') + Cardinality(Departed(st, r))
                 <= Cardinality(Late(st, r)) + 1 + Cardinality(Departed(st, r)')
         \/ /\ Counted(st, r)' = Counted(st, r) - 1 /\ There(st, r)' = There(st, r) - 1
            /\ Cardinality(Late(st, r)') = Cardinality(Late(st, r))
<1> DEFINE I == AtRoom("increment", st, r)  D == AtRoom("decrement", st, r)  O == Occupants(st, r)
           H == Housed(st, r)  L == Late(st, r)  P == Departed(st, r)
           n == rooms[st][r].currentCount  s == call[c].session
<1>1. /\ IsFiniteSet(I) /\ IsFiniteSet(D) /\ IsFiniteSet(O) /\ IsFiniteSet(H) /\ IsFiniteSet(L)
      /\ Cardinality(I) \in Nat /\ Cardinality(D) \in Nat /\ Cardinality(O) \in Nat
      /\ Cardinality(H) \in Nat /\ Cardinality(L) \in Nat /\ Cardinality(P) \in Nat
      /\ n \in Int
  BY CountFinite, CountNumbers
<1>2. /\ call[c].pc = "increment" /\ Works(c, st, r) => n' = n + 1
      /\ call[c].pc = "decrement" /\ Works(c, st, r) => n' = n - 1
      /\ ~(call[c].pc \in {"increment", "decrement"} /\ Works(c, st, r)) => n' = n
  BY RoomAfter
<1>3. /\ I' = IF call[c].pc = "upsert" /\ Works(c, st, r) THEN I \cup {c} ELSE I \ {c}
      /\ D' = IF call[c].pc = "leave_mark" /\ Works(c, st, r) THEN D \cup {c} ELSE D \ {c}
  BY WorkersAfter
<1>4. /\ c \in I <=> call[c].pc = "increment" /\ Works(c, st, r)
      /\ c \in D <=> call[c].pc = "decrement" /\ Works(c, st, r)
  BY DEF AtRoom, At, Works
<1>5. c \in L => call[c].pc = "leave_mark" /\ Works(c, st, r) /\ ~Present(s)
  BY DEF Late, AtRoom, At, Works, Present
<1>6. Cardinality(P) <= Cardinality(P') /\ Cardinality(P') \in Nat
  <2>1. Cardinality(P) <= Cardinality(P')
    BY ListenersLast, HousedGrow
  <2>2. P' \subseteq Sessions
    BY DEF Departed, Housed, Typed, ListenersOK
  <2> QED
    BY <2>1, <2>2, FS_Subset, FS_CardinalityType
<1>7. /\ Counted(st, r) = n + Cardinality(I) /\ Counted(st, r)' = n' + Cardinality(I')
      /\ There(st, r) = Cardinality(O) + Cardinality(D)
      /\ There(st, r)' = Cardinality(O') + Cardinality(D')
  BY DEF Counted, There
<1>8. CASE call[c].pc = "upsert" /\ Works(c, st, r)
  <2>1. s \notin O /\ O' = O \cup {s} /\ s \notin H /\ H' = H \cup {s}
    BY <1>8, OccupantsAfter
  <2>2. L' = L
    BY <1>5, <1>8, LateKept
  <2>3. I' = I \cup {c} /\ c \notin I /\ D' = D /\ n' = n
    BY <1>2, <1>3, <1>4, <1>8
  <2> HIDE DEF I, D, O, H, L, P, n, s
  <2>4. Cardinality(O') = Cardinality(O) + 1 /\ Cardinality(H') = Cardinality(H) + 1
    BY <1>1, <2>1, FS_AddElement
  <2>5. Cardinality(I') = Cardinality(I) + 1
    BY <1>1, <2>3, FS_AddElement
  <2> QED
    BY <1>1, <1>7, <2>2, <2>3, <2>4, <2>5 DEF L, H
<1>9. CASE call[c].pc = "leave_mark" /\ Works(c, st, r) /\ Present(s)
  <2>1. Marked(s) /\ c \in Working(s, LeavePCs)
    BY <1>9, MarkOrKeep DEF Working, InFlight, LeavePCs
  <2>2. listeners[s].stream = st /\ listeners[s].room = r
    BY <1>9 DEF Works, SequenceInv, CallsSound, Sound, Leaving
  <2>3. s \in O /\ O' = O \ {s}
    BY <2>1, <2>2, OccupantsAfter
  <2>4. Cardinality(L') + Cardinality(P) <= Cardinality(L) + Cardinality(P')
    <3>1. Cardinality(L') + Cardinality(P) <= Cardinality(L) + 0 + Cardinality(P')
      BY <2>1, <2>2, LateMarked
    <3> QED
      BY <1>1, <3>1
  <2>5. D' = D \cup {c} /\ c \notin D /\ I' = I /\ n' = n
    BY <1>2, <1>3, <1>4, <1>9
  <2> HIDE DEF I, D, O, L, P, n, s
  <2>6. Cardinality(O') = Cardinality(O) - 1
    BY <1>1, <2>3, FS_RemoveElement
  <2>7. Cardinality(D') = Cardinality(D) + 1
    BY <1>1, <2>5, FS_AddElement
  <2>8. Counted(st, r)' = Counted(st, r) /\ There(st, r)' = There(st, r)
    BY <1>1, <1>7, <2>5, <2>6, <2>7
  <2> QED
    BY <2>4, <2>8 DEF L, P
<1>10. CASE call[c].pc = "leave_mark" /\ Works(c, st, r) /\ ~Present(s)
  <2>1. LeftKept
    BY <1>10, MarkOrKeep
  <2>2. O' = O /\ L' = L \ {c}
    BY <2>1, OccupantsAfter, LateKept
  <2>3. c \in L
    BY <1>10 DEF Late, AtRoom, At, Works, Present, Registered, SequenceInv, CallsSound, Sound, Leaving
  <2>4. D' = D \cup {c} /\ c \notin D /\ I' = I /\ n' = n
    BY <1>2, <1>3, <1>4, <1>10
  <2> HIDE DEF I, D, O, L, n
  <2>5. Cardinality(D') = Cardinality(D) + 1
    BY <1>1, <2>4, FS_AddElement
  <2>6. Cardinality(L') = Cardinality(L) - 1
    BY <1>1, <2>2, <2>3, FS_RemoveElement
  <2> QED
    BY <1>1, <1>7, <2>2, <2>4, <2>5, <2>6 DEF L
<1>11. CASE call[c].pc = "increment" /\ Works(c, st, r)
  <2>0. LeftKept
    BY <1>11, MarkOrKeep
  <2>1. O' = O /\ L' = L
    <3>1. O' = O /\ L' = L \ {c}
      BY <2>0, OccupantsAfter, LateKept
    <3> QED
      BY <1>5, <1>11, <3>1
  <2>2. I' = I \ {c} /\ c \in I /\ D' = D /\ n' = n + 1
    BY <1>2, <1>3, <1>4, <1>11
  <2> HIDE DEF I, D, O, L, P, n
  <2>3. Cardinality(I') = Cardinality(I) - 1
    BY <1>1, <2>2, FS_RemoveElement
  <2>4. Counted(st, r)' = Counted(st, r) /\ There(st, r)' = There(st, r)
    BY <1>1, <1>7, <2>1, <2>2, <2>3
  <2>5. Cardinality(L') + Cardinality(P) <= Cardinality(L) + Cardinality(P')
    BY <1>1, <1>6, <2>1
  <2> QED
    BY <2>4, <2>5 DEF L, P
<1>12. CASE call[c].pc = "decrement" /\ Works(c, st, r)
  <2>0. LeftKept
    BY <1>12, MarkOrKeep
  <2>1. O' = O /\ L' = L
    <3>1. O' = O /\ L' = L \ {c}
      BY <2>0, OccupantsAfter, LateKept
    <3> QED
      BY <1>5, <1>12, <3>1
  <2>2. D' = D \ {c} /\ c \in D /\ I' = I /\ n' = n - 1
    BY <1>2, <1>3, <1>4, <1>12
  <2> HIDE DEF I, D, O, L, n
  <2>3. Cardinality(D') = Cardinality(D) - 1
    BY <1>1, <2>2, FS_RemoveElement
  <2> QED
    BY <1>1, <1>7, <2>1, <2>2, <2>3 DEF L
<1>13. ASSUME NEW x, Marked(x), listeners[x].stream = st, listeners[x].room = r,
              call[c].pc = "close_rooms", call[c].stream = st
       PROVE  /\ Counted(st, r)' = Counted(st, r) /\ There(st, r)' = There(st, r) - 1
              /\ Cardinality(L') + Cardinality(P) <= Cardinality(L) + 1 + Cardinality(P')
  <2>1. c \notin Working(x, LeavePCs)
    BY <1>13 DEF Working, LeavePCs
  <2>2. x \in O /\ O' = O \ {x}
    BY <1>13, OccupantsAfter
  <2>3. Cardinality(L') + Cardinality(P) <= Cardinality(L) + 1 + Cardinality(P')
    BY <1>13, <2>1, LateMarked
  <2>4. D' = D /\ I' = I /\ n' = n
    BY <1>2, <1>3, <1>4, <1>13
  <2> HIDE DEF I, D, O, L, P, n
  <2>5. Cardinality(O') = Cardinality(O) - 1
    BY <1>1, <2>2, FS_RemoveElement
  <2>6. Counted(st, r)' = Counted(st, r) /\ There(st, r)' = There(st, r) - 1
    BY <1>1, <1>7, <2>4, <2>5
  <2> QED
    BY <2>3, <2>6
<1>14. ASSUME \/ call[c].pc = "upsert" \/ LeftKept
              \/ \E x : Marked(x) /\ ~(listeners[x].stream = st /\ listeners[x].room = r),
              ~(call[c].pc \in {"upsert", "leave_mark", "increment", "decrement"} /\ Works(c, st, r))
       PROVE  /\ Counted(st, r)' = Counted(st, r) /\ There(st, r)' = There(st, r)
              /\ Cardinality(L') + Cardinality(P) <= Cardinality(L) + Cardinality(P')
  <2>1. O' = O
    BY <1>14, OccupantsAfter
  <2>2. L' = L
    BY <1>5, <1>14, LateKept
  <2>3. I' = I /\ D' = D /\ n' = n
    BY <1>2, <1>3, <1>4, <1>14
  <2> HIDE DEF I, D, O, L, P, n
  <2> QED
    BY <1>1, <1>6, <1>7, <2>1, <2>2, <2>3
<1>15. CASE ~(call[c].pc \in {"upsert", "leave_mark", "increment", "decrement"} /\ Works(c, st, r))
  <2>1. CASE call[c].pc = "upsert"
    BY <1>14, <1>15, <2>1
  <2>2. CASE call[c].pc = "leave_mark"
    <3>1. ~(listeners[s].stream = st /\ listeners[s].room = r)
      BY <1>15, <2>2 DEF Works, SequenceInv, CallsSound, Sound, Leaving
    <3>2. LeftKept \/ Marked(s)
      BY <2>2, MarkOrKeep
    <3> QED
      BY <1>14, <1>15, <3>1, <3>2
  <2>3. CASE call[c].pc = "close_rooms"
    <3>1. CASE LeftKept
      BY <1>14, <1>15, <3>1
    <3>2. ASSUME NEW x, Marked(x), listeners[x].stream = call[c].stream
          PROVE  \/ /\ Counted(st, r)' = Counted(st, r) /\ There(st, r)' = There(st, r)
                    /\ Cardinality(L') + Cardinality(P) <= Cardinality(L) + Cardinality(P')
                 \/ /\ call[c].stream = st
                    /\ Counted(st, r)' = Counted(st, r) /\ There(st, r)' = There(st, r) - 1
                    /\ Cardinality(L') + Cardinality(P) <= Cardinality(L) + 1 + Cardinality(P')
      <4>1. CASE listeners[x].stream = st /\ listeners[x].room = r
        BY <1>13, <2>3, <3>2, <4>1
      <4>2. CASE ~(listeners[x].stream = st /\ listeners[x].room = r)
        BY <1>14, <1>15, <3>2, <4>2
      <4> QED
        BY <4>1, <4>2
    <3>3. LeftKept \/ \E x : Marked(x) /\ listeners[x].stream = call[c].stream
      BY <2>3, MarkOrKeep
    <3> QED
      BY <2>3, <3>1, <3>2, <3>3
  <2>4. CASE call[c].pc \notin {"upsert", "leave_mark", "close_rooms"}
    <3>1. LeftKept
      BY <2>4, MarkOrKeep
    <3> QED
      BY <1>14, <1>15, <3>1
  <2> QED
    BY <2>1, <2>2, <2>3, <2>4
<1> QED
  BY <1>8, <1>9, <1>10, <1>11, <1>12, <1>15


(* While a room stays open and no closing is under way, none was before. *)
LEMMA UnclosedBefore ==
  ASSUME Typed, NEW c \in Calls, Moves(c), Effects(c), NEW st \in Streams,
         NEW r \in RoomNumbers(st), r \in DOMAIN rooms'[st], rooms'[st][r].isActive, Unclosed(st)'
  PROVE  Unclosed(st) /\ ~(call[c].pc = "close_rooms" /\ call[c].stream = st)
<1>1. ~(call[c].pc = "close_rooms" /\ call[c].stream = st)
  <2> SUFFICES ASSUME call[c].pc = "close_rooms", call[c].stream = st PROVE FALSE
    OBVIOUS
  <2>1. CASE CloseRooms(c)
    <3>1. rooms'[st] = [n \in RoomNumbers(st) |-> [isActive |-> FALSE, currentCount |-> 0]]
      BY <2>1 DEF CloseRooms, SetRooms, Typed, RoomsOK
    <3> QED
      BY <3>1
  <2>2. ASSUME NEW s, CloseListener(c, s) PROVE FALSE
    <3>1. call'[c] = [call[c] EXCEPT !.todo = @ \ {s}] /\ call[c] \in Call
      BY <2>2 DEF CloseListener, Typed, CallsOK
    <3>2. call'[c].pc = "close_rooms" /\ call'[c].stream = st
      BY <3>1 DEF Call
    <3> QED
      BY <3>2 DEF Unclosed, At
  <2> QED
    BY <2>1, <2>2 DEF Effects
<1> QED
  BY <1>1 DEF Unclosed, At, Moves

(* The sessions of a room whose increment is pending have a socket of this *)
(* process, and those that departed are not present.                       *)
LEMMA RoomParts ==
  ASSUME Typed, SequenceInv, LostSockets, NEW st \in Streams, NEW r
  PROVE  /\ Cardinality(AtRoom("increment", st, r)) + Cardinality(Severed(st, r))
              <= Cardinality(Housed(st, r))
         /\ Cardinality(Occupants(st, r)) + Cardinality(Departed(st, r)) <= Cardinality(Housed(st, r))
<1> DEFINE I == AtRoom("increment", st, r)  O == Occupants(st, r)  H == Housed(st, r)
           P == Departed(st, r)  V == Severed(st, r)  of == [c \in I |-> call[c].session]
<1>1. /\ IsFiniteSet(I) /\ IsFiniteSet(O) /\ IsFiniteSet(H) /\ IsFiniteSet(P) /\ IsFiniteSet(V)
      /\ Cardinality(H) \in Nat
  BY CountFinite
<1>2. ASSUME NEW A, NEW B, IsFiniteSet(A), IsFiniteSet(B), A \cap B = {}, A \cup B \subseteq H
      PROVE  Cardinality(A) + Cardinality(B) <= Cardinality(H)
  <2> HIDE DEF H
  <2>1. Cardinality(A \cup B) <= Cardinality(H)
    BY <1>1, <1>2, FS_Subset
  <2>2. Cardinality(A \cup B) = Cardinality(A) + Cardinality(B) - Cardinality(A \cap B)
    BY <1>2, FS_Union
  <2>3. Cardinality(A \cap B) = 0
    BY <1>2, FS_EmptySet
  <2>4. Cardinality(A) \in Nat /\ Cardinality(B) \in Nat
    BY <1>2, FS_CardinalityType
  <2> QED
    BY <2>1, <2>2, <2>3, <2>4
<1>3. \A c \in I : of[c] \in H \ V
  <2> SUFFICES ASSUME NEW c \in I PROVE call[c].session \in H \ V
    OBVIOUS
  <2>1. c \in Calls /\ call[c].pc = "increment" /\ call[c].stream = st /\ call[c].room = r
    BY DEF AtRoom, At
  <2>2. call[c].session \in H
    BY <2>1 DEF SequenceInv, CallsSound, Sound, Counting, Housed
  <2>3. sockets[call[c].session].lost # "server"
    BY <2>1, <2>2 DEF LostSockets, Housed, Typed, ListenersOK
  <2> QED
    BY <2>2, <2>3 DEF Severed
<1>4. PICK J : J = {of[c] : c \in I}
  OBVIOUS
<1>5. IsFiniteSet(J) /\ Cardinality(J) = Cardinality(I)
  <2>1. of \in [I -> J]
    BY <1>4
  <2>2. \A c, d \in I : of[c] = of[d] => c = d
    BY DEF AtRoom, At, SequenceInv, OneJoinEach, JoinPCs
  <2> HIDE DEF of, I
  <2>3. \A t \in J : \E c \in I : of[c] = t
    BY <1>4
  <2>4. of \in Injection(I, J)
    BY <2>1, <2>2 DEF Injection, IsInjective
  <2>5. of \in Surjection(I, J)
    BY <2>1, <2>3 DEF Surjection
  <2>6. ExistsBijection(I, J)
    BY <2>4, <2>5 DEF ExistsBijection, Bijection
  <2> QED
    BY <1>1, <2>6, FS_Bijection
<1>6. J \cap V = {} /\ J \cup V \subseteq H
  <2>1. V \subseteq H
    BY DEF Severed
  <2> HIDE DEF V, H, I, of
  <2> QED
    BY <1>3, <1>4, <2>1
<1>7. Cardinality(I) + Cardinality(V) <= Cardinality(H)
  <2> HIDE DEF V, H, I, of
  <2> QED
    BY <1>1, <1>2, <1>5, <1>6
<1>8. O \cap P = {} /\ O \cup P \subseteq H
  BY DEF Occupants, Viewers, Departed, Housed
<1>9. Cardinality(O) + Cardinality(P) <= Cardinality(H)
  <2> HIDE DEF O, H, P
  <2> QED
    BY <1>1, <1>2, <1>8
<1> QED
  BY <1>7, <1>9

(* A restart: every socket that has a row is cut off.                      *)
LEMMA RestartCounted ==
  ASSUME Typed, Typed', SequenceInv, LostSockets, ServerRestart,
         NEW st \in Streams, NEW r \in ActiveRooms(st), CountHolds(st, r)
  PROVE  CountHolds(st, r)'
<1> DEFINE I == AtRoom("increment", st, r)  D == AtRoom("decrement", st, r)  O == Occupants(st, r)
           H == Housed(st, r)  P == Departed(st, r)  V == Severed(st, r)  L == Late(st, r)
           n == rooms[st][r].currentCount
<1>1. /\ Cardinality(I) \in Nat /\ Cardinality(D) \in Nat /\ Cardinality(O) \in Nat
      /\ Cardinality(H) \in Nat /\ Cardinality(P) \in Nat /\ Cardinality(V) \in Nat
      /\ Cardinality(L) \in Nat /\ n \in Int /\ IsFiniteSet(H) /\ IsFiniteSet(O)
  BY CountFinite, CountNumbers DEF ActiveRooms
<1>2. I' = {} /\ D' = {} /\ L' = {}
  BY RestartSevers DEF AtRoom, At, Idle, Late
<1>3. O' = O /\ H' = H /\ n' = n /\ V' = H /\ P' = H \ O
  BY RestartSevers DEF dbVars, Occupants, Viewers, Housed, Severed, Departed
<1>4. /\ Cardinality(I) + Cardinality(V) <= Cardinality(H)
      /\ Cardinality(O) + Cardinality(P) <= Cardinality(H)
  BY RoomParts
<1>5. /\ Cardinality(O) + Cardinality(D) + Cardinality(L)
           <= n + Cardinality(I) + Cardinality(P) + Cardinality(V)
      /\ n + Cardinality(I) <= Cardinality(H)
  BY DEF CountHolds, Counted, There
<1>6. Cardinality(P') = Cardinality(H) - Cardinality(O)
  <2>1. O \subseteq H
    BY DEF Occupants, Viewers, Housed
  <2> HIDE DEF O, H
  <2>2. H \cap O = O
    BY <2>1
  <2>3. Cardinality(H \ O) = Cardinality(H) - Cardinality(H \cap O)
    BY <1>1, FS_Difference
  <2> QED
    BY <1>3, <2>2, <2>3
<1>7. /\ Counted(st, r)' = n /\ There(st, r)' = Cardinality(O)
      /\ Cardinality(L') = 0 /\ Cardinality(V') = Cardinality(H) /\ Cardinality(H') = Cardinality(H)
  <2>1. Counted(st, r)' = n' + Cardinality(I') /\ There(st, r)' = Cardinality(O') + Cardinality(D')
    BY DEF Counted, There
  <2> HIDE DEF I, D, O, H, P, V, L, n
  <2> QED
    BY <1>1, <1>2, <1>3, <2>1, FS_EmptySet
<1> HIDE DEF I, D, O, H, n
<1>8. /\ There(st, r)' + Cardinality(L') <= Counted(st, r)' + Cardinality(P') + Cardinality(V')
      /\ Counted(st, r)' <= Cardinality(H')
      /\ Counted(st, r)' <= There(st, r)' + Cardinality(V')
  <2> HIDE DEF P, V, L
  <2> QED
    BY <1>1, <1>4, <1>5, <1>6, <1>7
<1> QED
  BY <1>8 DEF CountHolds, H

(* The balance of a room's counts over a step, in numbers. *)
LEMMA Balance ==
  ASSUME NEW C \in Int, NEW T \in Nat, NEW L \in Nat, NEW P \in Nat, NEW V \in Nat, NEW H \in Nat,
         NEW C1 \in Int, NEW T1 \in Nat, NEW L1 \in Nat, NEW P1 \in Nat, NEW V1 \in Nat, NEW H1 \in Nat,
         T + L <= C + P + V, C <= H, H <= H1, P <= P1, V <= V1, NEW closing \in BOOLEAN,
         \/ C1 = C + 1 /\ T1 = T + 1 /\ L1 = L /\ H1 = H + 1
         \/ C1 = C /\ T1 = T /\ L1 + P <= L + P1
         \/ C1 = C /\ T1 = T + 1 /\ L1 = L - 1
         \/ closing /\ C1 = C /\ T1 = T - 1 /\ L1 + P <= L + 1 + P1
         \/ C1 = C - 1 /\ T1 = T - 1 /\ L1 = L
  PROVE  /\ T1 + L1 <= C1 + P1 + V1 /\ C1 <= H1
         /\ ~closing /\ C <= T + V => C1 <= T1 + V1
  OBVIOUS

LEMMA CountStep ==
  ASSUME Typed, NEW st \in Streams, NEW r \in RoomNumbers(st), CountHolds(st, r), NEW closing \in BOOLEAN,
         /\ Counted(st, r)' \in Int /\ There(st, r)' \in Nat
         /\ Cardinality(Housed(st, r)') \in Nat /\ Cardinality(Late(st, r)') \in Nat
         /\ Cardinality(Departed(st, r)') \in Nat /\ Cardinality(Severed(st, r)') \in Nat,
         /\ Cardinality(Housed(st, r)) <= Cardinality(Housed(st, r)')
         /\ Cardinality(Departed(st, r)) <= Cardinality(Departed(st, r)')
         /\ Cardinality(Severed(st, r)) <= Cardinality(Severed(st, r)'),
         Unclosed(st)' => Unclosed(st) /\ ~closing,
         \/ /\ Counted(st, r)' = Counted(st, r) + 1 /\ There(st, r)' = There(st, r) + 1
            /\ Cardinality(Late(st, r)') = Cardinality(Late(st, r))
            /\ Cardinality(Housed(st, r)') = Cardinality(Housed(st, r)) + 1
         \/ /\ Counted(st, r)' = Counted(st, r) /\ There(st, r)' = There(st, r)
            /\ Cardinality(Late(st, r)') + Cardinality(Departed(st, r))
                 <= Cardinality(Late(st, r)) + Cardinality(Departed(st, r)')
         \/ /\ Counted(st, r)' = Counted(st, r) /\ There(st, r)' = There(st, r) + 1
            /\ Cardinality(Late(st, r)') = Cardinality(Late(st, r)) - 1
         \/ /\ closing
            /\ Counted(st, r)' = Counted(st, r) /\ There(st, r)' = There(st, r) - 1
            /\ Cardinality(Late(st, r)') + Cardinality(Departed(st, r))
                 <= Cardinality(Late(st, r)) + 1 + Cardinality(Departed(st, r)')
         \/ /\ Counted(st, r)' = Counted(st, r) - 1 /\ There(st, r)' = There(st, r) - 1
            /\ Cardinality(Late(st, r)') = Cardinality(Late(st, r))
  PROVE  CountHolds(st, r)'
<1> DEFINE C == Counted(st, r)  T == There(st, r)  H == Cardinality(Housed(st, r))
           L == Cardinality(Late(st, r))  P == Cardinality(Departed(st, r))
           V == Cardinality(Severed(st, r))
<1>1. C \in Int /\ T \in Nat /\ L \in Nat /\ P \in Nat /\ V \in Nat /\ H \in Nat
  BY CountNumbers
<1>2. /\ T + L <= C + P + V /\ C <= H /\ (Unclosed(st) => C <= T + V)
  BY DEF CountHolds
<1>3. /\ T' + L' <= C' + P' + V' /\ C' <= H'
      /\ ~closing /\ C <= T + V => C' <= T' + V'
  BY <1>1, <1>2, Balance
<1> QED
  BY <1>2, <1>3 DEF CountHolds

LEMMA NextRoomsCounted ==
  ASSUME Typed, Typed', SequenceInv, LostSockets, SocketsFade, LeavesPaired, RoomsCounted, [Next]_vars
  PROVE  RoomsCounted'
<1> SUFFICES ASSUME NEW st \in Streams, NEW r \in DOMAIN rooms'[st], rooms'[st][r].isActive
             PROVE  CountHolds(st, r)'
  BY DEF RoomsCounted, ActiveRooms, RoomNumbers
<1> DEFINE C == Counted(st, r)  T == There(st, r)  H == Cardinality(Housed(st, r))
           L == Cardinality(Late(st, r))  P == Cardinality(Departed(st, r))
           V == Cardinality(Severed(st, r))
<1>0. /\ C' \in Int /\ T' \in Nat /\ H' \in Nat /\ L' \in Nat /\ P' \in Nat /\ V' \in Nat
  <2>1. r \in Nat /\ r \in RoomNumbers(st)'
    BY DEF RoomNumbers, Typed, RoomsOK
  <2>2. rooms'[st][r].currentCount \in Int
    BY <2>1 DEF Typed, RoomsOK, Room
  <2>3. /\ Occupants(st, r)' \subseteq Sessions
        /\ Housed(st, r)' \subseteq Sessions /\ Departed(st, r)' \subseteq Sessions
        /\ Severed(st, r)' \subseteq Sessions /\ Late(st, r)' \subseteq Calls
        /\ AtRoom("increment", st, r)' \subseteq Calls /\ AtRoom("decrement", st, r)' \subseteq Calls
    BY DEF Occupants, Viewers, AtRoom, Housed, Departed, Severed, Late, Typed, ListenersOK
  <2>4. ASSUME NEW S, S \subseteq Sessions \/ S \subseteq Calls PROVE Cardinality(S) \in Nat
    BY <2>4, FS_Subset, FS_CardinalityType
  <2> QED
    BY <2>2, <2>3, <2>4 DEF Counted, There
<1>1. CASE UNCHANGED <<call, peak, total, rooms, listeners>>
  <2>1. r \in ActiveRooms(st) /\ (Unclosed(st)' => Unclosed(st))
    BY <1>1 DEF Unclosed, At, ActiveRooms, RoomNumbers
  <2>2. C' = C /\ T' = T /\ L' = L /\ H' = H
    BY <1>1 DEF Counted, There, AtRoom, At, Late, Occupants, Viewers, Housed
  <2>3. P <= P' /\ V <= V'
    BY <1>1, HousedGrow
  <2>4. CountHolds(st, r) /\ r \in RoomNumbers(st)
    BY <2>1 DEF RoomsCounted, ActiveRooms
  <2>5. C \in Int /\ T \in Nat /\ L \in Nat /\ P \in Nat /\ V \in Nat /\ H \in Nat
    BY <2>4, CountNumbers
  <2>6. L' + P <= L + P' /\ H <= H'
    BY <1>0, <2>2, <2>3, <2>5
  <2>7. FALSE \in BOOLEAN
    OBVIOUS
  <2> QED
    BY <1>0, <2>1, <2>2, <2>3, <2>4, <2>6, <2>7, CountStep
<1>2. ASSUME NEW c \in Calls, Moves(c), Effects(c) PROVE CountHolds(st, r)'
  <2>1. CASE r \notin RoomNumbers(st)
    <3>1. /\ rooms'[st][r].currentCount = 0
          /\ Occupants(st, r)' = {} /\ AtRoom("increment", st, r)' = {}
          /\ AtRoom("decrement", st, r)' = {} /\ AtRoom("leave_mark", st, r)' = {}
      BY <1>2, <2>1, NewRoomEmpty
    <3>2. Late(st, r)' = {}
      BY <3>1 DEF Late
    <3>3. C' = 0 /\ T' = 0 /\ L' = 0
      BY <3>1, <3>2, FS_EmptySet DEF Counted, There
    <3>4. /\ T' + L' <= C' + P' + V' /\ C' <= H' /\ C' <= T' + V'
      BY <1>0, <3>3
    <3> QED
      BY <3>4 DEF CountHolds
  <2>2. CASE r \in RoomNumbers(st)
    <3>1. CountHolds(st, r)
      BY <1>2, <2>2, RoomAfter DEF RoomsCounted
    <3>2. H <= H' /\ P <= P' /\ V <= V'
      BY <1>2, ListenersLast, HousedGrow
    <3> DEFINE closing == call[c].pc = "close_rooms" /\ call[c].stream = st
    <3>3. Unclosed(st)' => Unclosed(st) /\ ~closing
      BY <1>2, <2>2, UnclosedBefore
    <3>4. \/ C' = C + 1 /\ T' = T + 1 /\ L' = L /\ H' = H + 1
          \/ C' = C /\ T' = T /\ L' + P <= L + P'
          \/ C' = C /\ T' = T + 1 /\ L' = L - 1
          \/ closing /\ C' = C /\ T' = T - 1 /\ L' + P <= L + 1 + P'
          \/ C' = C - 1 /\ T' = T - 1 /\ L' = L
      BY <1>2, <2>2, RoomStep
    <3>5. closing \in BOOLEAN
      OBVIOUS
    <3> HIDE DEF closing
    <3> QED
      BY <1>0, <2>2, <3>1, <3>2, <3>3, <3>4, <3>5, CountStep
  <2> QED
    BY <2>1, <2>2
<1>3. CASE ServerRestart
  <2>1. r \in ActiveRooms(st)
    BY <1>3, RestartSevers DEF dbVars, ActiveRooms, RoomNumbers
  <2> QED
    BY <1>3, <2>1, RestartCounted DEF RoomsCounted
<1> QED
  BY <1>1, <1>2, <1>3, NextEffects

LEMMA InitRoomsCounted == Init => RoomsCounted
<1> SUFFICES ASSUME Init, NEW st \in Streams, NEW r \in ActiveRooms(st) PROVE CountHolds(st, r)
  BY DEF RoomsCounted
<1>1. /\ Occupants(st, r) = {} /\ Housed(st, r) = {} /\ Departed(st, r) = {} /\ Severed(st, r) = {}
      /\ \A pc : pc # "idle" => AtRoom(pc, st, r) = {}
  BY DEF Init, Occupants, Viewers, Housed, Departed, Severed, AtRoom, At, Idle
<1>2. rooms[st][r].currentCount = 0 /\ Late(st, r) = {}
  BY <1>1 DEF Init, ActiveRooms, RoomNumbers, Late
<1> QED
  BY <1>1, <1>2, FS_EmptySet DEF CountHolds, Counted, There

(* The inductive invariant of the counts. *)
CountInv == Typed /\ SequenceInv /\ LostSockets /\ LeavesPaired /\ RoomsCounted

LEMMA CountInvNext == InSequence /\ CountInv /\ [Next]_vars => CountInv'
  BY NextTyped, NextSequence, NextLost, NextPaired, NextRoomsCounted DEF CountInv

(* A room's currentCount differs from its present listeners only by the    *)
(* calls in flight, by the sockets that left it and disconnected, whose    *)
(* two leaves may both decrement it, and by the sockets a restart cut off: *)
(* for a client that sends no join, and no leave-stream, while its last    *)
(* one is in flight; its disconnect may come at any time.                  *)
THEOREM RoomCountAccurateCorrect ==
  ASSUME InSequence
  PROVE  Spec => []RoomCountAccurate
<1>1. Init => CountInv
  BY InitTyped, InitSequence, InitLost, InitPaired, InitRoomsCounted DEF CountInv
<1>2. CountInv => RoomCountAccurate
  <2> SUFFICES ASSUME Typed, NEW st \in Streams, NEW r \in ActiveRooms(st), CountHolds(st, r)
               PROVE  LET severed == Cardinality(Severed(st, r))
                      IN  /\ There(st, r) <= Counted(st, r) + Cardinality(Departed(st, r)) + severed
                          /\ Unclosed(st) => Counted(st, r) <= There(st, r) + severed
    BY DEF CountInv, RoomsCounted, RoomCountAccurate, There, Counted, Unclosed
  <2> HIDE DEF Counted, There
  <2> QED
    BY CountNumbers DEF CountHolds, ActiveRooms
<1> QED
  BY <1>1, <1>2, CountInvNext, InSequence, PTL DEF Spec

-----------------------------------------------------------------------------
(* How many listeners a room can hold beyond its capacity.                 *)

Upserting(st, r) == AtRoom("upsert", st, r)

Overshoot(st, r) ==
  Cardinality(Occupants(st, r)) + Cardinality(Upserting(st, r))
    < Capacity + Cardinality(Calls) + Cardinality(Departed(st, r)) + Cardinality(Severed(st, r))

LEMMA OvershootMeans ==
  OvershootBounded <=> \A st \in Streams : \A r \in RoomNumbers(st) : Overshoot(st, r)
  BY DEF OvershootBounded, Overshoot, Upserting

LEMMA AfterFinite ==
  ASSUME Typed', NEW st, NEW r
  PROVE  /\ IsFiniteSet(Occupants(st, r)') /\ Cardinality(Occupants(st, r)') \in Nat
         /\ Cardinality(Departed(st, r)') \in Nat /\ Cardinality(Severed(st, r)') \in Nat
         /\ IsFiniteSet(Upserting(st, r)') /\ Cardinality(Upserting(st, r)') \in Nat
         /\ Cardinality(Upserting(st, r)') <= Cardinality(Calls) /\ Cardinality(Calls) \in Nat
<1>1. /\ Occupants(st, r)' \subseteq Sessions /\ Departed(st, r)' \subseteq Sessions
      /\ Severed(st, r)' \subseteq Sessions /\ Upserting(st, r)' \subseteq Calls
  BY DEF Occupants, Viewers, Housed, Departed, Severed, Upserting, AtRoom, Typed, ListenersOK
<1> QED
  BY <1>1, FS_Subset, FS_CardinalityType

(* A room that has no more listeners and joins than before. *)
LEMMA OvershootKept ==
  ASSUME Typed, Typed', SocketsFade, NEW st \in Streams, NEW r, Overshoot(st, r),
         \A s \in DOMAIN listeners :
           /\ s \in DOMAIN listeners'
           /\ listeners'[s].stream = listeners[s].stream /\ listeners'[s].room = listeners[s].room
           /\ listeners[s].left => listeners'[s].left,
         Cardinality(Occupants(st, r)') + Cardinality(Upserting(st, r)')
           <= Cardinality(Occupants(st, r)) + Cardinality(Upserting(st, r))
  PROVE  Overshoot(st, r)'
<1> DEFINE O == Cardinality(Occupants(st, r))  U == Cardinality(Upserting(st, r))
           P == Cardinality(Departed(st, r))  V == Cardinality(Severed(st, r))
<1>1. P <= P' /\ V <= V'
  BY HousedGrow
<1>2. O \in Nat /\ U \in Nat /\ P \in Nat /\ V \in Nat
  BY CountFinite DEF Upserting
<1>3. O' \in Nat /\ U' \in Nat /\ P' \in Nat /\ V' \in Nat /\ Cardinality(Calls) \in Nat
  BY AfterFinite
<1>4. O' + U' < Capacity + Cardinality(Calls) + P' + V'
  BY <1>1, <1>2, <1>3, LiveRoomsAssumption DEF Overshoot
<1> QED
  BY <1>4 DEF Overshoot

(* Neither a listener nor a join comes in. *)
LEMMA NobodyComes ==
  ASSUME Typed, Typed', SocketsFade, NEW st \in Streams, NEW r, Overshoot(st, r),
         \A s \in DOMAIN listeners :
           /\ s \in DOMAIN listeners'
           /\ listeners'[s].stream = listeners[s].stream /\ listeners'[s].room = listeners[s].room
           /\ listeners[s].left => listeners'[s].left,
         Occupants(st, r)' \subseteq Occupants(st, r), Upserting(st, r)' \subseteq Upserting(st, r)
  PROVE  Overshoot(st, r)'
<1>1. /\ Cardinality(Occupants(st, r)') <= Cardinality(Occupants(st, r))
      /\ Cardinality(Upserting(st, r)') <= Cardinality(Upserting(st, r))
  BY CountFinite, FS_Subset DEF Upserting
<1>2. /\ Cardinality(Occupants(st, r)) \in Nat /\ Cardinality(Upserting(st, r)) \in Nat
      /\ Cardinality(Occupants(st, r)') \in Nat /\ Cardinality(Upserting(st, r)') \in Nat
  BY CountFinite, AfterFinite DEF Upserting
<1>3. Cardinality(Occupants(st, r)') + Cardinality(Upserting(st, r)')
        <= Cardinality(Occupants(st, r)) + Cardinality(Upserting(st, r))
  BY <1>1, <1>2
<1> QED
  BY <1>3, OvershootKept

(* A join chooses a room that has a free place by its count. *)
LEMMA RoomChosen ==
  ASSUME Typed, Typed', CountInv, SocketsFade, NEW c \in Calls, JoinFindRoom(c),
         NEW st \in Streams, NEW r \in RoomNumbers(st), Overshoot(st, r)
  PROVE  Overshoot(st, r)'
<1> DEFINE O == Occupants(st, r)  U == Upserting(st, r)  I == AtRoom("increment", st, r)
           P == Departed(st, r)  V == Severed(st, r)  n == rooms[st][r].currentCount
<1>0. /\ call \in [Calls -> Call] /\ call[c] \in Call /\ call[c].pc = "find_room"
      /\ \A d \in Calls \ {c} : call'[d] = call[d]
      /\ UNCHANGED <<rooms, listeners, sockets>>
  BY DEF Typed, CallsOK, JoinFindRoom, At, Goto, dbVars
<1>1. O' = O /\ P' = P /\ V' = V
  BY <1>0 DEF Occupants, Viewers, Departed, Severed, Housed
<1>2. CASE c \notin U'
  <2>1. U' \subseteq U
    BY <1>0, <1>2 DEF Upserting, AtRoom, At
  <2> QED
    BY <1>0, <1>1, <2>1, NobodyComes
<1>3. CASE c \in U'
  <2>1. r \in FreeRooms(st)
    <3>1. call'[c].pc = "upsert" /\ call'[c].stream = st /\ call'[c].room = r
      BY <1>3 DEF Upserting, AtRoom, At
    <3>2. ~Goto(c, "last_room")
      BY <1>0, <3>1 DEF Goto, Call
    <3>3. PICK q \in FreeRooms(call[c].stream) : call' = [call EXCEPT ![c].pc = "upsert", ![c].room = q]
      BY <3>2 DEF JoinFindRoom
    <3>4. call'[c].stream = call[c].stream /\ call'[c].room = q
      BY <1>0, <3>3 DEF Call
    <3> QED
      BY <3>1, <3>3, <3>4
  <2>2. n < Capacity /\ CountHolds(st, r)
    BY <2>1 DEF FreeRooms, CountInv, RoomsCounted
  <2>3. U' \cap I = {} /\ U' \cup I \subseteq Calls /\ IsFiniteSet(U') /\ IsFiniteSet(I)
    <3>1. U' \cap I = {} /\ U' \cup I \subseteq Calls
      BY <1>0 DEF Upserting, AtRoom, At
    <3> QED
      BY <3>1, FS_Subset
  <2>4. Cardinality(U') + Cardinality(I) <= Cardinality(Calls)
    <3> DEFINE W == U'
    <3>0. W \cap I = {} /\ W \cup I \subseteq Calls /\ IsFiniteSet(W) /\ IsFiniteSet(I)
      BY <2>3
    <3> HIDE DEF W, I
    <3>1. Cardinality(W \cup I) = Cardinality(W) + Cardinality(I) - Cardinality(W \cap I)
      BY <3>0, FS_Union
    <3>2. Cardinality(W \cup I) <= Cardinality(Calls)
      BY <3>0, FS_Subset
    <3>3. Cardinality(W \cap I) = 0 /\ Cardinality(W) \in Nat /\ Cardinality(I) \in Nat
      BY <3>0, FS_EmptySet, FS_CardinalityType
    <3>4. Cardinality(W) + Cardinality(I) <= Cardinality(Calls)
      BY <3>1, <3>2, <3>3
    <3> QED
      BY <3>4 DEF W
  <2>5. /\ Cardinality(O) \in Nat /\ Cardinality(I) \in Nat /\ Cardinality(P) \in Nat
        /\ Cardinality(V) \in Nat /\ n \in Int /\ Cardinality(Late(st, r)) \in Nat
        /\ Cardinality(AtRoom("decrement", st, r)) \in Nat
        /\ Cardinality(U') \in Nat /\ Cardinality(Calls) \in Nat /\ Capacity \in Nat
    BY CountFinite, CountNumbers, AfterFinite, LiveRoomsAssumption
  <2>6. Cardinality(O) <= n + Cardinality(I) + Cardinality(P) + Cardinality(V)
    BY <2>2, <2>5 DEF CountHolds, There, Counted
  <2>7. Cardinality(O) + Cardinality(U') < Capacity + Cardinality(Calls) + Cardinality(P) + Cardinality(V)
    BY <2>2, <2>4, <2>5, <2>6
  <2> QED
    BY <1>1, <2>7 DEF Overshoot
<1> QED
  BY <1>2, <1>3

LEMMA NextOvershoot ==
  ASSUME Typed, Typed', CountInv, SocketsFade, OvershootBounded, [Next]_vars
  PROVE  OvershootBounded'
<1>s. SUFFICES ASSUME NEW st \in Streams, NEW r \in RoomNumbers(st)' PROVE Overshoot(st, r)'
  BY DEF OvershootBounded, Overshoot, Upserting
<1>0. SequenceInv /\ (r \in RoomNumbers(st) => Overshoot(st, r))
  BY OvershootMeans DEF CountInv
<1> DEFINE O == Occupants(st, r)  U == Upserting(st, r)
<1>1. ASSUME UNCHANGED dbVars, \A d \in Calls : call'[d].pc = "upsert" => call'[d] = call[d]
      PROVE  Overshoot(st, r)'
  <2>1. O' = O /\ UNCHANGED <<listeners, rooms>>
    BY <1>1 DEF Occupants, Viewers, dbVars
  <2>2. U' \subseteq U
    BY <1>1 DEF Upserting, AtRoom, At
  <2>3. r \in RoomNumbers(st)
    BY <2>1 DEF RoomNumbers
  <2> QED
    BY <1>0, <2>1, <2>2, <2>3, NobodyComes
<1>2. ASSUME NEW c \in Calls, Step(c), ~JoinFindRoom(c) PROVE Overshoot(st, r)'
  <2>1. Moves(c) /\ Effects(c)
    BY <1>2, StepEffects
  <2>2. \A s \in DOMAIN listeners :
          /\ s \in DOMAIN listeners'
          /\ listeners'[s].stream = listeners[s].stream /\ listeners'[s].room = listeners[s].room
          /\ listeners[s].left => listeners'[s].left
    BY <1>0, <2>1, ListenersLast
  <2>3. CASE r \notin RoomNumbers(st)
    <3>1. O' = {}
      BY <1>0, <2>1, <2>3, NewRoomEmpty DEF RoomNumbers
    <3>2. Cardinality(O') = 0
      BY <3>1, FS_EmptySet
    <3> QED
      BY <3>2, AfterFinite, LiveRoomsAssumption DEF Overshoot
  <2>4. CASE r \in RoomNumbers(st)
    <3>1. U' \subseteq U
      <4> SUFFICES ASSUME NEW d \in Calls, call'[d].pc = "upsert", call'[d].stream = st, call'[d].room = r
                   PROVE  call[d].pc = "upsert" /\ call[d].stream = st /\ call[d].room = r
        BY DEF Upserting, AtRoom, At
      <4>1. CASE d # c
        BY <2>1, <4>1 DEF Moves
      <4>2. CASE d = c /\ ~JoinCreateRoom(c)
        <5>1. call[c].pc \in Coming /\ call'[c].stream = call[c].stream /\ call'[c].room = call[c].room
          BY <1>2, <4>2, StepEnters DEF NoEntryBut, Coming
        <5>2. call[c].pc # "increment"
          BY <2>1, <4>2 DEF Moves
        <5> QED
          BY <4>2, <5>1, <5>2 DEF Coming
      <4>3. CASE d = c /\ JoinCreateRoom(c)
        <5>1. call \in [Calls -> Call] /\ call[c] \in Call
          BY DEF Typed, CallsOK
        <5>2. ~Return(c)
          BY <4>3, <5>1 DEF Return, Idle
        <5>3. /\ NextRoomNumber(c) \notin RoomNumbers(call[c].stream)
              /\ call' = [call EXCEPT ![c].pc = "upsert", ![c].room = NextRoomNumber(c)]
          BY <4>3, <5>2 DEF JoinCreateRoom
        <5>4. call'[c].stream = call[c].stream /\ call'[c].room = NextRoomNumber(c)
          BY <5>1, <5>3 DEF Call
        <5> QED
          BY <2>4, <4>3, <5>3, <5>4
      <4> QED
        BY <4>1, <4>2, <4>3
    <3>2. CASE call[c].pc = "upsert" /\ Works(c, st, r)
      <4>1. O' = O \cup {call[c].session}
        BY <1>0, <2>1, <3>2, OccupantsAfter
      <4>2. U' \subseteq U \ {c} /\ c \in U
        BY <2>1, <3>1, <3>2 DEF Moves, Upserting, AtRoom, At, Works
      <4>3. IsFiniteSet(O) /\ IsFiniteSet(U) /\ Cardinality(O) \in Nat /\ Cardinality(U) \in Nat
        BY CountFinite DEF Upserting
      <4> DEFINE O1 == O'  U1 == U'
      <4>4. Cardinality(O1) <= Cardinality(O) + 1
        <5>1. O1 \subseteq O \cup {call[c].session}
          BY <4>1
        <5> HIDE DEF O, O1
        <5> QED
          BY <4>3, <5>1, AtMostOneMore
      <4>5. Cardinality(U1) <= Cardinality(U) - 1
        <5>1. U1 \subseteq U \ {c}
          BY <4>2
        <5> HIDE DEF U, U1
        <5>2. IsFiniteSet(U \ {c}) /\ Cardinality(U \ {c}) = Cardinality(U) - 1
          BY <4>2, <4>3, FS_RemoveElement
        <5>3. Cardinality(U1) <= Cardinality(U \ {c})
          BY <5>1, <5>2, FS_Subset
        <5> QED
          BY <5>2, <5>3
      <4>6. Cardinality(O') + Cardinality(U') <= Cardinality(O) + Cardinality(U)
        BY <4>3, <4>4, <4>5, AfterFinite
      <4> QED
        BY <1>0, <2>2, <2>4, <4>6, OvershootKept
    <3>3. CASE ~(call[c].pc = "upsert" /\ Works(c, st, r))
      <4>1. O' \subseteq O
        <5>1. CASE call[c].pc = "upsert"
          BY <1>0, <2>1, <3>3, <5>1, OccupantsAfter
        <5>2. CASE call[c].pc # "upsert"
          BY <2>1, <5>2, ListenersStay DEF Occupants, Viewers
        <5> QED
          BY <5>1, <5>2
      <4> QED
        BY <1>0, <2>2, <2>4, <3>1, <4>1, NobodyComes
    <3> QED
      BY <3>2, <3>3
  <2> QED
    BY <2>3, <2>4
<1>3. ASSUME NEW c \in Calls, JoinFindRoom(c) PROVE Overshoot(st, r)'
  <2>1. r \in RoomNumbers(st)
    BY <1>3 DEF JoinFindRoom, dbVars, RoomNumbers
  <2> QED
    BY <1>0, <1>3, <2>1, RoomChosen
<1>4. CASE UNCHANGED vars
  BY <1>1, <1>4 DEF vars, dbVars
<1>5. ASSUME NEW c \in Calls, Request(c) PROVE Overshoot(st, r)'
  <2>1. call'[c].pc # "upsert"
    BY <1>5, RequestStarts
  <2> QED
    BY <1>1, <1>5, <2>1, RequestStarts
<1>6. ASSUME NEW s \in Sessions, Disconnect(s) PROVE Overshoot(st, r)'
  BY <1>1, <1>6, DisconnectStarts
<1>7. CASE ServerRestart
  BY <1>1, <1>7, RestartSevers DEF Idle
<1> QED
  BY <1>2, <1>3, <1>4, <1>5, <1>6, <1>7 DEF Next

(* A room never holds more listeners than its capacity and the joins that  *)
(* were in flight when its last place was taken, but for one more for each *)
(* departure that was counted twice and each socket a restart cut off: the *)
(* reading of currentCount in joinRoom and its increment two calls later   *)
(* let no more in, for a client that sends no join, and no leave-stream,   *)
(* while its last one is in flight.                                        *)
THEOREM OvershootBoundedCorrect ==
  ASSUME InSequence
  PROVE  Spec => []OvershootBounded
<1>1. Init => CountInv /\ OvershootBounded
  <2>1. Init => CountInv
    BY InitTyped, InitSequence, InitLost, InitPaired, InitRoomsCounted DEF CountInv
  <2>2. ASSUME Init PROVE OvershootBounded
    <3>1. ASSUME NEW st \in Streams, NEW r PROVE Overshoot(st, r)
      <4>1. Occupants(st, r) = {} /\ Upserting(st, r) = {}
        BY <2>2 DEF Init, Occupants, Viewers, Upserting, AtRoom, At, Idle
      <4>2. /\ Cardinality(Departed(st, r)) \in Nat /\ Cardinality(Severed(st, r)) \in Nat
            /\ Cardinality(Calls) \in Nat
        BY <2>2, InitTyped, CountFinite, FS_CardinalityType
      <4> QED
        BY <4>1, <4>2, FS_EmptySet, LiveRoomsAssumption DEF Overshoot
    <3> QED
      BY <3>1, OvershootMeans
  <2> QED
    BY <2>1, <2>2
<1>2. CountInv /\ OvershootBounded /\ [Next]_vars => (CountInv /\ OvershootBounded)'
  <2> SUFFICES ASSUME CountInv, OvershootBounded, [Next]_vars PROVE (CountInv /\ OvershootBounded)'
    OBVIOUS
  <2>1. CountInv' /\ SocketsFade
    BY InSequence, CountInvNext, NextLost DEF CountInv
  <2>2. Typed /\ Typed'
    BY <2>1 DEF CountInv
  <2> QED
    BY <2>1, <2>2, NextOvershoot
<1> QED
  BY <1>1, <1>2, PTL DEF Spec
=============================================================================
