------------------------------- MODULE LiveRooms -------------------------------
(***************************************************************************)
(* The rooms of a live stream: RoomManagerService (joinRoom, leaveRoom,    *)
(* closeAllRooms) and the handlers of LiveStreamGateway that call it       *)
(* (join-stream, leave-stream, the socket's disconnect).                   *)
(*                                                                         *)
(* Every `await` on the database is a step of its own: a handler is a call *)
(* in flight, whose pc names the database operation it does next, and      *)
(* between two of its steps the steps of any other call may come.  Nothing *)
(* serialises the handlers of one socket either.  A database operation by  *)
(* itself is atomic.                                                       *)
(***************************************************************************)
EXTENDS Integers, FiniteSets

CONSTANTS
  Streams,             \* the live streams
  Sessions,            \* socket ids: the sessionId of a listener, never reused
  Calls,               \* identities for the calls in flight (bounds them)
  Capacity,            \* ROOM_CAPACITY
  MaxRooms,            \* MAX_ROOMS
  MaxCallsPerSession,  \* how many joins, and how many leave-streams, of one socket may overlap
  HostOps,             \* what the host may do: a part of {"pause", "resume", "end"}
  Restarts,            \* whether the server process may restart
  None                 \* no session, no stream

ASSUME LiveRoomsAssumption ==
  /\ IsFiniteSet(Sessions)
  /\ IsFiniteSet(Calls)
  /\ Capacity \in Nat \ {0}
  /\ MaxRooms \in Nat \ {0}
  /\ MaxCallsPerSession \in Nat \ {0}
  /\ HostOps \subseteq {"pause", "resume", "end"}
  /\ Restarts \in BOOLEAN
  /\ None \notin Streams \cup Sessions

VARIABLES
  status,     \* LiveStream.status of each stream
  peak,       \* LiveStream.peakViewers
  total,      \* LiveStream.totalViewers
  rooms,      \* the LiveRoom rows: rooms[st] is keyed by the number, unique in st
  listeners,  \* the LiveListener rows, keyed by their unique sessionId
  sockets,    \* the sockets: connected or not, client.data, channels joined
  call        \* the calls in flight

vars == <<status, peak, total, rooms, listeners, sockets, call>>
dbVars == <<status, peak, total, rooms, listeners>>

Statuses == {"LIVE", "PAUSED", "ENDED"}

JoinPCs == {"find_listener", "find_room", "last_room", "count_rooms", "create_room",
            "upsert", "increment", "count_viewers", "write_peak", "add_total", "ack"}
LeavePCs == {"leave_find", "leave_mark", "decrement"}
HostPCs == {"pause", "resume", "end", "close_find", "close_rooms"}

Room == [isActive : BOOLEAN, currentCount : Int]
Listener == [stream : Streams, room : Nat, left : BOOLEAN]
SocketState == [connected : BOOLEAN, stream : Streams \cup {None}, channels : SUBSET Streams,
                lost : {"no", "joining", "server"}]  \* history: whether it went away during
                                                     \* its own join, or with the process
Call == [pc : {"idle"} \cup JoinPCs \cup LeavePCs \cup HostPCs,
         session : Sessions \cup {None}, stream : Streams \cup {None},
         room : Nat,              \* the room chosen; at count_rooms and create_room the last one
         seen : Nat,              \* the viewer count read for the peak
         todo : SUBSET Sessions]  \* the listeners closeAllRooms has still to mark

Idle == [pc |-> "idle", session |-> None, stream |-> None, room |-> 0, seen |-> 0, todo |-> {}]

-----------------------------------------------------------------------------
(* Queries of the database. *)

RoomNumbers(st) == DOMAIN rooms[st]

ActiveRooms(st) == {n \in RoomNumbers(st) : rooms[st][n].isActive}

Registered(s) == s \in DOMAIN listeners

Present(s) == Registered(s) /\ ~listeners[s].left

Viewers(st) == {s \in DOMAIN listeners : listeners[s].stream = st /\ ~listeners[s].left}

(* The calls of one socket that have not returned, all or those of a kind. *)
InFlight(s) == {c \in Calls : call[c].session = s}
Working(s, pcs) == {c \in InFlight(s) : call[c].pc \in pcs}

MaySend(s, pcs) == Cardinality(Working(s, pcs)) < MaxCallsPerSession

-----------------------------------------------------------------------------
(* How a call moves on. *)

At(c, pc) == call[c].pc = pc

Goto(c, pc) == call' = [call EXCEPT ![c].pc = pc]

Return(c) == call' = [call EXCEPT ![c] = Idle]

Start(c, pc, s, st) ==
  /\ At(c, "idle")
  /\ call' = [call EXCEPT ![c] = [Idle EXCEPT !.pc = pc, !.session = s, !.stream = st]]

SetLeft(s, left) == listeners' = [listeners EXCEPT ![s].left = left]

SetRooms(st, rows) == rooms' = [rooms EXCEPT ![st] = rows]

(* update liveRoom: currentCount increment or decrement. *)
AddToRoom(c, n) ==
  LET st == call[c].stream  r == call[c].room
  IN  SetRooms(st, [rooms[st] EXCEPT ![r].currentCount = @ + n])

-----------------------------------------------------------------------------
(* Mutations: bugs the runs must notice.  Each replaces the definition it  *)
(* is named after; none is part of the specification.                      *)

(* `lte` for `lt` in the search for a free room. *)
FreeRoomsOffByOne(st) == {n \in ActiveRooms(st) : rooms[st][n].currentCount <= Capacity}

(* A session that left goes through a whole join again. *)
JoinFindListenerAnew(c) ==
  /\ At(c, "find_listener")
  /\ Goto(c, IF Present(call[c].session) THEN "ack" ELSE "find_room")
  /\ UNCHANGED <<dbVars, sockets>>

(* The last room number is read after the count, by the insert itself. *)
JoinCreateRoomFreshNumber(c) ==
  LET st == call[c].stream
      new == Cardinality(RoomNumbers(st)) + 1
  IN
  /\ At(c, "create_room")
  /\ SetRooms(st, [n \in RoomNumbers(st) \cup {new} |->
                IF n = new THEN [isActive |-> TRUE, currentCount |-> 0] ELSE rooms[st][n]])
  /\ call' = [call EXCEPT ![c].pc = "upsert", ![c].room = new]
  /\ UNCHANGED <<status, peak, total, listeners, sockets>>

(* A room number already taken is opened again instead of refused. *)
JoinCreateRoomUpserts(c) ==
  LET st == call[c].stream
      new == call[c].room + 1
  IN
  /\ At(c, "create_room")
  /\ SetRooms(st, [n \in RoomNumbers(st) \cup {new} |->
                IF n = new THEN [isActive |-> TRUE, currentCount |-> 0] ELSE rooms[st][n]])
  /\ call' = [call EXCEPT ![c].pc = "upsert", ![c].room = new]
  /\ UNCHANGED <<status, peak, total, listeners, sockets>>

(* The peak is taken from the joined room instead of the stream. *)
JoinCountRoomViewers(c) ==
  /\ At(c, "count_viewers")
  /\ call' = [call EXCEPT ![c].pc = "write_peak",
        ![c].seen = Cardinality({s \in Viewers(call[c].stream) : listeners[s].room = call[c].room})]
  /\ UNCHANGED <<dbVars, sockets>>

(* client.data.streamId is not set. *)
JoinAckForgets(c) ==
  /\ At(c, "ack")
  /\ sockets' = [sockets EXCEPT ![call[c].session].channels = @ \cup {call[c].stream}]
  /\ Return(c)
  /\ UNCHANGED dbVars

(* leftAt is not looked at. *)
LeaveFindAgain(c) ==
  LET s == call[c].session IN
  /\ At(c, "leave_find")
  /\ IF Registered(s)
       THEN call' = [call EXCEPT ![c].pc = "leave_mark", ![c].stream = listeners[s].stream,
                                 ![c].room = listeners[s].room]
       ELSE Return(c)
  /\ UNCHANGED <<dbVars, sockets>>

-----------------------------------------------------------------------------
(* The choice of a room. *)

FreeRooms(st) == {n \in ActiveRooms(st) : rooms[st][n].currentCount < Capacity}

NextRoomNumber(c) == call[c].room + 1

-----------------------------------------------------------------------------
(* join-stream: handleJoinStream and RoomManagerService.joinRoom.          *)

(* The event arrives and getStream reads the status; a stream that is not  *)
(* LIVE is answered with an error and nothing changes.                     *)
JoinStream(c, s, st) ==
  /\ sockets[s].connected
  /\ MaySend(s, JoinPCs)
  /\ status[st] = "LIVE"
  /\ Start(c, "find_listener", s, st)
  /\ UNCHANGED <<dbVars, sockets>>

(* A session that already has a row, of whatever stream and whether or not *)
(* it left, gets its room back without a write.                            *)
JoinFindListener(c) ==
  /\ At(c, "find_listener")
  /\ Goto(c, IF Registered(call[c].session) THEN "ack" ELSE "find_room")
  /\ UNCHANGED <<dbVars, sockets>>

JoinFindRoom(c) ==
  LET free == FreeRooms(call[c].stream) IN
  /\ At(c, "find_room")
  /\ \/ \E r \in free :
          /\ \A q \in free : r <= q
          /\ call' = [call EXCEPT ![c].pc = "upsert", ![c].room = r]
     \/ free = {} /\ Goto(c, "last_room")
  /\ UNCHANGED <<dbVars, sockets>>

JoinLastRoom(c) ==
  LET numbers == RoomNumbers(call[c].stream) IN
  /\ At(c, "last_room")
  /\ \E r \in numbers \cup {0} :
        /\ \A q \in numbers : q <= r
        /\ call' = [call EXCEPT ![c].pc = "count_rooms", ![c].room = r]
  /\ UNCHANGED <<dbVars, sockets>>

JoinCountRooms(c) ==
  /\ At(c, "count_rooms")
  /\ IF Cardinality(ActiveRooms(call[c].stream)) >= MaxRooms
       THEN Return(c)              \* 'Tum odalar dolu': the handler answers an error
       ELSE Goto(c, "create_room")
  /\ UNCHANGED <<dbVars, sockets>>

(* The unique constraint on (streamId, roomNumber) refuses a second room   *)
(* of one number; the handler then answers an error.                       *)
JoinCreateRoom(c) ==
  LET st == call[c].stream
      new == NextRoomNumber(c)
  IN
  /\ At(c, "create_room")
  /\ IF new \in RoomNumbers(st)
       THEN Return(c) /\ UNCHANGED rooms
       ELSE /\ SetRooms(st, [n \in RoomNumbers(st) \cup {new} |->
                   IF n = new THEN [isActive |-> TRUE, currentCount |-> 0] ELSE rooms[st][n]])
            /\ call' = [call EXCEPT ![c].pc = "upsert", ![c].room = new]
  /\ UNCHANGED <<status, peak, total, listeners, sockets>>

(* The row is created in the room chosen, or, when it appeared meanwhile,  *)
(* only its leftAt is cleared: it keeps the room it has.                   *)
JoinUpsert(c) ==
  LET s == call[c].session
      new == [stream |-> call[c].stream, room |-> call[c].room, left |-> FALSE]
  IN
  /\ At(c, "upsert")
  /\ IF Registered(s)
       THEN SetLeft(s, FALSE)
       ELSE listeners' = [l \in DOMAIN listeners \cup {s} |-> IF l = s THEN new ELSE listeners[l]]
  /\ Goto(c, "increment")
  /\ UNCHANGED <<status, peak, total, rooms, sockets>>

JoinIncrement(c) ==
  /\ At(c, "increment")
  /\ AddToRoom(c, 1)
  /\ Goto(c, "count_viewers")
  /\ UNCHANGED <<status, peak, total, listeners, sockets>>

(* updatePeakViewers: count, then write if the stored peak is smaller. *)
JoinCountViewers(c) ==
  /\ At(c, "count_viewers")
  /\ call' = [call EXCEPT ![c].pc = "write_peak", ![c].seen = Cardinality(Viewers(call[c].stream))]
  /\ UNCHANGED <<dbVars, sockets>>

JoinWritePeak(c) ==
  LET st == call[c].stream IN
  /\ At(c, "write_peak")
  /\ peak' = IF peak[st] < call[c].seen THEN [peak EXCEPT ![st] = call[c].seen] ELSE peak
  /\ call' = [call EXCEPT ![c].pc = "add_total", ![c].seen = 0]
  /\ UNCHANGED <<status, total, rooms, listeners, sockets>>

JoinAddTotal(c) ==
  /\ At(c, "add_total")
  /\ total' = [total EXCEPT ![call[c].stream] = @ + 1]
  /\ Goto(c, "ack")
  /\ UNCHANGED <<status, peak, rooms, listeners, sockets>>

(* Only now does the socket join the stream's channel and remember the     *)
(* stream in client.data.                                                  *)
JoinAck(c) ==
  LET s == call[c].session  st == call[c].stream IN
  /\ At(c, "ack")
  /\ sockets' = [sockets EXCEPT ![s].stream = st, ![s].channels = @ \cup {st}]
  /\ Return(c)
  /\ UNCHANGED dbVars

-----------------------------------------------------------------------------
(* leave-stream and disconnect: RoomManagerService.leaveRoom.              *)

LeaveStream(c, s) ==
  /\ sockets[s].connected
  /\ MaySend(s, LeavePCs)
  /\ sockets' = [sockets EXCEPT ![s].channels = @ \ {sockets[s].stream}]
  /\ Start(c, "leave_find", s, None)
  /\ UNCHANGED dbVars

(* The socket goes at any time, also while its join or its leave-stream is *)
(* in flight.  The room is left only if it already carries a stream.       *)
Disconnect(s) ==
  /\ sockets[s].connected
  /\ sockets' = [sockets EXCEPT ![s].connected = FALSE, ![s].channels = {},
                    ![s].lost = IF Working(s, JoinPCs) = {} THEN "no" ELSE "joining"]
  /\ IF sockets[s].stream = None
       THEN UNCHANGED call
       ELSE \E c \in Calls : Start(c, "leave_find", s, None)
  /\ UNCHANGED dbVars

LeaveFind(c) ==
  LET s == call[c].session IN
  /\ At(c, "leave_find")
  /\ IF Present(s)
       THEN call' = [call EXCEPT ![c].pc = "leave_mark", ![c].stream = listeners[s].stream,
                                 ![c].room = listeners[s].room]
       ELSE Return(c)
  /\ UNCHANGED <<dbVars, sockets>>

LeaveMark(c) ==
  /\ At(c, "leave_mark")
  /\ SetLeft(call[c].session, TRUE)
  /\ Goto(c, "decrement")
  /\ UNCHANGED <<status, peak, total, rooms, sockets>>

LeaveDecrement(c) ==
  /\ At(c, "decrement")
  /\ AddToRoom(c, -1)
  /\ Return(c)
  /\ UNCHANGED <<status, peak, total, listeners, sockets>>

-----------------------------------------------------------------------------
(* The host: pauseStream, resumeStream and endStream read the status and   *)
(* write the new one in a later step; endStream then closes the rooms.     *)

HostOp(c, st, pc, from) ==
  /\ pc \in HostOps
  /\ status[st] \in from
  /\ Start(c, pc, None, st)
  /\ UNCHANGED <<dbVars, sockets>>

PauseStream(c, st) == HostOp(c, st, "pause", {"LIVE"})
ResumeStream(c, st) == HostOp(c, st, "resume", {"PAUSED"})
EndStream(c, st) == HostOp(c, st, "end", {"LIVE", "PAUSED"})

SetStatus(c, new) ==
  /\ status' = [status EXCEPT ![call[c].stream] = new]
  /\ UNCHANGED <<peak, total, rooms, listeners, sockets>>

WritePaused(c) == At(c, "pause") /\ SetStatus(c, "PAUSED") /\ Return(c)
WriteLive(c) == At(c, "resume") /\ SetStatus(c, "LIVE") /\ Return(c)
WriteEnded(c) == At(c, "end") /\ SetStatus(c, "ENDED") /\ Goto(c, "close_find")

(* closeAllRooms: the listeners present now are marked one by one, then    *)
(* all rooms are deactivated at once.                                      *)
CloseFind(c) ==
  /\ At(c, "close_find")
  /\ call' = [call EXCEPT ![c].pc = "close_rooms", ![c].todo = Viewers(call[c].stream)]
  /\ UNCHANGED <<dbVars, sockets>>

CloseListener(c, s) ==
  /\ At(c, "close_rooms")
  /\ s \in call[c].todo
  /\ SetLeft(s, TRUE)
  /\ call' = [call EXCEPT ![c].todo = @ \ {s}]
  /\ UNCHANGED <<status, peak, total, rooms, sockets>>

CloseRooms(c) ==
  LET st == call[c].stream IN
  /\ At(c, "close_rooms")
  /\ call[c].todo = {}
  /\ SetRooms(st, [n \in RoomNumbers(st) |-> [isActive |-> FALSE, currentCount |-> 0]])
  /\ Return(c)
  /\ UNCHANGED <<status, peak, total, listeners, sockets>>

-----------------------------------------------------------------------------
(* A socket without a trace may as well be one that connects later. *)
Unused(s) ==
  sockets[s].connected /\ sockets[s].stream = None /\ ~Registered(s) /\ InFlight(s) = {}

(* The server process restarts: its calls and its sockets are gone, with   *)
(* no disconnect handler run; the database keeps its rows.                 *)
ServerRestart ==
  /\ Restarts
  /\ call' = [c \in Calls |-> Idle]
  /\ sockets' = [s \in Sessions |-> IF Unused(s) THEN sockets[s] ELSE
        [connected |-> FALSE, stream |-> None, channels |-> {}, lost |-> "server"]]
  /\ UNCHANGED dbVars

(* A step a call in flight takes when its database operation answers. *)
Step(c) ==
  \/ JoinFindListener(c) \/ JoinFindRoom(c) \/ JoinLastRoom(c) \/ JoinCountRooms(c)
  \/ JoinCreateRoom(c) \/ JoinUpsert(c) \/ JoinIncrement(c) \/ JoinCountViewers(c)
  \/ JoinWritePeak(c) \/ JoinAddTotal(c) \/ JoinAck(c)
  \/ LeaveFind(c) \/ LeaveMark(c) \/ LeaveDecrement(c)
  \/ WritePaused(c) \/ WriteLive(c) \/ WriteEnded(c)
  \/ CloseFind(c) \/ (\E s \in Sessions : CloseListener(c, s)) \/ CloseRooms(c)

Request(c) ==
  \/ \E s \in Sessions, st \in Streams : JoinStream(c, s, st)
  \/ \E s \in Sessions : LeaveStream(c, s)
  \/ \E st \in Streams : PauseStream(c, st) \/ ResumeStream(c, st) \/ EndStream(c, st)

Next ==
  \/ \E c \in Calls : Step(c) \/ Request(c)
  \/ \E s \in Sessions : Disconnect(s)
  \/ ServerRestart

(* A stream gets room 1 when it is created, unless the process stopped     *)
(* right before.                                                           *)
Init ==
  /\ status = [st \in Streams |-> "LIVE"]
  /\ peak = [st \in Streams |-> 0]
  /\ total = [st \in Streams |-> 0]
  /\ \E first \in [Streams -> {0, 1}] :
       rooms = [st \in Streams |-> [n \in 1 .. first[st] |-> [isActive |-> TRUE, currentCount |-> 0]]]
  /\ listeners = [s \in {} |-> None]
  /\ sockets = [s \in Sessions |-> [connected |-> TRUE, stream |-> None, channels |-> {}, lost |-> "no"]]
  /\ call = [c \in Calls |-> Idle]

Spec == Init /\ [][Next]_vars

-----------------------------------------------------------------------------
(* Properties.                                                             *)

(* Type invariant: rows, sockets and calls have the shape the code gives   *)
(* them; a room number is positive and a stream has finitely many rooms.   *)
TypeOK ==
  /\ status \in [Streams -> Statuses]
  /\ peak \in [Streams -> Nat]
  /\ total \in [Streams -> Nat]
  /\ DOMAIN rooms = Streams
  /\ \A st \in Streams :
       /\ RoomNumbers(st) \subseteq Nat \ {0}
       /\ IsFiniteSet(RoomNumbers(st))
       /\ rooms[st] \in [RoomNumbers(st) -> Room]
  /\ DOMAIN listeners \subseteq Sessions
  /\ listeners \in [DOMAIN listeners -> Listener]
  /\ sockets \in [Sessions -> SocketState]
  /\ call \in [Calls -> Call]

(* A stream never has more than MAX_ROOMS active rooms, however many       *)
(* listeners join at once: no lock guards the allocation in joinRoom, only *)
(* the order of its two reads (last room number first, active rooms after) *)
(* and the unique room number.                                             *)
RoomsBounded == \A st \in Streams : Cardinality(ActiveRooms(st)) <= MaxRooms

(* The rooms of a stream are numbered without a gap, so that the number    *)
(* after the last one read by a stale join is either free or refused.      *)
RoomsNumberedInOrder ==
  \A st \in Streams : RoomNumbers(st) = 1 .. Cardinality(RoomNumbers(st))

(* The joins that have chosen a room and not yet incremented its count. *)
Entering(st, r) ==
  {c \in Calls : call[c].pc \in {"upsert", "increment"} /\ call[c].stream = st /\ call[c].room = r}

(* joinRoom reads currentCount and increments it two calls later, so that  *)
(* a count can exceed the capacity; it never does by more than the joins   *)
(* that can be in flight besides the one that takes the last place,        *)
(* whatever calls of one socket overlap.  It is a bound on the stored      *)
(* count; OvershootBounded below is the one on the listeners.              *)
CountBounded ==
  \A st \in Streams : \A r \in RoomNumbers(st) :
    rooms[st][r].currentCount + Cardinality(Entering(st, r)) < Capacity + Cardinality(Calls)

(* A call knows the session and the stream it works on. *)
CallsAddressed ==
  \A c \in Calls :
    /\ call[c].pc \in JoinPCs \cup LeavePCs => call[c].session \in Sessions
    /\ call[c].pc \in JoinPCs \cup HostPCs \cup {"leave_mark", "decrement"}
         => call[c].stream \in Streams

(* The last room number a join has read is one the stream (still) has. *)
LastRoomExists ==
  \A c \in Calls : call[c].pc \in {"count_rooms", "create_room"}
    => call[c].room \in RoomNumbers(call[c].stream) \cup {0}

(* A join that is about to insert a room whose number is free inserted     *)
(* nothing else since it counted: had another join opened a room after the *)
(* last number was read, the number would be taken.                        *)
CountStillValid ==
  \A c \in Calls : At(c, "create_room") /\ NextRoomNumber(c) \notin RoomNumbers(call[c].stream)
    => Cardinality(ActiveRooms(call[c].stream)) < MaxRooms

(* The inductive invariant of the allocation: why joinRoom, lines 71-82,   *)
(* needs no lock to stay within MAX_ROOMS although it acts on a stale      *)
(* count.                                                                  *)
AllocationInv ==
  /\ TypeOK
  /\ CallsAddressed
  /\ RoomsNumberedInOrder
  /\ LastRoomExists
  /\ CountStillValid
  /\ RoomsBounded

(* The allocation of rooms by concurrent joins is the atomic one.          *)
Allocation ==
  INSTANCE RoomAllocation WITH
    opened <- [st \in Streams |-> Cardinality(RoomNumbers(st))],
    active <- [st \in Streams |-> ActiveRooms(st)]

(* LiveRooms implements RoomAllocation: read, count and insert of joinRoom *)
(* (lines 71-82) act together as one atomic allocation, and a closed room  *)
(* is never active again.                                                  *)
AllocationSpec == Allocation!Spec

Occupants(st, r) == {s \in Viewers(st) : listeners[s].room = r}
AtRoom(pc, st, r) == {c \in Calls : At(c, pc) /\ call[c].stream = st /\ call[c].room = r}

Housed(st, r) == {s \in DOMAIN listeners : listeners[s].stream = st /\ listeners[s].room = r}

(* The sockets that left the room and disconnected, as a closing page does *)
(* at once, and those of a process that is gone.                           *)
Departed(st, r) == {s \in Housed(st, r) : listeners[s].left /\ ~sockets[s].connected}
Severed(st, r) == {s \in Housed(st, r) : sockets[s].lost = "server"}

(* How far currentCount of an active room is from its present listeners,   *)
(* apart from the joins that have still to increment it and the leaves     *)
(* that have still to decrement it.  It falls short by at most one for     *)
(* each departed socket, whose leave-stream and disconnect may both have   *)
(* found it present.  It is too high, except while closeAllRooms runs, by  *)
(* at most one for each socket of a process that was restarted; and such a *)
(* socket may also lack its increment.  It needs that a socket sends no    *)
(* join while its join is in flight, and likewise for leave-stream.        *)
RoomCountAccurate ==
  \A st \in Streams : \A r \in ActiveRooms(st) :
    LET counted == rooms[st][r].currentCount + Cardinality(AtRoom("increment", st, r))
        there == Cardinality(Occupants(st, r)) + Cardinality(AtRoom("decrement", st, r))
        severed == Cardinality(Severed(st, r))
    IN  /\ there <= counted + Cardinality(Departed(st, r)) + severed
        /\ (\A c \in Calls : At(c, "close_rooms") => call[c].stream # st)
             => counted <= there + severed

(* The listeners a room may hold in the end: its capacity, the joins that  *)
(* were in flight when the last place was taken, and one more for each     *)
(* departure that may have been counted twice.                             *)
OvershootBounded ==
  \A st \in Streams : \A r \in RoomNumbers(st) :
    Cardinality(Occupants(st, r)) + Cardinality(AtRoom("upsert", st, r))
      < Capacity + Cardinality(Calls)
          + Cardinality(Departed(st, r)) + Cardinality(Severed(st, r))

(* A socket that is gone is no present listener once its calls have        *)
(* returned (handleDisconnect: 'Dinleyiciyi odadan cikar'), whatever calls *)
(* of it overlapped, unless it went while its own join was in flight or    *)
(* with the process: client.data.streamId is set at the end of a join.     *)
NoGhostListeners ==
  \A s \in Sessions :
    ~sockets[s].connected /\ sockets[s].lost = "no" /\ InFlight(s) = {} => ~Present(s)

(* peakViewers is at least the present number of viewers, those of a       *)
(* process that was restarted apart, unless a join is still between its    *)
(* upsert and the update of the peak: the two unlocked steps of            *)
(* updatePeakViewers lose no maximum that lasts.                           *)
PeakCoversViewers ==
  \A st \in Streams :
    (\A c \in Calls : call[c].pc \in {"increment", "count_viewers", "write_peak"}
                        => call[c].stream # st)
    => Cardinality({s \in Viewers(st) : sockets[s].lost # "server"}) <= peak[st]

(* The conditional update of the peak never lowers it, whatever stale      *)
(* count it writes.                                                        *)
PeakNeverFalls == [][\A st \in Streams : peak'[st] >= peak[st]]_vars

(* totalViewers counts every session of the stream once: leaving and       *)
(* joining again adds nothing, and it lacks only joins that have still to  *)
(* add to it and those a restart cut off.                                  *)
TotalCountsSessions ==
  \A st \in Streams :
    LET sessions == {s \in DOMAIN listeners : listeners[s].stream = st}
        counted == total[st] + Cardinality({c \in Calls : call[c].stream = st
                     /\ call[c].pc \in {"increment", "count_viewers", "write_peak", "add_total"}})
    IN  /\ counted <= Cardinality(sessions)
        /\ Cardinality({s \in sessions : sockets[s].lost # "server"}) <= counted

=============================================================================
