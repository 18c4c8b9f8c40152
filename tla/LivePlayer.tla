------------------------------ MODULE LivePlayer ------------------------------
(***************************************************************************)
(* The listener's page of one stream (LivePlayerPage.tsx).  It asks for    *)
(* the stream, opens a Socket.IO connection, joins a room and attaches an  *)
(* hls.js player to its audio element; it may change the room, lose the    *)
(* connection, and go away at any moment.  The page renders its audio      *)
(* element only when it neither loads nor shows an error.  Socket.IO       *)
(* (external) reconnects a connection the page did not close.              *)
(***************************************************************************)
EXTENDS Naturals, FiniteSets

CONSTANTS
  Connections,  \* results of io(), never used twice (bounds changes of room)
  Players,      \* instances of Hls, never used twice (bounds them)
  MaxDrops,     \* bounds the losses of a connection
  NoRef

ASSUME LivePlayerAssumption == MaxDrops \in Nat /\ NoRef \notin Connections \cup Players

VARIABLES
  view,         \* the state of the component
  fetch,        \* the request for the stream
  connection,   \* the Socket.IO connections
  socketRef,    \* socketRef.current
  player,       \* the Hls instances
  hlsRef,       \* hlsRef.current
  replaced,     \* the players whose reference another one took
  late,         \* the stream arrived when the page had gone
  drops         \* losses of a connection so far

playerVars == <<view, fetch, connection, socketRef, player, hlsRef, replaced, late, drops>>

View == [mounted : BOOLEAN, loading : BOOLEAN, isVOD : BOOLEAN, error : BOOLEAN,
         roomNumber : BOOLEAN, switchingRoom : BOOLEAN, source : BOOLEAN]
ConnectionState == {"unused", "connecting", "joining", "joined", "refused", "closed"}
PlayerState == {"unused", "attached", "destroyed"}

HasAudio == view.mounted /\ ~view.loading /\ ~view.error
Open == {c \in Connections : connection[c] \notin {"unused", "closed"}}
Attached == {h \in Players : player[h] = "attached"}

-----------------------------------------------------------------------------
(* Parts of the handlers. *)

(* setState of a component that is gone does nothing. *)
SetView(next) == view' = IF view.mounted THEN next ELSE view

ConnectSocket(old) ==
  \E c \in Connections :
    /\ old[c] = "unused"
    /\ connection' = [old EXCEPT ![c] = "connecting"]
    /\ socketRef' = c

CloseSocket == [c \in Connections |-> IF c = socketRef THEN "closed" ELSE connection[c]]
DestroyHls == [h \in Players |-> IF h = hlsRef THEN "destroyed" ELSE player[h]]

(* hls.js, where the browser supports it and the stream has a url. *)
InitHls ==
  \E h \in Players :
    /\ HasAudio /\ player[h] = "unused"
    /\ player' = [player EXCEPT ![h] = "attached"]
    /\ hlsRef' = h
    /\ replaced' = replaced \cup ({hlsRef} \cap Attached)

-----------------------------------------------------------------------------
(* Mutations. *)

(* The player of the old room goes on. *)
ChangeRoomKeepsHls ==
  /\ HasAudio /\ ~view.isVOD /\ view.roomNumber /\ ~view.switchingRoom
  /\ view' = [view EXCEPT !.switchingRoom = TRUE, !.error = FALSE]
  /\ ConnectSocket(CloseSocket)
  /\ hlsRef' = NoRef
  /\ UNCHANGED <<fetch, player, replaced, late, drops>>

(* A refusal leaves the button as it was. *)
JoinRefusedSwitching(c) ==
  /\ connection[c] = "joining"
  /\ connection' = [connection EXCEPT ![c] = "refused"]
  /\ SetView([view EXCEPT !.error = TRUE])
  /\ UNCHANGED <<fetch, socketRef, player, hlsRef, replaced, late, drops>>

-----------------------------------------------------------------------------
(* init, after its request. *)
StreamIsLive ==
  /\ fetch = "asked" /\ fetch' = "done"
  /\ ConnectSocket(connection)
  /\ SetView([view EXCEPT !.loading = FALSE])
  /\ late' = ~view.mounted
  /\ UNCHANGED <<player, hlsRef, replaced, drops>>

(* The source is given to the audio element if there is one. *)
StreamHasEnded(recorded) ==
  /\ fetch = "asked" /\ fetch' = "done"
  /\ SetView([view EXCEPT !.isVOD = TRUE, !.loading = FALSE,
                          !.source = recorded /\ HasAudio, !.error = ~recorded])
  /\ UNCHANGED <<connection, socketRef, player, hlsRef, replaced, late, drops>>

StreamUnavailable ==
  /\ fetch = "asked" /\ fetch' = "done"
  /\ SetView([view EXCEPT !.loading = FALSE, !.error = TRUE])
  /\ UNCHANGED <<connection, socketRef, player, hlsRef, replaced, late, drops>>

(* 'connect', the first time and after every reconnection: join-stream. *)
Connect(c) ==
  /\ connection[c] = "connecting"
  /\ connection' = [connection EXCEPT ![c] = "joining"]
  /\ UNCHANGED <<view, fetch, socketRef, player, hlsRef, replaced, late, drops>>

(* The server answers. *)
Joined(c) ==
  /\ connection[c] = "joining"
  /\ connection' = [connection EXCEPT ![c] = "joined"]
  /\ SetView([view EXCEPT !.roomNumber = TRUE, !.switchingRoom = FALSE])
  /\ InitHls \/ UNCHANGED <<player, hlsRef, replaced>>
  /\ UNCHANGED <<fetch, socketRef, late, drops>>

JoinRefused(c) ==
  /\ connection[c] = "joining"
  /\ connection' = [connection EXCEPT ![c] = "refused"]
  /\ SetView([view EXCEPT !.error = TRUE, !.switchingRoom = FALSE])
  /\ UNCHANGED <<fetch, socketRef, player, hlsRef, replaced, late, drops>>

(* Socket.IO will connect again. *)
LoseConnection(c) ==
  /\ connection[c] \in {"joining", "joined", "refused"} /\ drops < MaxDrops
  /\ connection' = [connection EXCEPT ![c] = "connecting"]
  /\ drops' = drops + 1
  /\ UNCHANGED <<view, fetch, socketRef, player, hlsRef, replaced, late>>

(* stream-status-changed, ENDED or CANCELLED. *)
StreamEnds(c) ==
  /\ connection[c] = "joined"
  /\ SetView([view EXCEPT !.error = TRUE])
  /\ UNCHANGED <<fetch, connection, socketRef, player, hlsRef, replaced, late, drops>>

(* A fatal error of a player, also of a replaced one. *)
HlsFails(h) ==
  /\ player[h] = "attached"
  /\ SetView([view EXCEPT !.error = TRUE])
  /\ UNCHANGED <<fetch, connection, socketRef, player, hlsRef, replaced, late, drops>>

ChangeRoom ==
  /\ HasAudio /\ ~view.isVOD /\ view.roomNumber /\ ~view.switchingRoom
  /\ view' = [view EXCEPT !.switchingRoom = TRUE, !.error = FALSE]
  /\ ConnectSocket(CloseSocket)
  /\ player' = DestroyHls /\ hlsRef' = NoRef
  /\ UNCHANGED <<fetch, replaced, late, drops>>

Unmount ==
  /\ view.mounted
  /\ view' = [view EXCEPT !.mounted = FALSE]
  /\ connection' = CloseSocket
  /\ player' = DestroyHls
  /\ UNCHANGED <<fetch, socketRef, hlsRef, replaced, late, drops>>

PlayerNext ==
  \/ StreamIsLive \/ StreamUnavailable \/ \E recorded \in BOOLEAN : StreamHasEnded(recorded)
  \/ \E c \in Connections : Connect(c) \/ Joined(c) \/ JoinRefused(c) \/ LoseConnection(c) \/ StreamEnds(c)
  \/ \E h \in Players : HlsFails(h)
  \/ ChangeRoom \/ Unmount

PlayerInit ==
  /\ view = [mounted |-> TRUE, loading |-> TRUE, isVOD |-> FALSE, error |-> FALSE,
             roomNumber |-> FALSE, switchingRoom |-> FALSE, source |-> FALSE]
  /\ fetch = "asked"
  /\ connection = [c \in Connections |-> "unused"] /\ socketRef = NoRef
  /\ player = [h \in Players |-> "unused"] /\ hlsRef = NoRef
  /\ replaced = {} /\ late = FALSE /\ drops = 0

(* Socket.IO tries to connect for ever, and the server answers.            *)
PlayerFairness ==
  \A c \in Connections : WF_playerVars(Connect(c)) /\ WF_playerVars(Joined(c) \/ JoinRefused(c))

PlayerSpec == PlayerInit /\ [][PlayerNext]_playerVars /\ PlayerFairness

-----------------------------------------------------------------------------
(* The state keeps its shape. *)
PlayerTypeOK ==
  /\ view \in View /\ fetch \in {"asked", "done"}
  /\ connection \in [Connections -> ConnectionState] /\ socketRef \in Connections \cup {NoRef}
  /\ player \in [Players -> PlayerState] /\ hlsRef \in Players \cup {NoRef}
  /\ replaced \subseteq Players /\ late \in BOOLEAN /\ drops \in Nat

(* Connections and players are reachable by the page's references only.    *)
(* However rooms are changed, one connection is open at a time; the page   *)
(* leaves one open only if its stream arrived after it had gone, and it    *)
(* loses hold of a player only when its connection was restored, at most   *)
(* one each time.                                                          *)
NothingLost ==
  /\ Open \subseteq {socketRef}
  /\ ~view.mounted /\ Open # {} => late
  /\ Attached \subseteq {hlsRef} \cup replaced
  /\ ~view.mounted => Attached \subseteq replaced
  /\ Cardinality(replaced) <= drops

(* A change of room comes to an end: the button works again, whatever      *)
(* happens to the connection and to the stream meanwhile.                  *)
SwitchingEnds == view.switchingRoom ~> (~view.switchingRoom \/ ~view.mounted)

(* "VOD icin direkt audio src kullan" (line 105): a page that shows the    *)
(* player of a recording has given it the recording.                       *)
RecordingLoaded == HasAudio /\ view.isVOD => view.source
===============================================================================
