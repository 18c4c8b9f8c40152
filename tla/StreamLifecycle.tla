---------------------------- MODULE StreamLifecycle ----------------------------
(***************************************************************************)
(* The operations a host has on its live streams: LiveStreamService        *)
(* (create, start, pause, resume, end, cancel) with what it keeps in the   *)
(* memory of the process: the auto-end timers, the FFmpeg encoders of      *)
(* HlsGeneratorService and the recorders of RecordingService.              *)
(*                                                                         *)
(* Each operation reads the stream, decides on what it read, and acts in   *)
(* later steps, an `await` apart; nothing keeps two operations, or an      *)
(* operation and a timer, from overlapping.  The rooms and their listeners *)
(* are in LiveRooms; here a stream's rooms are open or closed as a whole.  *)
(***************************************************************************)
EXTENDS Naturals, FiniteSets

CONSTANTS
  Streams,      \* ids of the streams one host creates
  Calls,        \* identities for the host's requests in flight (bounds them)
  Timeout,      \* the identity of the endStream a timer calls
  HostOps,      \* what the host does, a part of HostOperations
  TimersFire,   \* whether timers may fire
  Failures,     \* whether a database operation may fail
  Restarts,     \* whether the server process may restart
  MaxEncoders,  \* bound on the encoders started for a stream
  None          \* no stream

HostOperations == {"create", "start", "pause", "resume", "end", "cancel"}

ASSUME StreamLifecycleAssumption ==
  /\ IsFiniteSet(Calls)
  /\ HostOps \subseteq HostOperations
  /\ TimersFire \in BOOLEAN
  /\ Failures \in BOOLEAN
  /\ Restarts \in BOOLEAN
  /\ MaxEncoders \in Nat \ {0}
  /\ Timeout \notin Calls
  /\ None \notin Streams

VARIABLES
  status,        \* LiveStream.status, "NONE" when there is no row
  isRecorded,    \* LiveStream.isRecorded
  recordingUrl,  \* whether LiveStream.recordingUrl is set
  rooms,         \* the LiveRoom rows of a stream: "none", "open" or "closed"
  podcasts,      \* how many podcasts were created from a stream
  episodes,      \* how many episodes were created from a stream
  endTimers,     \* the timers: the map's entry, and those no entry points to
  hls,           \* encoders and upload intervals, and the maps' entries
  recorder,      \* whether activeRecordings has an entry
  raced,         \* history: the streams two ends worked on at once, or revived after one
  call           \* the calls in flight

vars == <<status, isRecorded, recordingUrl, rooms, podcasts, episodes,
          endTimers, hls, recorder, raced, call>>
rows == <<status, isRecorded, recordingUrl, rooms, podcasts, episodes>>
memory == <<endTimers, hls, recorder>>

Statuses == {"NONE", "SCHEDULED", "PREPARING", "LIVE", "PAUSED", "ENDED", "CANCELLED"}
ActiveStatuses == {"SCHEDULED", "PREPARING", "LIVE", "PAUSED"}
Startable == {"SCHEDULED", "PREPARING", "PAUSED"}
Endable == {"LIVE", "PAUSED"}
Cancellable == {"SCHEDULED", "PREPARING"}

PCs == {"idle", "insert", "first_room", "encode", "write_live", "arm", "pause", "resume",
        "stop", "convert", "write_ended", "close_rooms", "podcast", "episode",
        "cancel", "cancel_timer", "close_cancelled"}

Workers == Calls \cup {Timeout}

Encoders == 1 .. MaxEncoders
NoEntry == 0

Timers == [entry : {"none", "pending", "fired"}, orphans : Nat]
Hls == [spawned : 0 .. MaxEncoders,      \* encoders started so far
        running : SUBSET Encoders,       \* the FFmpeg processes
        killed : SUBSET Encoders,        \* those sent SIGTERM
        encoder : Encoders \cup {NoEntry},  \* activeEncoders' entry
        uploads : SUBSET Encoders,       \* the upload intervals, by their encoder
        upload : Encoders \cup {NoEntry}]   \* uploadIntervals' entry
Call == [pc : PCs, stream : Streams \cup {None}, url : BOOLEAN]

Idle == [pc |-> "idle", stream |-> None, url |-> FALSE]
NoTimers == [entry |-> "none", orphans |-> 0]
NoHls == [spawned |-> 0, running |-> {}, killed |-> {}, encoder |-> NoEntry,
          uploads |-> {}, upload |-> NoEntry]

-----------------------------------------------------------------------------
(* How a call moves on. *)

At(c, pc) == call[c].pc = pc

Goto(c, pc) == call' = [call EXCEPT ![c].pc = pc]

Return(c) == call' = [call EXCEPT ![c] = Idle]

Begin(c, pc, st) ==
  /\ At(c, "idle")
  /\ call' = [call EXCEPT ![c] = [Idle EXCEPT !.pc = pc, !.stream = st]]

SetStatus(st, new) == status' = [status EXCEPT ![st] = new]

Ongoing(pcs, st) == {c \in Workers : call[c].stream = st /\ call[c].pc \in pcs}

(* The calls of endStream that have still to write ENDED. *)
Ending(st) == Ongoing({"stop", "convert", "write_ended"}, st)

NoteRace(st, happened) == raced' = IF happened THEN raced \cup {st} ELSE raced

(* A write that may come after the stream has ended. *)
Revise(st, new) == SetStatus(st, new) /\ NoteRace(st, status[st] = "ENDED")

-----------------------------------------------------------------------------
(* HlsGeneratorService, RecordingService and the timers. *)

(* startEncoding: the maps' entries are overwritten, whatever they hold. *)
StartEncoding(st) ==
  LET e == hls[st].spawned + 1 IN
  /\ e <= MaxEncoders
  /\ hls' = [hls EXCEPT ![st].spawned = e, ![st].encoder = e, ![st].upload = e,
                        ![st].running = @ \cup {e}, ![st].uploads = @ \cup {e}]

(* stopEncoding: the encoder and the interval the maps point to. *)
Stopped(h) ==
  [h EXCEPT !.killed = @ \cup ({h.encoder} \ {NoEntry}), !.encoder = NoEntry,
            !.uploads = @ \ {h.upload}, !.upload = NoEntry]

StopEncoding(st) == hls' = [hls EXCEPT ![st] = Stopped(@)]

(* A timer already in the map is not cleared. *)
ArmTimer(st) ==
  endTimers' = [endTimers EXCEPT ![st] =
                  [entry |-> "pending",
                   orphans |-> IF @.entry = "pending" THEN @.orphans + 1 ELSE @.orphans]]

ClearTimer(st) == endTimers' = [endTimers EXCEPT ![st].entry = "none"]

-----------------------------------------------------------------------------
(* Mutations: bugs the runs must notice.  Each replaces the definition it  *)
(* is named after; none is part of the specification.                      *)

(* PAUSED is missing from the statuses of an active stream. *)
CreateStreamBesidePaused(c) ==
  /\ "create" \in HostOps
  /\ \A st \in Streams : status[st] \notin ActiveStatuses \ {"PAUSED"}
  /\ Begin(c, "insert", None)
  /\ UNCHANGED <<rows, memory, raced>>

(* The timer is set only with the recorder. *)
ArmRecordedOnly(c) ==
  LET st == call[c].stream IN
  /\ At(c, "arm")
  /\ recorder' = [recorder EXCEPT ![st] = @ \/ isRecorded[st]]
  /\ IF isRecorded[st] THEN ArmTimer(st) ELSE UNCHANGED endTimers
  /\ Return(c)
  /\ UNCHANGED <<rows, hls, raced>>

(* A stream that has not started may be ended. *)
EndStreamUnstarted(c, st) ==
  /\ "end" \in HostOps
  /\ status[st] \in ActiveStatuses
  /\ Begin(c, "stop", st)
  /\ NoteRace(st, Ending(st) # {})
  /\ UNCHANGED <<rows, memory>>

(* The URL is not stored. *)
WriteEndedWithoutUrl(c) ==
  /\ At(c, "write_ended")
  /\ SetStatus(call[c].stream, "ENDED")
  /\ Goto(c, "close_rooms")
  /\ UNCHANGED <<isRecorded, recordingUrl, rooms, podcasts, episodes, memory, raced>>

(* The timer is cleared after the status is written. *)
CloseRoomsClearsTimer(c) ==
  LET st == call[c].stream IN
  /\ At(c, "close_rooms")
  /\ rooms' = [rooms EXCEPT ![st] = IF @ = "open" THEN "closed" ELSE @]
  /\ IF isRecorded[st] THEN UNCHANGED hls ELSE StopEncoding(st)
  /\ ClearTimer(st)
  /\ IF isRecorded[st] /\ call[c].url THEN Goto(c, "podcast") ELSE Return(c)
  /\ UNCHANGED <<status, isRecorded, recordingUrl, podcasts, episodes, recorder, raced>>

(* The slug is not unique. *)
CreatePodcastAgain(c) ==
  /\ At(c, "podcast")
  /\ podcasts' = [podcasts EXCEPT ![call[c].stream] = @ + 1]
  /\ Goto(c, "episode")
  /\ UNCHANGED <<status, isRecorded, recordingUrl, rooms, episodes, memory, raced>>

-----------------------------------------------------------------------------
(* createStream. *)

CreateStream(c) ==
  /\ "create" \in HostOps
  /\ \A st \in Streams : status[st] \notin ActiveStatuses
  /\ Begin(c, "insert", None)
  /\ UNCHANGED <<rows, memory, raced>>

InsertStream(c) ==
  /\ At(c, "insert")
  /\ \E st \in Streams :
       /\ status[st] = "NONE"
       /\ \E new \in {"SCHEDULED", "PREPARING"} : SetStatus(st, new)
       /\ \E recorded \in BOOLEAN : isRecorded' = [isRecorded EXCEPT ![st] = recorded]
       /\ call' = [call EXCEPT ![c].pc = "first_room", ![c].stream = st]
  /\ UNCHANGED <<recordingUrl, rooms, podcasts, episodes, memory, raced>>

CreateFirstRoom(c) ==
  /\ At(c, "first_room")
  /\ rooms' = [rooms EXCEPT ![call[c].stream] = "open"]
  /\ Return(c)
  /\ UNCHANGED <<status, isRecorded, recordingUrl, podcasts, episodes, memory, raced>>

-----------------------------------------------------------------------------
(* startStream: a SCHEDULED, PREPARING or PAUSED stream. *)

StartStream(c, st) ==
  /\ "start" \in HostOps
  /\ status[st] \in Startable
  /\ Begin(c, "encode", st)
  /\ UNCHANGED <<rows, memory, raced>>

Encode(c) ==
  /\ At(c, "encode")
  /\ StartEncoding(call[c].stream)
  /\ Goto(c, "write_live")
  /\ UNCHANGED <<rows, endTimers, recorder, raced>>

WriteLive(c) ==
  /\ At(c, "write_live")
  /\ Revise(call[c].stream, "LIVE")
  /\ Goto(c, "arm")
  /\ UNCHANGED <<isRecorded, recordingUrl, rooms, podcasts, episodes, memory>>

(* The recorder is started, unless there is one, and the timer is set. *)
Arm(c) ==
  LET st == call[c].stream IN
  /\ At(c, "arm")
  /\ recorder' = [recorder EXCEPT ![st] = @ \/ isRecorded[st]]
  /\ ArmTimer(st)
  /\ Return(c)
  /\ UNCHANGED <<rows, hls, raced>>

-----------------------------------------------------------------------------
(* pauseStream and resumeStream. *)

PauseStream(c, st) ==
  /\ "pause" \in HostOps
  /\ status[st] = "LIVE"
  /\ Begin(c, "pause", st)
  /\ UNCHANGED <<rows, memory, raced>>

ResumeStream(c, st) ==
  /\ "resume" \in HostOps
  /\ status[st] = "PAUSED"
  /\ Begin(c, "resume", st)
  /\ UNCHANGED <<rows, memory, raced>>

WritePausedOrResumed(c) ==
  /\ \/ At(c, "pause") /\ Revise(call[c].stream, "PAUSED")
     \/ At(c, "resume") /\ Revise(call[c].stream, "LIVE")
  /\ Return(c)
  /\ UNCHANGED <<isRecorded, recordingUrl, rooms, podcasts, episodes, memory>>

-----------------------------------------------------------------------------
(* endStream, called by the host or by a timer. *)

EndStream(c, st) ==
  /\ "end" \in HostOps
  /\ status[st] \in Endable
  /\ Begin(c, "stop", st)
  /\ NoteRace(st, Ending(st) # {})
  /\ UNCHANGED <<rows, memory>>

(* A timer fires; its endStream is refused unless the stream is live or    *)
(* paused, and that is only logged.                                        *)
TimerFires(st) ==
  /\ TimersFire
  /\ At(Timeout, "idle")
  /\ \/ /\ endTimers[st].entry = "pending"
        /\ endTimers' = [endTimers EXCEPT ![st].entry = "fired"]
     \/ /\ endTimers[st].orphans > 0
        /\ endTimers' = [endTimers EXCEPT ![st].orphans = @ - 1]
  /\ IF status[st] \in Endable
       THEN Begin(Timeout, "stop", st) /\ NoteRace(st, Ending(st) # {})
       ELSE UNCHANGED <<raced, call>>
  /\ UNCHANGED <<rows, hls, recorder>>

(* Without a recorder stopRecording returns at once, with no URL. *)
Stop(c) ==
  LET st == call[c].stream IN
  /\ At(c, "stop")
  /\ StopEncoding(st)
  /\ IF isRecorded[st] /\ recorder[st]
       THEN Goto(c, "convert") /\ UNCHANGED endTimers
       ELSE Goto(c, "write_ended") /\ ClearTimer(st)
  /\ UNCHANGED <<rows, recorder, raced>>

(* The recording is converted and uploaded; what fails there only leaves   *)
(* the URL empty.                                                          *)
Convert(c) ==
  LET st == call[c].stream IN
  /\ At(c, "convert")
  /\ recorder' = [recorder EXCEPT ![st] = FALSE]
  /\ \E url \in BOOLEAN : call' = [call EXCEPT ![c].pc = "write_ended", ![c].url = url]
  /\ ClearTimer(st)
  /\ UNCHANGED <<rows, hls, raced>>

WriteEnded(c) ==
  LET st == call[c].stream IN
  /\ At(c, "write_ended")
  /\ SetStatus(st, "ENDED")
  /\ recordingUrl' = [recordingUrl EXCEPT ![st] = call[c].url]
  /\ Goto(c, "close_rooms")
  /\ UNCHANGED <<isRecorded, rooms, podcasts, episodes, memory, raced>>

(* Then the HLS files of a stream that is not recorded are cleaned up,     *)
(* which stops the encoding once more.                                     *)
CloseRooms(c) ==
  LET st == call[c].stream IN
  /\ At(c, "close_rooms")
  /\ rooms' = [rooms EXCEPT ![st] = IF @ = "open" THEN "closed" ELSE @]
  /\ IF isRecorded[st] THEN UNCHANGED hls ELSE StopEncoding(st)
  /\ IF isRecorded[st] /\ call[c].url THEN Goto(c, "podcast") ELSE Return(c)
  /\ UNCHANGED <<status, isRecorded, recordingUrl, podcasts, episodes, endTimers, recorder, raced>>

(* The slug is unique: a second podcast is refused, which is only logged. *)
CreatePodcast(c) ==
  LET st == call[c].stream IN
  /\ At(c, "podcast")
  /\ IF podcasts[st] = 0
       THEN podcasts' = [podcasts EXCEPT ![st] = 1] /\ Goto(c, "episode")
       ELSE UNCHANGED podcasts /\ Return(c)
  /\ UNCHANGED <<status, isRecorded, recordingUrl, rooms, episodes, memory, raced>>

CreateEpisode(c) ==
  /\ At(c, "episode")
  /\ episodes' = [episodes EXCEPT ![call[c].stream] = @ + 1]
  /\ Return(c)
  /\ UNCHANGED <<status, isRecorded, recordingUrl, rooms, podcasts, memory, raced>>

-----------------------------------------------------------------------------
(* cancelStream. *)

CancelStream(c, st) ==
  /\ "cancel" \in HostOps
  /\ status[st] \in Cancellable
  /\ Begin(c, "cancel", st)
  /\ UNCHANGED <<rows, memory, raced>>

WriteCancelled(c) ==
  /\ At(c, "cancel")
  /\ Revise(call[c].stream, "CANCELLED")
  /\ Goto(c, "cancel_timer")
  /\ UNCHANGED <<isRecorded, recordingUrl, rooms, podcasts, episodes, memory>>

CancelTimer(c) ==
  /\ At(c, "cancel_timer")
  /\ ClearTimer(call[c].stream)
  /\ Goto(c, "close_cancelled")
  /\ UNCHANGED <<rows, hls, recorder, raced>>

CloseCancelled(c) ==
  /\ At(c, "close_cancelled")
  /\ rooms' = [rooms EXCEPT ![call[c].stream] = IF @ = "open" THEN "closed" ELSE @]
  /\ Return(c)
  /\ UNCHANGED <<status, isRecorded, recordingUrl, podcasts, episodes, memory, raced>>

-----------------------------------------------------------------------------
(* What happens besides. *)

(* FFmpeg ends, killed or by itself; its close handler deletes the map's   *)
(* entry, be it its own or a later encoder's.                              *)
EncoderExits(st, e) ==
  /\ e \in hls[st].running
  /\ hls' = [hls EXCEPT ![st].running = @ \ {e}, ![st].killed = @ \ {e}, ![st].encoder = NoEntry]
  /\ UNCHANGED <<rows, endTimers, recorder, call, raced>>

(* A database operation fails and the call ends there. *)
Fails(c) ==
  /\ Failures
  /\ call[c].pc \in {"insert", "first_room", "write_live", "pause", "resume", "write_ended",
                     "close_rooms", "podcast", "episode", "cancel", "close_cancelled"}
  /\ Return(c)
  /\ UNCHANGED <<rows, memory, raced>>

(* The process restarts with nothing in memory: no timer is set again. *)
ServerRestart ==
  /\ Restarts
  /\ call' = [c \in Workers |-> Idle]
  /\ endTimers' = [st \in Streams |-> NoTimers]
  /\ hls' = [st \in Streams |-> NoHls]
  /\ recorder' = [st \in Streams |-> FALSE]
  /\ UNCHANGED <<rows, raced>>

Request(c) ==
  \/ CreateStream(c)
  \/ \E st \in Streams : \/ StartStream(c, st) \/ PauseStream(c, st) \/ ResumeStream(c, st)
                         \/ EndStream(c, st) \/ CancelStream(c, st)

Step(c) ==
  \/ InsertStream(c) \/ CreateFirstRoom(c)
  \/ Encode(c) \/ WriteLive(c) \/ Arm(c)
  \/ WritePausedOrResumed(c)
  \/ Stop(c) \/ Convert(c) \/ WriteEnded(c) \/ CloseRooms(c)
  \/ CreatePodcast(c) \/ CreateEpisode(c)
  \/ WriteCancelled(c) \/ CancelTimer(c) \/ CloseCancelled(c)

Next ==
  \/ \E c \in Calls : Request(c)
  \/ \E c \in Workers : Step(c) \/ Fails(c)
  \/ \E st \in Streams : TimerFires(st) \/ \E e \in Encoders : EncoderExits(st, e)
  \/ ServerRestart

Init ==
  /\ status = [st \in Streams |-> "NONE"]
  /\ isRecorded = [st \in Streams |-> TRUE]
  /\ recordingUrl = [st \in Streams |-> FALSE]
  /\ rooms = [st \in Streams |-> "none"]
  /\ podcasts = [st \in Streams |-> 0]
  /\ episodes = [st \in Streams |-> 0]
  /\ endTimers = [st \in Streams |-> NoTimers]
  /\ hls = [st \in Streams |-> NoHls]
  /\ recorder = [st \in Streams |-> FALSE]
  /\ raced = {}
  /\ call = [c \in Workers |-> Idle]

Spec == Init /\ [][Next]_vars

(* The database and FFmpeg answer, and the event loop runs a timer that    *)
(* is due.                                                                 *)
FairSpec ==
  /\ Spec
  /\ \A c \in Workers : WF_vars(Step(c))
  /\ \A st \in Streams : WF_vars(TimerFires(st))

-----------------------------------------------------------------------------
(* Properties.                                                             *)

(* Type invariant. *)
TypeOK ==
  /\ status \in [Streams -> Statuses]
  /\ isRecorded \in [Streams -> BOOLEAN]
  /\ recordingUrl \in [Streams -> BOOLEAN]
  /\ rooms \in [Streams -> {"none", "open", "closed"}]
  /\ podcasts \in [Streams -> Nat]
  /\ episodes \in [Streams -> Nat]
  /\ endTimers \in [Streams -> Timers]
  /\ hls \in [Streams -> Hls]
  /\ recorder \in [Streams -> BOOLEAN]
  /\ raced \subseteq Streams
  /\ call \in [Workers -> Call]

(* No call works on the stream. *)
Quiet(st) == \A c \in Workers : call[c].stream # st

(* A call that has passed its first step knows its stream. *)
CallsOnStreams == \A c \in Workers : call[c].pc \notin {"idle", "insert"} => call[c].stream \in Streams

(* Why AutoEndArmed holds: a live stream without its timer is about to get *)
(* one, or about to end.                                                   *)
LiveIsBound ==
  \A st \in Streams :
    status[st] = "LIVE" =>
      \/ endTimers[st].entry = "pending"
      \/ Ongoing({"arm", "stop", "convert", "write_ended"}, st) # {}

(* What a call has decided and not yet written. *)
Plan(c) ==
  LET pc == call[c].pc
      to(new) == [to |-> new, stream |-> call[c].stream]
  IN  CASE pc = "insert" -> to("NEW")
        [] pc \in {"encode", "write_live", "resume"} -> to("LIVE")
        [] pc = "pause" -> to("PAUSED")
        [] pc \in {"stop", "convert", "write_ended"} -> to("ENDED")
        [] pc \in {"close_rooms", "podcast"} /\ call[c].url -> to("PODCAST")
        [] pc = "cancel" -> to("CANCELLED")
        [] OTHER -> None

Life == INSTANCE Broadcast WITH
  NoPlan <- None,
  published <- {st \in Streams : podcasts[st] > 0},
  plan <- [c \in Workers |-> Plan(c)]

(* StreamLifecycle implements Broadcast, with overlapping requests, timers *)
(* that fire meanwhile, failing writes and restarts: nothing but a request *)
(* or a timer that found a status that allows it ever writes a status, and *)
(* nothing but an endStream that wrote ENDED publishes.                    *)
LifeSpec == Life!Spec

(* createStream, lines 60-77, checks that the host has no active stream    *)
(* and inserts one in a later call.  As many streams are active as         *)
(* requests overlap, at the most: a stale pause, resume or start that      *)
(* writes over an ended stream cannot add to what overlapping creations    *)
(* leave.  With one request at a time it is one stream.                    *)
ActiveBounded ==
  Cardinality({st \in Streams : status[st] \in ActiveStatuses}) <= Cardinality(Calls)

(* A recording becomes one podcast with one episode however many endStream *)
(* calls, of the host or of timers, overlap: only the first of them passes *)
(* the unique slug and goes on to the episode.                             *)
PublishedOnce ==
  \A st \in Streams :
    /\ podcasts[st] <= 1
    /\ episodes[st] + Cardinality(Ongoing({"episode"}, st)) <= podcasts[st]

(* A live stream at rest has its auto-end timer in the map: an endStream   *)
(* that overlaps a startStream never clears the timer of a stream that     *)
(* stays live.  It needs a host who only creates, starts and ends, and a   *)
(* database and a process that keep up: a resume that overlaps an end      *)
(* writes LIVE after the timer was cleared, a write of ENDED that fails    *)
(* comes after it too, and a restart takes all timers (AutoEnds).          *)
AutoEndArmed ==
  \A st \in Streams :
    status[st] = "LIVE" /\ Quiet(st) => endTimers[st].entry = "pending"

(* LiveBroadcastPage.tsx, line 701: the stream is closed automatically     *)
(* when its time is over.                                                  *)
AutoEnds == \A st \in Streams : status[st] = "LIVE" ~> status[st] = "ENDED"

(* endStream, line 254: the recording is stopped and its URL kept; an      *)
(* ended stream that became a podcast has its recording, unless            *)
(* two calls of endStream (the host's from two devices, or his and the     *)
(* timer's) worked on it at once, whose later write is null, or a stale    *)
(* write of another operation revived it, so that it ended twice.  No      *)
(* other overlap, failure or restart loses the URL.                        *)
RecordingKept ==
  \A st \in Streams : status[st] = "ENDED" /\ podcasts[st] > 0 /\ st \notin raced => recordingUrl[st]
================================================================================
