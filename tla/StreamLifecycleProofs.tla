------------------------ MODULE StreamLifecycleProofs ------------------------
(***************************************************************************)
(* Theorems about StreamLifecycle, for every number of streams and of      *)
(* overlapping operations.                                                 *)
(***************************************************************************)
EXTENDS StreamLifecycle, FiniteSetTheorems, TLAPS

USE StreamLifecycleAssumption

Assigned == {"first_room", "encode", "write_live", "arm", "pause", "resume", "stop", "convert",
             "write_ended", "close_rooms", "podcast", "episode", "cancel", "cancel_timer",
             "close_cancelled"}

CallsOK == call \in [Workers -> Call] /\ CallsOnStreams

RowsOK ==
  /\ status \in [Streams -> Statuses]
  /\ isRecorded \in [Streams -> BOOLEAN]
  /\ recordingUrl \in [Streams -> BOOLEAN]
  /\ rooms \in [Streams -> {"none", "open", "closed"}]
  /\ podcasts \in [Streams -> Nat]
  /\ episodes \in [Streams -> Nat]

TimersOK == endTimers \in [Streams -> Timers]
HlsOK == hls \in [Streams -> Hls]
RecorderOK == recorder \in [Streams -> BOOLEAN]

Typed == CallsOK /\ RowsOK /\ TimersOK /\ HlsOK /\ RecorderOK

RacedOK == raced \subseteq Streams

LEMMA TypeParts == TypeOK /\ CallsOnStreams <=> Typed /\ RacedOK
  BY DEF TypeOK, Typed, CallsOK, RowsOK, TimersOK, HlsOK, RecorderOK, RacedOK

-----------------------------------------------------------------------------
(* What the parts of a step do to the types.                               *)

LEMMA ReturnTyped ==
  ASSUME CallsOK, NEW c \in Workers, Return(c)
  PROVE  CallsOK'
  BY DEF CallsOK, CallsOnStreams, Return, Idle, Call, PCs

LEMMA GotoTyped ==
  ASSUME CallsOK, NEW c \in Workers, NEW pc \in Assigned, call[c].stream \in Streams, Goto(c, pc)
  PROVE  CallsOK'
<1> DEFINE k == [call[c] EXCEPT !.pc = pc]
<1>1. k \in Call /\ k.stream \in Streams
  BY DEF CallsOK, Call, PCs, Assigned
<1>2. call' = [call EXCEPT ![c] = k]
  BY DEF Goto
<1> HIDE DEF k
<1> QED
  BY <1>1, <1>2 DEF CallsOK, CallsOnStreams

LEMMA BeginTyped ==
  ASSUME CallsOK, NEW c \in Workers, NEW st, NEW pc, Begin(c, pc, st),
         \/ pc = "insert" /\ st = None
         \/ pc \in Assigned /\ st \in Streams
  PROVE  CallsOK'
<1> DEFINE k == [Idle EXCEPT !.pc = pc, !.stream = st]
<1>1. k \in Call /\ (k.pc \notin {"idle", "insert"} => k.stream \in Streams)
  BY DEF Idle, Call, PCs, Assigned
<1>2. call' = [call EXCEPT ![c] = k]
  BY DEF Begin
<1> HIDE DEF k
<1> QED
  BY <1>1, <1>2 DEF CallsOK, CallsOnStreams

LEMMA ArmTimerTyped ==
  ASSUME TimersOK, NEW st, ArmTimer(st)
  PROVE  TimersOK'
<1> DEFINE t == endTimers[st]
           armed == [entry |-> "pending",
                     orphans |-> IF t.entry = "pending" THEN t.orphans + 1 ELSE t.orphans]
<1>1. endTimers' = [endTimers EXCEPT ![st] = armed]
  BY DEF ArmTimer
<1>2. st \in Streams => armed \in Timers
  <2>1. st \in Streams => t.orphans \in Nat
    BY DEF TimersOK, Timers
  <2> QED
    BY <2>1 DEF Timers
<1> HIDE DEF armed
<1> QED
  BY <1>1, <1>2 DEF TimersOK

LEMMA ClearTimerTyped ==
  ASSUME TimersOK, NEW st, ClearTimer(st)
  PROVE  TimersOK'
<1> DEFINE t == [endTimers[st] EXCEPT !.entry = "none"]
<1>1. st \in Streams => t \in Timers
  BY DEF TimersOK, Timers
<1>2. endTimers' = [endTimers EXCEPT ![st] = t]
  BY DEF ClearTimer
<1> HIDE DEF t
<1> QED
  BY <1>1, <1>2 DEF TimersOK

LEMMA StopEncodingTyped ==
  ASSUME HlsOK, NEW st, StopEncoding(st)
  PROVE  HlsOK'
<1>1. CASE st \in Streams
  <2>1. hls[st] \in Hls
    BY <1>1 DEF HlsOK
  <2>2. Stopped(hls[st]) \in Hls
    BY <2>1 DEF Stopped, Hls, NoEntry, Encoders
  <2> QED
    BY <2>2 DEF StopEncoding, HlsOK
<1>2. CASE st \notin Streams
  BY <1>2 DEF StopEncoding, HlsOK
<1> QED
  BY <1>1, <1>2

LEMMA StartEncodingTyped ==
  ASSUME HlsOK, NEW st \in Streams, StartEncoding(st)
  PROVE  HlsOK'
<1> DEFINE e == hls[st].spawned + 1
           h == [hls[st] EXCEPT !.spawned = e, !.encoder = e, !.upload = e,
                   !.running = @ \cup {e}, !.uploads = @ \cup {e}]
<1>1. hls[st] \in Hls
  BY DEF HlsOK
<1>2. e \in Encoders /\ e \in 0 .. MaxEncoders
  <2>1. hls[st].spawned \in Nat
    BY <1>1 DEF Hls
  <2>2. hls[st].spawned + 1 <= MaxEncoders
    BY DEF StartEncoding
  <2> QED
    BY <2>1, <2>2 DEF Encoders
<1>3. h \in Hls
  <2> HIDE DEF e
  <2>1. /\ hls[st].running \in SUBSET Encoders
        /\ hls[st].uploads \in SUBSET Encoders
    BY <1>1 DEF Hls
  <2>2. /\ hls[st].running \cup {e} \in SUBSET Encoders
        /\ hls[st].uploads \cup {e} \in SUBSET Encoders
        /\ e \in Encoders \cup {NoEntry}
    BY <1>2, <2>1
  <2> HIDE DEF Encoders
  <2> QED
    BY <1>1, <1>2, <2>2 DEF Hls
<1>4. hls' = [hls EXCEPT ![st] = h]
  BY <1>1 DEF StartEncoding, HlsOK, Hls
<1> HIDE DEF h
<1> QED
  BY <1>3, <1>4 DEF HlsOK

LEMMA InitTyped == Init => Typed
<1> SUFFICES ASSUME Init PROVE Typed
  OBVIOUS
<1>1. NoHls \in Hls
  BY DEF NoHls, Hls, NoEntry, Encoders
<1>2. NoTimers \in Timers /\ Idle \in Call
  BY DEF NoTimers, Timers, Idle, Call, PCs
<1> QED
  BY <1>1, <1>2 DEF Init, Typed, CallsOK, CallsOnStreams, RowsOK, Statuses, TimersOK, HlsOK,
                    RecorderOK, Idle

-----------------------------------------------------------------------------
(* Every step keeps the types.                                             *)

LEMMA RequestTyped ==
  ASSUME Typed, NEW c \in Calls, Request(c)
  PROVE  Typed'
<1> USE DEF Typed, Assigned
<1>0. c \in Workers
  BY DEF Workers
<1>1. CASE CreateStream(c)
  <2>1. CallsOK'
    BY <1>0, <1>1, BeginTyped DEF CreateStream
  <2> QED
    BY <1>1, <2>1 DEF CreateStream, rows, memory, RowsOK, TimersOK, HlsOK, RecorderOK
<1>2. ASSUME NEW st \in Streams,
             \/ StartStream(c, st) \/ PauseStream(c, st) \/ ResumeStream(c, st)
             \/ EndStream(c, st) \/ CancelStream(c, st)
      PROVE  Typed'
  <2>1. CallsOK'
    BY <1>0, <1>2, BeginTyped DEF StartStream, PauseStream, ResumeStream, EndStream, CancelStream
  <2>2. UNCHANGED <<rows, memory>>
    BY <1>2 DEF StartStream, PauseStream, ResumeStream, EndStream, CancelStream
  <2> QED
    BY <2>1, <2>2 DEF rows, memory, RowsOK, TimersOK, HlsOK, RecorderOK
<1> QED
  BY <1>1, <1>2 DEF Request

LEMMA StepTyped ==
  ASSUME Typed, NEW c \in Workers, Step(c)
  PROVE  Typed'
<1> USE DEF Typed, Assigned, At
<1>0. call[c].pc \in Assigned => call[c].stream \in Streams
  BY DEF CallsOK, CallsOnStreams
<1>1. CASE InsertStream(c)
  <2>1. PICK st \in Streams, new \in {"SCHEDULED", "PREPARING"}, recorded \in BOOLEAN :
          /\ SetStatus(st, new)
          /\ isRecorded' = [isRecorded EXCEPT ![st] = recorded]
          /\ call' = [call EXCEPT ![c].pc = "first_room", ![c].stream = st]
    BY <1>1 DEF InsertStream
  <2> DEFINE k == [call[c] EXCEPT !.pc = "first_room", !.stream = st]
  <2>2. k \in Call /\ k.stream \in Streams
    BY DEF CallsOK, Call, PCs
  <2>3. call' = [call EXCEPT ![c] = k]
    BY <2>1 DEF CallsOK, Call
  <2>4. CallsOK'
    <3> HIDE DEF k
    <3> QED
      BY <2>2, <2>3 DEF CallsOK, CallsOnStreams
  <2>5. RowsOK'
    BY <1>1, <2>1 DEF InsertStream, SetStatus, RowsOK, Statuses
  <2> QED
    BY <1>1, <2>4, <2>5 DEF InsertStream, memory, TimersOK, HlsOK, RecorderOK
<1>2. CASE CreateFirstRoom(c) \/ CreateEpisode(c) \/ CloseCancelled(c)
  <2>1. CallsOK'
    BY <1>2, ReturnTyped DEF CreateFirstRoom, CreateEpisode, CloseCancelled
  <2>2. RowsOK'
    BY <1>2 DEF CreateFirstRoom, CreateEpisode, CloseCancelled, RowsOK
  <2> QED
    BY <1>2, <2>1, <2>2
    DEF CreateFirstRoom, CreateEpisode, CloseCancelled, memory, TimersOK, HlsOK, RecorderOK
<1>3. CASE Encode(c)
  <2>1. CallsOK' /\ HlsOK'
    BY <1>0, <1>3, GotoTyped, StartEncodingTyped DEF Encode
  <2> QED
    BY <1>3, <2>1 DEF Encode, rows, RowsOK, TimersOK, RecorderOK
<1>4. CASE WriteLive(c) \/ WriteCancelled(c)
  <2>1. CallsOK'
    BY <1>0, <1>4, GotoTyped DEF WriteLive, WriteCancelled
  <2>2. RowsOK'
    BY <1>4 DEF WriteLive, WriteCancelled, Revise, SetStatus, RowsOK, Statuses
  <2> QED
    BY <1>4, <2>1, <2>2 DEF WriteLive, WriteCancelled, memory, TimersOK, HlsOK, RecorderOK
<1>5. CASE Arm(c)
  <2>1. CallsOK' /\ TimersOK'
    BY <1>5, ReturnTyped, ArmTimerTyped DEF Arm
  <2>2. RecorderOK'
    BY <1>5 DEF Arm, RecorderOK, RowsOK
  <2> QED
    BY <1>5, <2>1, <2>2 DEF Arm, rows, RowsOK, HlsOK
<1>6. CASE WritePausedOrResumed(c)
  <2>1. CallsOK'
    BY <1>6, ReturnTyped DEF WritePausedOrResumed
  <2>2. RowsOK'
    BY <1>6 DEF WritePausedOrResumed, Revise, SetStatus, RowsOK, Statuses
  <2> QED
    BY <1>6, <2>1, <2>2 DEF WritePausedOrResumed, memory, TimersOK, HlsOK, RecorderOK
<1>7. CASE Stop(c)
  <2>1. CallsOK'
    BY <1>0, <1>7, GotoTyped DEF Stop
  <2>2. TimersOK' /\ HlsOK'
    BY <1>7, ClearTimerTyped, StopEncodingTyped DEF Stop, TimersOK
  <2> QED
    BY <1>7, <2>1, <2>2 DEF Stop, rows, RowsOK, RecorderOK
<1>8. CASE Convert(c)
  <2>1. PICK url \in BOOLEAN : call' = [call EXCEPT ![c].pc = "write_ended", ![c].url = url]
    BY <1>8 DEF Convert
  <2> DEFINE k == [call[c] EXCEPT !.pc = "write_ended", !.url = url]
  <2>2. k \in Call /\ k.stream \in Streams
    BY <1>0, <1>8 DEF Convert, CallsOK, Call, PCs
  <2>3. call' = [call EXCEPT ![c] = k]
    BY <2>1 DEF CallsOK, Call
  <2>4. CallsOK'
    <3> HIDE DEF k
    <3> QED
      BY <2>2, <2>3 DEF CallsOK, CallsOnStreams
  <2>5. TimersOK' /\ RecorderOK'
    BY <1>8, ClearTimerTyped DEF Convert, RecorderOK
  <2> QED
    BY <1>8, <2>4, <2>5 DEF Convert, rows, RowsOK, HlsOK
<1>9. CASE WriteEnded(c)
  <2>1. CallsOK'
    BY <1>0, <1>9, GotoTyped DEF WriteEnded
  <2>2. call[c].url \in BOOLEAN
    BY DEF CallsOK, Call
  <2>3. RowsOK'
    BY <1>9, <2>2 DEF WriteEnded, SetStatus, RowsOK, Statuses
  <2> QED
    BY <1>9, <2>1, <2>3 DEF WriteEnded, memory, TimersOK, HlsOK, RecorderOK
<1>10. CASE CloseRooms(c)
  <2>1. CallsOK'
    BY <1>0, <1>10, GotoTyped, ReturnTyped DEF CloseRooms
  <2>2. HlsOK'
    BY <1>10, StopEncodingTyped DEF CloseRooms, HlsOK
  <2>3. RowsOK'
    BY <1>10 DEF CloseRooms, RowsOK
  <2> QED
    BY <1>10, <2>1, <2>2, <2>3 DEF CloseRooms, TimersOK, RecorderOK
<1>11. CASE CreatePodcast(c)
  <2>1. CallsOK'
    BY <1>0, <1>11, GotoTyped, ReturnTyped DEF CreatePodcast
  <2>2. RowsOK'
    BY <1>11 DEF CreatePodcast, RowsOK
  <2> QED
    BY <1>11, <2>1, <2>2 DEF CreatePodcast, memory, TimersOK, HlsOK, RecorderOK
<1>12. CASE CancelTimer(c)
  <2>1. CallsOK' /\ TimersOK'
    BY <1>0, <1>12, GotoTyped, ClearTimerTyped DEF CancelTimer
  <2> QED
    BY <1>12, <2>1 DEF CancelTimer, rows, RowsOK, HlsOK, RecorderOK
<1> QED
  BY <1>1, <1>2, <1>3, <1>4, <1>5, <1>6, <1>7, <1>8, <1>9, <1>10, <1>11, <1>12 DEF Step

LEMMA TimerTyped ==
  ASSUME Typed, NEW st \in Streams, TimerFires(st)
  PROVE  Typed'
<1> USE DEF Typed, Assigned
<1>1. CallsOK'
  <2>1. CASE Begin(Timeout, "stop", st)
    BY <2>1, BeginTyped DEF Workers
  <2>2. CASE UNCHANGED call
    BY <2>2 DEF CallsOK, CallsOnStreams
  <2> QED
    BY <2>1, <2>2 DEF TimerFires
<1>2. endTimers[st] \in Timers
  BY DEF TimersOK
<1>3. TimersOK'
  <2>1. CASE endTimers' = [endTimers EXCEPT ![st].entry = "fired"]
    <3>1. [endTimers[st] EXCEPT !.entry = "fired"] \in Timers
      BY <1>2 DEF Timers
    <3> QED
      BY <2>1, <3>1 DEF TimersOK
  <2>2. CASE endTimers[st].orphans > 0 /\ endTimers' = [endTimers EXCEPT ![st].orphans = @ - 1]
    <3>1. endTimers[st].orphans - 1 \in Nat
      BY <1>2, <2>2 DEF Timers
    <3>2. [endTimers[st] EXCEPT !.orphans = @ - 1] \in Timers
      BY <1>2, <3>1 DEF Timers
    <3>3. endTimers' = [endTimers EXCEPT ![st] = [endTimers[st] EXCEPT !.orphans = @ - 1]]
      BY <2>2
    <3> QED
      BY <3>2, <3>3 DEF TimersOK
  <2> QED
    BY <2>1, <2>2 DEF TimerFires
<1> QED
  BY <1>1, <1>3 DEF TimerFires, rows, RowsOK, HlsOK, RecorderOK

LEMMA NextTyped == Typed /\ [Next]_vars => Typed'
<1> SUFFICES ASSUME Typed, [Next]_vars PROVE Typed'
  OBVIOUS
<1>1. CASE UNCHANGED vars
  BY <1>1 DEF vars, Typed, CallsOK, CallsOnStreams, RowsOK, TimersOK, HlsOK, RecorderOK
<1>2. ASSUME NEW c \in Workers, Fails(c) PROVE Typed'
  <2>1. CallsOK'
    BY <1>2, ReturnTyped DEF Fails, Typed
  <2> QED
    BY <1>2, <2>1 DEF Fails, rows, memory, Typed, RowsOK, TimersOK, HlsOK, RecorderOK
<1>3. ASSUME NEW st \in Streams, NEW e \in Encoders, EncoderExits(st, e) PROVE Typed'
  <2>1. hls[st] \in Hls
    BY DEF Typed, HlsOK
  <2> DEFINE h == [hls[st] EXCEPT !.running = @ \ {e}, !.killed = @ \ {e}, !.encoder = NoEntry]
  <2>2. h \in Hls
    BY <2>1 DEF Hls
  <2>3. hls' = [hls EXCEPT ![st] = h]
    BY <1>3, <2>1 DEF EncoderExits, Typed, HlsOK, Hls
  <2>4. HlsOK'
    <3> HIDE DEF h
    <3> QED
      BY <2>2, <2>3 DEF Typed, HlsOK
  <2> QED
    BY <1>3, <2>4
    DEF EncoderExits, rows, Typed, CallsOK, CallsOnStreams, RowsOK, TimersOK, RecorderOK
<1>4. CASE ServerRestart
  <2>1. NoHls \in Hls /\ NoTimers \in Timers /\ Idle \in Call
    BY DEF NoHls, Hls, NoEntry, Encoders, NoTimers, Timers, Idle, Call, PCs
  <2> QED
    BY <1>4, <2>1 DEF ServerRestart, rows, Typed, CallsOK, CallsOnStreams, RowsOK, TimersOK, HlsOK,
                      RecorderOK, Idle
<1> QED
  BY <1>1, <1>2, <1>3, <1>4, RequestTyped, StepTyped, TimerTyped DEF Next

LEMMA RacedTyped == Typed /\ RacedOK /\ [Next]_vars => RacedOK'
<1> SUFFICES ASSUME Typed, RacedOK, [Next]_vars PROVE RacedOK'
  OBVIOUS
<1> USE DEF RacedOK
<1>1. ASSUME NEW c \in Workers, Step(c) PROVE RacedOK'
  <2>1. \A pc \in {"write_live", "pause", "resume", "cancel"} : At(c, pc) => call[c].stream \in Streams
    BY DEF At, Typed, CallsOK, CallsOnStreams
  <2> QED
    BY <1>1, <2>1 DEF Step, InsertStream, CreateFirstRoom, Encode, WriteLive, Arm, WritePausedOrResumed, Stop,
       Convert, WriteEnded, CloseRooms, CreatePodcast, CreateEpisode, WriteCancelled, CancelTimer,
       CloseCancelled, Revise, NoteRace
<1>2. ASSUME NEW c \in Calls, Request(c) PROVE RacedOK'
  BY <1>2 DEF Request, CreateStream, StartStream, PauseStream, ResumeStream, EndStream, CancelStream, NoteRace
<1>3. ASSUME NEW st \in Streams, TimerFires(st) PROVE RacedOK'
  BY <1>3 DEF TimerFires, NoteRace
<1> QED
  BY <1>1, <1>2, <1>3 DEF Next, Fails, EncoderExits, ServerRestart, vars

(* Rows, timers, encoders and calls always have the shape the code gives   *)
(* them.                                                                   *)
THEOREM TypeCorrect == Spec => []TypeOK
<1>1. Typed /\ RacedOK => TypeOK
  BY TypeParts
<1>2. Init => RacedOK
  BY DEF Init, RacedOK
<1> QED
  BY <1>1, <1>2, InitTyped, NextTyped, RacedTyped, PTL DEF Spec

-----------------------------------------------------------------------------
(* One podcast and one episode for a stream.                               *)

Creating(st) == Ongoing({"episode"}, st)

LEMMA WorkersFinite == IsFiniteSet(Workers)
<1>1. IsFiniteSet({Timeout})
  BY FS_Singleton
<1> QED
  BY <1>1, FS_Union DEF Workers

LEMMA CreatingFinite ==
  ASSUME NEW st
  PROVE  /\ IsFiniteSet(Creating(st)) /\ Cardinality(Creating(st)) \in Nat
         /\ IsFiniteSet(Creating(st)') /\ Cardinality(Creating(st)') \in Nat
<1>1. Creating(st) \subseteq Workers /\ Creating(st)' \subseteq Workers
  BY DEF Creating, Ongoing
<1>2. IsFiniteSet(Creating(st)) /\ IsFiniteSet(Creating(st)')
  BY <1>1, WorkersFinite, FS_Subset
<1> QED
  BY <1>2, FS_CardinalityType

(* A step at which no call comes to create an episode. *)
LEMMA NothingPublished ==
  ASSUME Typed, PublishedOnce, UNCHANGED <<podcasts, episodes>>,
         \A w \in Workers : call'[w].pc = "episode" => call'[w] = call[w]
  PROVE  PublishedOnce'
<1> SUFFICES ASSUME NEW st \in Streams
             PROVE  /\ podcasts'[st] <= 1
                    /\ episodes'[st] + Cardinality(Creating(st)') <= podcasts'[st]
  BY DEF PublishedOnce, Creating
<1>1. Creating(st)' \subseteq Creating(st)
  BY DEF Creating, Ongoing
<1>2. Cardinality(Creating(st)') <= Cardinality(Creating(st))
  BY <1>1, CreatingFinite, FS_Subset
<1>3. podcasts[st] <= 1 /\ episodes[st] + Cardinality(Creating(st)) <= podcasts[st]
  BY DEF PublishedOnce, Creating
<1>4. podcasts[st] \in Nat /\ episodes[st] \in Nat
  BY DEF Typed, RowsOK
<1> QED
  BY <1>2, <1>3, <1>4, CreatingFinite

(* A call that moves, and not on to create an episode. *)
LEMMA MovesElsewhere ==
  ASSUME Typed, NEW c \in Workers,
         \/ Return(c)
         \/ \E pc \in PCs \ {"episode"} :
              \/ Goto(c, pc)
              \/ \E st : Begin(c, pc, st)
              \/ \E st : call' = [call EXCEPT ![c].pc = pc, ![c].stream = st]
              \/ \E url : call' = [call EXCEPT ![c].pc = pc, ![c].url = url]
  PROVE  \A w \in Workers : call'[w].pc = "episode" => call'[w] = call[w]
<1>1. call \in [Workers -> Call]
  BY DEF Typed, CallsOK
<1>2. CASE Return(c)
  BY <1>1, <1>2 DEF Return, Idle
<1>3. ASSUME NEW pc \in PCs \ {"episode"}, NEW k, k.pc = pc, call' = [call EXCEPT ![c] = k]
      PROVE  \A w \in Workers : call'[w].pc = "episode" => call'[w] = call[w]
  BY <1>1, <1>3
<1>4. ASSUME NEW pc \in PCs \ {"episode"}, Goto(c, pc)
      PROVE  \E k : k.pc = pc /\ call' = [call EXCEPT ![c] = k]
  <2> WITNESS [call[c] EXCEPT !.pc = pc]
  <2> QED
    BY <1>1, <1>4 DEF Goto, Call
<1>5. ASSUME NEW pc \in PCs \ {"episode"}, NEW st, Begin(c, pc, st)
      PROVE  \E k : k.pc = pc /\ call' = [call EXCEPT ![c] = k]
  <2> WITNESS [Idle EXCEPT !.pc = pc, !.stream = st]
  <2> QED
    BY <1>5 DEF Begin, Idle
<1>6. ASSUME NEW pc \in PCs \ {"episode"}, NEW st,
             call' = [call EXCEPT ![c].pc = pc, ![c].stream = st]
      PROVE  \E k : k.pc = pc /\ call' = [call EXCEPT ![c] = k]
  <2>1. call' = [call EXCEPT ![c] = [call[c] EXCEPT !.pc = pc, !.stream = st]]
    BY <1>1, <1>6
  <2>2. [call[c] EXCEPT !.pc = pc, !.stream = st].pc = pc
    BY <1>1 DEF Call
  <2> WITNESS [call[c] EXCEPT !.pc = pc, !.stream = st]
  <2> QED
    BY <2>1, <2>2
<1>7. ASSUME NEW pc \in PCs \ {"episode"}, NEW url,
             call' = [call EXCEPT ![c].pc = pc, ![c].url = url]
      PROVE  \E k : k.pc = pc /\ call' = [call EXCEPT ![c] = k]
  <2>1. call' = [call EXCEPT ![c] = [call[c] EXCEPT !.pc = pc, !.url = url]]
    BY <1>1, <1>7
  <2>2. [call[c] EXCEPT !.pc = pc, !.url = url].pc = pc
    BY <1>1 DEF Call
  <2> WITNESS [call[c] EXCEPT !.pc = pc, !.url = url]
  <2> QED
    BY <2>1, <2>2
<1> QED
  BY <1>2, <1>3, <1>4, <1>5, <1>6, <1>7

LEMMA PodcastCreated ==
  ASSUME Typed, PublishedOnce, NEW c \in Workers, CreatePodcast(c)
  PROVE  PublishedOnce'
<1> DEFINE s == call[c].stream
<1>0. s \in Streams
  BY DEF CreatePodcast, At, Typed, CallsOK, CallsOnStreams
<1>1. CASE podcasts[s] = 0
  <2> SUFFICES ASSUME NEW st \in Streams
               PROVE  /\ podcasts'[st] <= 1
                      /\ episodes'[st] + Cardinality(Creating(st)') <= podcasts'[st]
    BY DEF PublishedOnce, Creating
  <2>1. /\ podcasts[st] \in Nat /\ episodes[st] \in Nat /\ podcasts[st] <= 1
        /\ episodes[st] + Cardinality(Creating(st)) <= podcasts[st]
    BY DEF Typed, RowsOK, PublishedOnce, Creating
  <2>2. /\ podcasts' = [podcasts EXCEPT ![s] = 1]
        /\ episodes' = episodes
        /\ Goto(c, "episode")
    BY <1>1 DEF CreatePodcast
  <2>3. \A w \in Workers : w # c => call'[w] = call[w]
    BY <2>2 DEF Goto, Typed, CallsOK
  <2>4. call'[c].stream = s
    BY <2>2 DEF Goto, Typed, CallsOK, Call
  <2>5. CASE st = s
    <3>1. Cardinality(Creating(st)) = 0 /\ episodes[st] = 0
      BY <1>1, <2>1, <2>5, CreatingFinite
    <3>2. Creating(st) = {}
      BY <3>1, CreatingFinite, FS_EmptySet
    <3>3. Creating(st)' \subseteq {c}
      <4> SUFFICES ASSUME NEW w \in Creating(st)', w # c PROVE FALSE
        OBVIOUS
      <4>1. w \in Workers /\ call'[w].stream = st /\ call'[w].pc = "episode"
        BY DEF Creating, Ongoing
      <4>2. w \in Creating(st)
        BY <2>3, <4>1 DEF Creating, Ongoing
      <4> QED
        BY <3>2, <4>2
    <3>4. Cardinality(Creating(st)') <= 1
      <4>1. IsFiniteSet({c}) /\ Cardinality({c}) = 1
        BY FS_Singleton
      <4>2. Cardinality(Creating(st)') <= Cardinality({c})
        BY <3>3, <4>1, FS_Subset
      <4> QED
        BY <4>1, <4>2
    <3>5. podcasts'[st] = 1 /\ episodes'[st] = 0
      BY <2>2, <2>5, <3>1 DEF Typed, RowsOK
    <3> QED
      BY <3>4, <3>5, CreatingFinite
  <2>6. CASE st # s
    <3>1. Creating(st)' = Creating(st)
      BY <2>3, <2>4, <2>6 DEF Creating, Ongoing
    <3>2. podcasts'[st] = podcasts[st] /\ episodes'[st] = episodes[st]
      BY <2>2, <2>6 DEF Typed, RowsOK
    <3> QED
      BY <2>1, <3>1, <3>2
  <2> QED
    BY <2>5, <2>6
<1>2. CASE podcasts[s] # 0
  <2>1. Return(c) /\ UNCHANGED <<podcasts, episodes>>
    BY <1>2 DEF CreatePodcast
  <2> QED
    BY <2>1, MovesElsewhere, NothingPublished
<1> QED
  BY <1>1, <1>2

LEMMA EpisodeCreated ==
  ASSUME Typed, PublishedOnce, NEW c \in Workers, CreateEpisode(c)
  PROVE  PublishedOnce'
<1> DEFINE s == call[c].stream
<1>0. s \in Streams
  BY DEF CreateEpisode, At, Typed, CallsOK, CallsOnStreams
<1> SUFFICES ASSUME NEW st \in Streams
             PROVE  /\ podcasts'[st] <= 1
                    /\ episodes'[st] + Cardinality(Creating(st)') <= podcasts'[st]
  BY DEF PublishedOnce, Creating
<1>1. /\ podcasts[st] \in Nat /\ episodes[st] \in Nat /\ podcasts[st] <= 1
      /\ episodes[st] + Cardinality(Creating(st)) <= podcasts[st]
  BY DEF Typed, RowsOK, PublishedOnce, Creating
<1>2. /\ podcasts' = podcasts
      /\ episodes' = [episodes EXCEPT ![s] = @ + 1]
      /\ call' = [call EXCEPT ![c] = Idle]
  BY DEF CreateEpisode, Return
<1>3. \A w \in Workers : call'[w] = IF w = c THEN Idle ELSE call[w]
  BY <1>2 DEF Typed, CallsOK
<1>4. Creating(st)' = Creating(st) \ {c}
  BY <1>3 DEF Creating, Ongoing, Idle
<1>5. CASE st = s
  <2>1. c \in Creating(st)
    BY <1>5 DEF CreateEpisode, At, Creating, Ongoing
  <2>2. Cardinality(Creating(st)') = Cardinality(Creating(st)) - 1
    <3>1. IsFiniteSet(Creating(st))
      BY CreatingFinite
    <3>2. Cardinality(Creating(st) \ {c}) = Cardinality(Creating(st)) - 1
      BY <2>1, <3>1, FS_RemoveElement
    <3> QED
      BY <1>4, <3>2
  <2>3. episodes'[st] = episodes[st] + 1
    BY <1>2, <1>5 DEF Typed, RowsOK
  <2> QED
    BY <1>1, <1>2, <2>2, <2>3, CreatingFinite
<1>6. CASE st # s
  <2>1. Creating(st)' = Creating(st)
    BY <1>4, <1>6 DEF Creating, Ongoing
  <2>2. episodes'[st] = episodes[st]
    BY <1>2, <1>6 DEF Typed, RowsOK
  <2> QED
    BY <1>1, <1>2, <2>1, <2>2
<1> QED
  BY <1>5, <1>6

LEMMA PublishedOnceStep == Typed /\ PublishedOnce /\ [Next]_vars => PublishedOnce'
<1> SUFFICES ASSUME Typed, PublishedOnce, [Next]_vars PROVE PublishedOnce'
  OBVIOUS
<1>1. CASE UNCHANGED vars
  BY <1>1, NothingPublished DEF vars
<1>2. ASSUME NEW c \in Calls, Request(c) PROVE PublishedOnce'
  <2>1. c \in Workers /\ UNCHANGED <<podcasts, episodes>>
    BY <1>2 DEF Workers, Request, CreateStream, StartStream, PauseStream, ResumeStream, EndStream,
                CancelStream, rows
  <2>2. \E pc \in {"insert", "encode", "pause", "resume", "stop", "cancel"} :
          \E st : Begin(c, pc, st)
    BY <1>2 DEF Request, CreateStream, StartStream, PauseStream, ResumeStream, EndStream,
                CancelStream
  <2> QED
    BY <2>1, <2>2, MovesElsewhere, NothingPublished DEF PCs
<1>3. ASSUME NEW c \in Workers, Step(c) PROVE PublishedOnce'
  <2>1. CASE CreatePodcast(c)
    BY <2>1, PodcastCreated
  <2>2. CASE CreateEpisode(c)
    BY <2>2, EpisodeCreated
  <2>3. CASE \/ InsertStream(c) \/ CreateFirstRoom(c) \/ Encode(c) \/ WriteLive(c) \/ Arm(c)
             \/ WritePausedOrResumed(c)
    <3>1. UNCHANGED <<podcasts, episodes>>
      BY <2>3 DEF InsertStream, CreateFirstRoom, Encode, WriteLive, Arm, WritePausedOrResumed, rows
    <3>2. \/ Return(c)
          \/ \E pc \in {"first_room", "write_live", "arm"} :
               \/ Goto(c, pc)
               \/ \E st : call' = [call EXCEPT ![c].pc = pc, ![c].stream = st]
      BY <2>3 DEF InsertStream, CreateFirstRoom, Encode, WriteLive, Arm, WritePausedOrResumed
    <3> QED
      BY <3>1, <3>2, MovesElsewhere, NothingPublished DEF PCs
  <2>4. CASE \/ Stop(c) \/ Convert(c) \/ WriteEnded(c) \/ CloseRooms(c)
             \/ WriteCancelled(c) \/ CancelTimer(c) \/ CloseCancelled(c)
    <3>1. UNCHANGED <<podcasts, episodes>>
      BY <2>4 DEF Stop, Convert, WriteEnded, CloseRooms, WriteCancelled, CancelTimer,
                  CloseCancelled, rows
    <3>2. \/ Return(c)
          \/ \E pc \in {"convert", "write_ended", "close_rooms", "podcast", "cancel_timer",
                        "close_cancelled"} :
               \/ Goto(c, pc)
               \/ \E url : call' = [call EXCEPT ![c].pc = pc, ![c].url = url]
      BY <2>4 DEF Stop, Convert, WriteEnded, CloseRooms, WriteCancelled, CancelTimer,
                  CloseCancelled
    <3> QED
      BY <3>1, <3>2, MovesElsewhere, NothingPublished DEF PCs
  <2> QED
    BY <1>3, <2>1, <2>2, <2>3, <2>4 DEF Step
<1>4. ASSUME NEW c \in Workers, Fails(c) PROVE PublishedOnce'
  BY <1>4, MovesElsewhere, NothingPublished DEF Fails, rows
<1>5. ASSUME NEW st \in Streams, TimerFires(st) PROVE PublishedOnce'
  <2>1. UNCHANGED <<podcasts, episodes>> /\ Timeout \in Workers
    BY <1>5 DEF TimerFires, rows, Workers
  <2>2. CASE Begin(Timeout, "stop", st)
    BY <2>1, <2>2, MovesElsewhere, NothingPublished DEF PCs
  <2>3. CASE UNCHANGED call
    BY <2>1, <2>3, NothingPublished
  <2> QED
    BY <1>5, <2>2, <2>3 DEF TimerFires
<1>6. ASSUME NEW st \in Streams, NEW e \in Encoders, EncoderExits(st, e) PROVE PublishedOnce'
  BY <1>6, NothingPublished DEF EncoderExits, rows
<1>7. CASE ServerRestart
  BY <1>7, NothingPublished DEF ServerRestart, rows, Idle
<1> QED
  BY <1>1, <1>2, <1>3, <1>4, <1>5, <1>6, <1>7 DEF Next

(* Whatever endStream calls overlap, restart or fail on the way, a stream  *)
(* becomes at most one podcast, and a podcast has at most one episode.     *)
THEOREM PublishedOnceCorrect == Spec => []PublishedOnce
<1>1. Init => PublishedOnce
  <2> SUFFICES ASSUME Init PROVE PublishedOnce
    OBVIOUS
  <2>1. \A st \in Streams : Creating(st) = {} /\ podcasts[st] = 0 /\ episodes[st] = 0
    BY DEF Init, Creating, Ongoing, Idle
  <2> QED
    BY <2>1, FS_EmptySet DEF PublishedOnce, Creating
<1> QED
  BY <1>1, InitTyped, NextTyped, PublishedOnceStep, PTL DEF Spec

-----------------------------------------------------------------------------
(* A live stream has its timer.  What binds it, while calls are in flight, *)
(* is LiveIsBound; pauses, resumes and cancellations are left out.         *)

Binding == {"arm", "stop", "convert", "write_ended"}
LeftOut == {"pause", "resume", "cancel", "cancel_timer", "close_cancelled"}

Bound(st) == endTimers[st].entry = "pending" \/ Ongoing(Binding, st) # {}

NoneLeftOut == \A c \in Workers : call[c].pc \notin LeftOut

(* A worker at one of the binding points. *)
LEMMA BoundBy ==
  ASSUME NEW st, NEW w \in Workers, call[w].stream = st, call[w].pc \in Binding
  PROVE  Bound(st)
<1>1. w \in Ongoing(Binding, st)
  BY DEF Ongoing
<1> QED
  BY <1>1 DEF Bound

LEMMA BoundByNext ==
  ASSUME NEW st, NEW w \in Workers, call'[w].stream = st, call'[w].pc \in Binding
  PROVE  Bound(st)'
<1>1. w \in Ongoing(Binding, st)'
  BY DEF Ongoing
<1> QED
  BY <1>1 DEF Bound

(* What leaves a stream's timer and the calls that bind it alone keeps it  *)
(* bound.                                                                  *)
LEMMA StaysBound ==
  ASSUME NEW st, Bound(st), endTimers'[st].entry = endTimers[st].entry,
         \A w \in Workers : call[w].stream = st /\ call[w].pc \in Binding => call'[w] = call[w]
  PROVE  Bound(st)'
<1>1. CASE endTimers[st].entry = "pending"
  BY <1>1 DEF Bound
<1>2. ASSUME NEW w \in Ongoing(Binding, st) PROVE Bound(st)'
  <2>1. w \in Workers /\ call'[w].stream = st /\ call'[w].pc \in Binding
    BY <1>2 DEF Ongoing
  <2> QED
    BY <2>1, BoundByNext
<1> QED
  BY <1>1, <1>2 DEF Bound

(* A step of c that is not at a binding point. *)
LEMMA OthersStayBound ==
  ASSUME Typed, NEW st, Bound(st), NEW c \in Workers, call[c].pc \notin Binding \/ call[c].stream # st,
         UNCHANGED endTimers, \E k : call' = [call EXCEPT ![c] = k]
  PROVE  Bound(st)'
<1>1. \A w \in Workers : w # c => call'[w] = call[w]
  BY DEF Typed, CallsOK
<1> QED
  BY <1>1, StaysBound

LEMMA LeftOutStep ==
  ASSUME HostOps \subseteq {"create", "start", "end"}, Failures = FALSE, Restarts = FALSE,
         Typed, NoneLeftOut, [Next]_vars
  PROVE  NoneLeftOut'
<1>1. CASE UNCHANGED vars
  BY <1>1 DEF vars, NoneLeftOut
<1> DEFINE Elsewhere(c) == \/ Return(c)
                           \/ \E pc \in PCs \ LeftOut :
                                \/ Goto(c, pc)
                                \/ \E st : Begin(c, pc, st)
                                \/ \E st : call' = [call EXCEPT ![c].pc = pc, ![c].stream = st]
                                \/ \E url : call' = [call EXCEPT ![c].pc = pc, ![c].url = url]
<1>2. ASSUME NEW c \in Workers, Elsewhere(c) PROVE NoneLeftOut'
  <2>1. \A w \in Workers : w # c => call'[w].pc = call[w].pc
    BY <1>2 DEF Typed, CallsOK, Return, Goto, Begin
  <2>2. call'[c].pc \notin LeftOut
    <3>1. call[c] \in Call /\ call \in [Workers -> Call]
      BY DEF Typed, CallsOK
    <3>2. CASE Return(c)
      BY <3>1, <3>2 DEF Return, Idle, LeftOut
    <3>3. ASSUME NEW pc \in PCs \ LeftOut, Goto(c, pc) PROVE call'[c].pc = pc
      BY <3>1, <3>3 DEF Goto, Call
    <3>4. ASSUME NEW pc \in PCs \ LeftOut, NEW st, Begin(c, pc, st) PROVE call'[c].pc = pc
      BY <3>1, <3>4 DEF Begin, Idle
    <3>5. ASSUME NEW pc \in PCs \ LeftOut, NEW st,
                 call' = [call EXCEPT ![c].pc = pc, ![c].stream = st]
          PROVE  call'[c].pc = pc
      BY <3>1, <3>5 DEF Call
    <3>6. ASSUME NEW pc \in PCs \ LeftOut, NEW url,
                 call' = [call EXCEPT ![c].pc = pc, ![c].url = url]
          PROVE  call'[c].pc = pc
      BY <3>1, <3>6 DEF Call
    <3> QED
      BY <1>2, <3>2, <3>3, <3>4, <3>5, <3>6
  <2> QED
    BY <2>1, <2>2 DEF NoneLeftOut
<1>3. ASSUME NEW c \in Calls, Request(c) PROVE Elsewhere(c)
  <2>1. \E pc \in {"insert", "encode", "stop"} : \E st : Begin(c, pc, st)
    BY <1>3 DEF Request, CreateStream, StartStream, PauseStream, ResumeStream, EndStream,
                CancelStream
  <2> QED
    BY <2>1 DEF PCs, LeftOut
<1>4. ASSUME NEW c \in Workers, Step(c) PROVE Elsewhere(c)
  <2>1. call[c].pc \notin LeftOut
    BY DEF NoneLeftOut
  <2>2. CASE \/ InsertStream(c) \/ CreateFirstRoom(c) \/ Encode(c) \/ WriteLive(c) \/ Arm(c)
             \/ WritePausedOrResumed(c)
    BY <2>1, <2>2 DEF InsertStream, CreateFirstRoom, Encode, WriteLive, Arm, WritePausedOrResumed,
                      PCs, LeftOut
  <2>3. CASE \/ Stop(c) \/ Convert(c) \/ WriteEnded(c) \/ CloseRooms(c)
             \/ CreatePodcast(c) \/ CreateEpisode(c)
             \/ WriteCancelled(c) \/ CancelTimer(c) \/ CloseCancelled(c)
    BY <2>1, <2>3 DEF Stop, Convert, WriteEnded, CloseRooms, CreatePodcast, CreateEpisode,
                      WriteCancelled, CancelTimer, CloseCancelled, PCs, LeftOut, At
  <2> QED
    BY <1>4, <2>2, <2>3 DEF Step
<1>5. ASSUME NEW st \in Streams, TimerFires(st) PROVE NoneLeftOut'
  <2>1. CASE Begin(Timeout, "stop", st)
    <3>1. Elsewhere(Timeout)
      BY <2>1 DEF PCs, LeftOut
    <3> QED
      BY <3>1, <1>2 DEF Workers
  <2>2. CASE UNCHANGED call
    BY <2>2 DEF NoneLeftOut
  <2> QED
    BY <1>5, <2>1, <2>2 DEF TimerFires
<1>6. ASSUME NEW st \in Streams, NEW e \in Encoders, EncoderExits(st, e) PROVE NoneLeftOut'
  BY <1>6 DEF EncoderExits, NoneLeftOut
<1> HIDE DEF Elsewhere
<1>7. Calls \subseteq Workers
  BY DEF Workers
<1> QED
  BY <1>1, <1>2, <1>3, <1>4, <1>5, <1>6, <1>7 DEF Next, Fails, ServerRestart

LEMMA StepBound ==
  ASSUME Typed, LiveIsBound, NoneLeftOut, NEW c \in Workers, Step(c),
         NEW st \in Streams, status'[st] = "LIVE"
  PROVE  Bound(st)'
<1>0. /\ status[st] = "LIVE" => Bound(st)
      /\ call \in [Workers -> Call] /\ call[c] \in Call
      /\ call[c].pc \notin LeftOut
      /\ endTimers \in [Streams -> Timers] /\ endTimers[st] \in Timers
      /\ status \in [Streams -> Statuses]
  BY DEF LiveIsBound, Bound, Binding, Typed, CallsOK, TimersOK, RowsOK, NoneLeftOut
<1> DEFINE Moves == \E k : call' = [call EXCEPT ![c] = k]
<1>a. ASSUME Goto(c, "write_live") \/ Goto(c, "close_rooms") \/ Goto(c, "episode")
             \/ Goto(c, "podcast") \/ Return(c)
      PROVE  Moves
  BY <1>0, <1>a DEF Goto, Return, Call
<1>1. CASE InsertStream(c)
  <2>1. PICK new \in Streams, s \in {"SCHEDULED", "PREPARING"} :
          /\ SetStatus(new, s)
          /\ call' = [call EXCEPT ![c].pc = "first_room", ![c].stream = new]
    BY <1>1 DEF InsertStream
  <2>2. status[st] = "LIVE"
    BY <1>0, <2>1 DEF SetStatus
  <2>3. Moves
    BY <1>0, <2>1 DEF Call
  <2> QED
    BY <1>0, <1>1, <2>2, <2>3, OthersStayBound DEF InsertStream, memory, At, Binding
<1>2. CASE CreateFirstRoom(c) \/ CreatePodcast(c) \/ CreateEpisode(c)
  <2>1. /\ status' = status /\ UNCHANGED endTimers
        /\ call[c].pc \notin Binding
    BY <1>2 DEF CreateFirstRoom, CreatePodcast, CreateEpisode, memory, At, Binding
  <2>2. Moves
    BY <1>2, <1>a DEF CreateFirstRoom, CreatePodcast, CreateEpisode
  <2> QED
    BY <1>0, <2>1, <2>2, OthersStayBound
<1>3. CASE Encode(c)
  <2>1. Moves
    BY <1>3, <1>a DEF Encode
  <2> QED
    BY <1>0, <1>3, <2>1, OthersStayBound DEF Encode, rows, At, Binding
<1>4. CASE WriteLive(c)
  <2>1. Goto(c, "arm") /\ UNCHANGED endTimers
    BY <1>4 DEF WriteLive, memory
  <2>2. CASE call[c].stream = st
    <3>1. call'[c].stream = st /\ call'[c].pc \in Binding
      BY <1>0, <2>1, <2>2 DEF Goto, Call, Binding
    <3> QED
      BY <3>1, BoundByNext
  <2>3. CASE call[c].stream # st
    <3>1. status[st] = "LIVE"
      BY <1>0, <1>4, <2>3 DEF WriteLive, Revise, SetStatus
    <3>2. Moves
      BY <1>0, <2>1 DEF Goto, Call
    <3> QED
      BY <1>0, <2>1, <2>3, <3>1, <3>2, OthersStayBound
  <2> QED
    BY <2>2, <2>3
<1>5. CASE Arm(c)
  <2>1. status' = status /\ ArmTimer(call[c].stream) /\ Return(c)
    BY <1>5 DEF Arm, rows
  <2>2. CASE call[c].stream = st
    <3>1. endTimers'[st].entry = "pending"
      BY <1>0, <2>1, <2>2 DEF ArmTimer
    <3> QED
      BY <3>1 DEF Bound
  <2>3. CASE call[c].stream # st
    <3>1. endTimers'[st] = endTimers[st]
      BY <1>0, <2>1, <2>3 DEF ArmTimer
    <3>2. \A w \in Workers : w # c => call'[w] = call[w]
      BY <1>0, <2>1 DEF Return
    <3> QED
      BY <1>0, <2>1, <2>3, <3>1, <3>2, StaysBound
  <2> QED
    BY <2>2, <2>3
<1>6. CASE Stop(c) \/ Convert(c)
  <2>1. /\ status' = status
        /\ endTimers' = endTimers \/ ClearTimer(call[c].stream)
    BY <1>6 DEF Stop, Convert, rows
  <2>2. /\ call'[c].stream = call[c].stream
        /\ call'[c].pc \in Binding
        /\ \A w \in Workers : w # c => call'[w] = call[w]
    BY <1>0, <1>6 DEF Stop, Convert, Goto, Call, Binding
  <2>3. CASE call[c].stream = st
    BY <2>2, <2>3, BoundByNext
  <2>4. CASE call[c].stream # st
    <3>1. endTimers'[st] = endTimers[st]
      BY <1>0, <2>1, <2>4 DEF ClearTimer
    <3> QED
      BY <1>0, <2>1, <2>2, <2>4, <3>1, StaysBound
  <2> QED
    BY <2>3, <2>4
<1>7. CASE WriteEnded(c)
  <2>1. SetStatus(call[c].stream, "ENDED") /\ Goto(c, "close_rooms") /\ UNCHANGED endTimers
    BY <1>7 DEF WriteEnded, memory
  <2>2. call[c].stream # st /\ status[st] = "LIVE"
    BY <1>0, <2>1 DEF SetStatus
  <2> QED
    BY <1>0, <1>a, <2>1, <2>2, OthersStayBound
<1>8. CASE CloseRooms(c)
  <2>1. Moves
    BY <1>8, <1>a DEF CloseRooms
  <2> QED
    BY <1>0, <1>8, <2>1, OthersStayBound DEF CloseRooms, At, Binding
<1>9. ~ (WritePausedOrResumed(c) \/ WriteCancelled(c) \/ CancelTimer(c) \/ CloseCancelled(c))
  BY <1>0 DEF WritePausedOrResumed, WriteCancelled, CancelTimer, CloseCancelled, At, LeftOut
<1> QED
  BY <1>1, <1>2, <1>3, <1>4, <1>5, <1>6, <1>7, <1>8, <1>9 DEF Step

LEMMA TimerBound ==
  ASSUME Typed, LiveIsBound, NEW t \in Streams, TimerFires(t),
         NEW st \in Streams, status'[st] = "LIVE"
  PROVE  Bound(st)'
<1>1. status' = status /\ Bound(st) /\ call[Timeout].pc = "idle" /\ Timeout \in Workers
  BY DEF TimerFires, rows, LiveIsBound, Bound, Binding, At, Workers
<1>2. endTimers \in [Streams -> Timers] /\ call \in [Workers -> Call]
  BY DEF Typed, TimersOK, CallsOK
<1>3. CASE t = st
  <2>1. Begin(Timeout, "stop", st)
    BY <1>1, <1>3 DEF TimerFires, Endable
  <2>2. call'[Timeout].stream = st /\ call'[Timeout].pc \in Binding
    BY <1>1, <1>2, <2>1 DEF Begin, Idle, Binding
  <2> QED
    BY <1>1, <2>2, BoundByNext
<1>4. CASE t # st
  <2>1. endTimers'[st] = endTimers[st]
    BY <1>2, <1>4 DEF TimerFires
  <2>2. \A w \in Workers : w # Timeout => call'[w] = call[w]
    BY <1>2 DEF TimerFires, Begin
  <2> QED
    BY <1>1, <2>1, <2>2, StaysBound DEF Binding
<1> QED
  BY <1>3, <1>4

LEMMA LiveIsBoundStep ==
  ASSUME Failures = FALSE, Restarts = FALSE, Typed, LiveIsBound, NoneLeftOut, [Next]_vars
  PROVE  LiveIsBound'
<1> SUFFICES ASSUME NEW st \in Streams, status'[st] = "LIVE" PROVE Bound(st)'
  BY DEF LiveIsBound, Bound, Binding
<1>0. status[st] = "LIVE" => Bound(st)
  BY DEF LiveIsBound, Bound, Binding
<1>1. CASE UNCHANGED vars
  BY <1>0, <1>1, StaysBound DEF vars
<1>2. ASSUME NEW c \in Calls, Request(c) PROVE Bound(st)'
  <2>1. c \in Workers /\ UNCHANGED <<status, endTimers>>
    BY <1>2 DEF Workers, Request, CreateStream, StartStream, PauseStream, ResumeStream, EndStream,
                CancelStream, rows, memory
  <2>2. call[c].pc = "idle" /\ \E k : call' = [call EXCEPT ![c] = k]
    BY <1>2 DEF Request, CreateStream, StartStream, PauseStream, ResumeStream, EndStream,
                CancelStream, Begin, At
  <2> QED
    BY <1>0, <2>1, <2>2, OthersStayBound DEF Binding
<1>3. ASSUME NEW c \in Workers, Step(c) PROVE Bound(st)'
  BY <1>3, StepBound
<1>4. ASSUME NEW t \in Streams, TimerFires(t) PROVE Bound(st)'
  BY <1>4, TimerBound
<1>5. ASSUME NEW t \in Streams, NEW e \in Encoders, EncoderExits(t, e) PROVE Bound(st)'
  BY <1>0, <1>5, StaysBound DEF EncoderExits, rows
<1> QED
  BY <1>1, <1>2, <1>3, <1>4, <1>5 DEF Next, Fails, ServerRestart

(* As long as the host only creates, starts and ends, and the database     *)
(* and the process keep up, a live stream at rest has its auto-end timer:  *)
(* of the calls that overlap, the last to touch the map leaves it right.   *)
(* A resume that overlaps an end is left out: there the timer is lost.     *)
THEOREM AutoEndArmedCorrect ==
  ASSUME HostOps \subseteq {"create", "start", "end"}, Failures = FALSE, Restarts = FALSE
  PROVE  Spec => []AutoEndArmed
<1>1. Init => LiveIsBound /\ NoneLeftOut
  BY DEF Init, LiveIsBound, NoneLeftOut, LeftOut, Idle
<1>2. Typed /\ LiveIsBound /\ NoneLeftOut /\ [Next]_vars => LiveIsBound' /\ NoneLeftOut'
  BY LeftOutStep, LiveIsBoundStep
<1>3. LiveIsBound => AutoEndArmed
  BY DEF LiveIsBound, AutoEndArmed, Quiet, Ongoing
<1> QED
  BY <1>1, <1>2, <1>3, InitTyped, NextTyped, PTL DEF Spec

-----------------------------------------------------------------------------
(* One call moves: where to, and what it writes.                           *)

EndPCs == {"stop", "convert", "write_ended", "close_rooms", "podcast", "episode"}

written == <<status, recordingUrl, podcasts, raced>>

(* Where a call goes from a pc, unless it returns. *)
After(pc) ==
  CASE pc = "insert" -> {"first_room"}
    [] pc = "encode" -> {"write_live"}
    [] pc = "write_live" -> {"arm"}
    [] pc = "stop" -> {"convert", "write_ended"}
    [] pc = "convert" -> {"write_ended"}
    [] pc = "write_ended" -> {"close_rooms"}
    [] pc = "close_rooms" -> {"podcast"}
    [] pc = "podcast" -> {"episode"}
    [] pc = "cancel" -> {"cancel_timer"}
    [] pc = "cancel_timer" -> {"close_cancelled"}
    [] OTHER -> {}

(* The calls after a step of c. *)
Advances(c) ==
  /\ \A d \in Workers \ {c} : call'[d] = call[d]
  /\ call[c].pc # "idle"
  /\ \/ call'[c] = Idle
     \/ /\ call'[c].pc \in After(call[c].pc)
        /\ call[c].pc # "insert" => call'[c].stream = call[c].stream
        /\ call[c].pc # "convert" => call'[c].url = call[c].url
        /\ call'[c].pc = "podcast" => call[c].url

(* The writes of a step of c that a stream's life depends on. *)
Writes(c) ==
  \/ UNCHANGED written /\ call[c].pc \notin {"insert", "write_live", "pause", "resume", "write_ended", "cancel"}
     /\ (call'[c].pc = "episode" => ~At(c, "podcast"))
  \/ UNCHANGED written /\ call'[c] = Idle
  \/ InsertStream(c) \/ WriteLive(c) \/ WritePausedOrResumed(c)
  \/ WriteEnded(c) \/ WriteCancelled(c) \/ CreatePodcast(c)

LEMMA GotoAdvances ==
  ASSUME Typed, NEW c \in Workers, call[c].pc # "idle", NEW pc \in After(call[c].pc), Goto(c, pc),
         pc = "podcast" => call[c].url
  PROVE  Advances(c) /\ call'[c].pc = pc
<1>1. call \in [Workers -> Call] /\ call[c] \in Call
  BY DEF Typed, CallsOK
<1>2. call'[c] = [call[c] EXCEPT !.pc = pc] /\ \A d \in Workers \ {c} : call'[d] = call[d]
  BY <1>1 DEF Goto
<1>3. call'[c].pc = pc /\ call'[c].stream = call[c].stream /\ call'[c].url = call[c].url
  BY <1>1, <1>2 DEF Call
<1> QED
  BY <1>2, <1>3 DEF Advances

LEMMA ReturnAdvances ==
  ASSUME Typed, NEW c \in Workers, call[c].pc # "idle", Return(c)
  PROVE  Advances(c) /\ call'[c] = Idle
  BY DEF Typed, CallsOK, Return, Advances

LEMMA StepAdvances ==
  ASSUME Typed, NEW c \in Workers, Step(c) \/ Fails(c)
  PROVE  Advances(c) /\ Writes(c)
<1> USE DEF At, written
<1>0. call \in [Workers -> Call] /\ call[c] \in Call
  BY DEF Typed, CallsOK
<1>1. CASE InsertStream(c)
  <2>1. PICK st : call' = [call EXCEPT ![c].pc = "first_room", ![c].stream = st]
    BY <1>1 DEF InsertStream
  <2>2. /\ call'[c].pc = "first_room" /\ call'[c].url = call[c].url
        /\ \A d \in Workers \ {c} : call'[d] = call[d]
    BY <1>0, <2>1 DEF Call
  <2> QED
    BY <1>1, <2>2 DEF InsertStream, Advances, Writes, After
<1>2. CASE CreateFirstRoom(c)
  BY <1>2, ReturnAdvances DEF CreateFirstRoom, Writes
<1>3. CASE Encode(c)
  BY <1>3, GotoAdvances DEF Encode, Writes, After, rows
<1>4. CASE WriteLive(c)
  BY <1>4, GotoAdvances DEF WriteLive, Writes, After
<1>5. CASE Arm(c)
  BY <1>5, ReturnAdvances DEF Arm, Writes, rows
<1>6. CASE WritePausedOrResumed(c)
  BY <1>6, ReturnAdvances DEF WritePausedOrResumed, Writes
<1>7. CASE Stop(c)
  BY <1>7, GotoAdvances DEF Stop, Writes, After, rows
<1>8. CASE Convert(c)
  <2>1. PICK url : call' = [call EXCEPT ![c].pc = "write_ended", ![c].url = url]
    BY <1>8 DEF Convert
  <2>2. /\ call'[c].pc = "write_ended" /\ call'[c].stream = call[c].stream
        /\ \A d \in Workers \ {c} : call'[d] = call[d]
    BY <1>0, <2>1 DEF Call
  <2> QED
    BY <1>8, <2>2 DEF Convert, Advances, Writes, After, rows
<1>9. CASE WriteEnded(c)
  BY <1>9, GotoAdvances DEF WriteEnded, Writes, After
<1>10. CASE CloseRooms(c)
  BY <1>10, GotoAdvances, ReturnAdvances DEF CloseRooms, Writes, After
<1>11. CASE CreatePodcast(c)
  BY <1>11, GotoAdvances, ReturnAdvances DEF CreatePodcast, Writes, After
<1>12. CASE CreateEpisode(c)
  BY <1>12, ReturnAdvances DEF CreateEpisode, Writes
<1>13. CASE WriteCancelled(c)
  BY <1>13, GotoAdvances DEF WriteCancelled, Writes, After
<1>14. CASE CancelTimer(c)
  BY <1>14, GotoAdvances DEF CancelTimer, Writes, After, rows
<1>15. CASE CloseCancelled(c)
  BY <1>15, ReturnAdvances DEF CloseCancelled, Writes
<1>16. CASE Fails(c)
  <2>1. call[c].pc # "idle" /\ Return(c) /\ UNCHANGED written
    BY <1>16 DEF Fails, rows
  <2> QED
    BY <2>1, ReturnAdvances DEF Writes
<1> QED
  BY <1>1, <1>2, <1>3, <1>4, <1>5, <1>6, <1>7, <1>8, <1>9, <1>10, <1>11, <1>12, <1>13, <1>14, <1>15,
     <1>16 DEF Step

(* A call begins, for a request or a timer. *)
Begins(c, pc, st) ==
  /\ At(c, "idle")
  /\ call'[c] = [Idle EXCEPT !.pc = pc, !.stream = st]
  /\ \A d \in Workers \ {c} : call'[d] = call[d]
  /\ UNCHANGED <<status, recordingUrl, podcasts>>

(* What an operation on a stream is decided on. *)
Decided(pc, s) ==
  \/ pc = "encode" /\ s \in Startable
  \/ pc = "pause" /\ s = "LIVE"
  \/ pc = "resume" /\ s = "PAUSED"
  \/ pc = "stop" /\ s \in Endable
  \/ pc = "cancel" /\ s \in Cancellable

LEMMA BeginBegins ==
  ASSUME Typed, NEW c \in Workers, NEW pc, NEW st, Begin(c, pc, st),
         UNCHANGED <<status, recordingUrl, podcasts>>
  PROVE  Begins(c, pc, st)
  BY DEF Typed, CallsOK, Begin, Begins

LEMMA RequestBegins ==
  ASSUME Typed, NEW c \in Calls, Request(c)
  PROVE  \/ CreateStream(c) /\ Begins(c, "insert", None) /\ UNCHANGED raced
         \/ \E st \in Streams, pc \in {"encode", "pause", "resume", "cancel"} :
              Begins(c, pc, st) /\ Decided(pc, status[st]) /\ UNCHANGED raced
         \/ \E st \in Streams :
              Begins(c, "stop", st) /\ Decided("stop", status[st]) /\ NoteRace(st, Ending(st) # {})
<1>1. c \in Workers
  BY DEF Workers
<1>2. CASE CreateStream(c)
  BY <1>1, <1>2, BeginBegins DEF CreateStream, rows
<1>3. ASSUME NEW st \in Streams, StartStream(c, st)
      PROVE  Begins(c, "encode", st) /\ Decided("encode", status[st]) /\ UNCHANGED raced
  BY <1>1, <1>3, BeginBegins DEF StartStream, rows, Decided
<1>4. ASSUME NEW st \in Streams, PauseStream(c, st)
      PROVE  Begins(c, "pause", st) /\ Decided("pause", status[st]) /\ UNCHANGED raced
  BY <1>1, <1>4, BeginBegins DEF PauseStream, rows, Decided
<1>5. ASSUME NEW st \in Streams, ResumeStream(c, st)
      PROVE  Begins(c, "resume", st) /\ Decided("resume", status[st]) /\ UNCHANGED raced
  BY <1>1, <1>5, BeginBegins DEF ResumeStream, rows, Decided
<1>6. ASSUME NEW st \in Streams, CancelStream(c, st)
      PROVE  Begins(c, "cancel", st) /\ Decided("cancel", status[st]) /\ UNCHANGED raced
  BY <1>1, <1>6, BeginBegins DEF CancelStream, rows, Decided
<1>7. ASSUME NEW st \in Streams, EndStream(c, st)
      PROVE  Begins(c, "stop", st) /\ Decided("stop", status[st]) /\ NoteRace(st, Ending(st) # {})
  BY <1>1, <1>7, BeginBegins DEF EndStream, rows, Decided
<1> QED
  BY <1>2, <1>3, <1>4, <1>5, <1>6, <1>7 DEF Request

LEMMA TimerBegins ==
  ASSUME Typed, NEW st \in Streams, TimerFires(st)
  PROVE  \/ Begins(Timeout, "stop", st) /\ Decided("stop", status[st]) /\ NoteRace(st, Ending(st) # {})
         \/ UNCHANGED <<status, recordingUrl, podcasts, raced, call>>
<1>1. Timeout \in Workers
  BY DEF Workers
<1> QED
  BY <1>1, BeginBegins DEF TimerFires, rows, Decided

-----------------------------------------------------------------------------
(* How many streams are active: those that are, and those a call may make  *)
(* so again, are no more than the calls that are not about to create one.  *)

Reviving == {"encode", "write_live", "pause", "resume"}

Active == {st \in Streams : status[st] \in ActiveStatuses}
Revivers == {c \in Calls : call[c].pc \in Reviving}
Revived == {call[c].stream : c \in Revivers}
Inserting == {c \in Calls : At(c, "insert")}

ActiveInv ==
  /\ IsFiniteSet(Active \cup Revived)
  /\ Cardinality(Active \cup Revived) + Cardinality(Inserting) <= Cardinality(Calls)
  /\ call[Timeout].pc \in EndPCs \cup {"idle"}

LEMMA CallSets ==
  /\ IsFiniteSet(Revivers) /\ IsFiniteSet(Inserting) /\ IsFiniteSet(Inserting')
  /\ Cardinality(Calls) \in Nat /\ Cardinality(Revivers) \in Nat
  /\ Cardinality(Inserting) \in Nat /\ Cardinality(Inserting') \in Nat
<1>1. Revivers \subseteq Calls /\ Inserting \subseteq Calls /\ Inserting' \subseteq Calls
  BY DEF Revivers, Inserting
<1> QED
  BY <1>1, FS_Subset, FS_CardinalityType

(* A step after which nothing may be active that might not before. *)
LEMMA ActiveShrinks ==
  ASSUME ActiveInv, (Active \cup Revived)' \subseteq Active \cup Revived, Inserting' \subseteq Inserting,
         call'[Timeout].pc \in EndPCs \cup {"idle"}
  PROVE  ActiveInv'
<1>1. /\ IsFiniteSet((Active \cup Revived)')
      /\ Cardinality((Active \cup Revived)') <= Cardinality(Active \cup Revived)
  BY FS_Subset DEF ActiveInv
<1>2. Cardinality(Inserting') <= Cardinality(Inserting)
  BY CallSets, FS_Subset
<1>3. Cardinality(Active \cup Revived) \in Nat /\ Cardinality((Active \cup Revived)') \in Nat
  BY <1>1, FS_CardinalityType DEF ActiveInv
<1> QED
  BY <1>1, <1>2, <1>3, CallSets DEF ActiveInv

(* Nothing is active: what may be so again is one stream a reviver.        *)
LEMMA CreationCounts ==
  ASSUME Typed, ActiveInv, NEW c \in Calls, CreateStream(c), Begins(c, "insert", None)
  PROVE  ActiveInv'
<1>1. Active = {} /\ Active' = {}
  BY DEF CreateStream, Active, Begins
<1>2. c \notin Revivers /\ c \notin Inserting
  BY DEF Begins, At, Revivers, Inserting, Reviving
<1>3. call'[c].pc = "insert" /\ \A d \in Calls \ {c} : call'[d] = call[d]
  BY DEF Begins, Idle, Workers
<1>4. Revivers' = Revivers /\ Revived' = Revived /\ Inserting' = Inserting \cup {c}
  BY <1>2, <1>3 DEF Revivers, Revived, Inserting, At, Reviving
<1>5. IsFiniteSet(Revived) /\ Cardinality(Revived) <= Cardinality(Revivers)
  <2> DEFINE f == [d \in Revivers |-> call[d].stream]
  <2>1. f \in Surjection(Revivers, Revived)
    BY DEF Surjection, Revived
  <2> HIDE DEF f
  <2> QED
    BY <2>1, CallSets, FS_Surjection
<1>6. Revivers \cup Inserting' \subseteq Calls /\ Revivers \cap Inserting' = {}
  BY <1>2, <1>4 DEF Revivers, Inserting, At, Reviving
<1>7. Cardinality(Revivers) + Cardinality(Inserting') <= Cardinality(Calls)
  <2>1. Cardinality(Revivers \cup Inserting') = Cardinality(Revivers) + Cardinality(Inserting') - Cardinality({})
    BY <1>6, CallSets, FS_Union
  <2>2. Cardinality(Revivers \cup Inserting') <= Cardinality(Calls)
    BY <1>6, FS_Subset
  <2> QED
    BY <2>1, <2>2, CallSets, FS_EmptySet
<1>8. Cardinality(Revived) \in Nat
  BY <1>5, FS_CardinalityType
<1>9. (Active \cup Revived)' = Revived
  BY <1>1, <1>4
<1>10. call'[Timeout].pc \in EndPCs \cup {"idle"}
  BY DEF ActiveInv, Begins, Workers
<1>11. Cardinality(Revived) + Cardinality(Inserting') <= Cardinality(Calls)
  BY <1>5, <1>7, <1>8, CallSets
<1>12. IsFiniteSet((Active \cup Revived)') /\ Cardinality((Active \cup Revived)') = Cardinality(Revived)
  BY <1>5, <1>9
<1> QED
  BY <1>10, <1>11, <1>12 DEF ActiveInv

(* A stream is inserted: a call less is about to.                          *)
LEMMA InsertionCounts ==
  ASSUME Typed, ActiveInv, NEW c \in Workers, InsertStream(c), Advances(c)
  PROVE  ActiveInv'
<1>1. c \in Calls /\ c # Timeout /\ c \in Inserting
  BY DEF InsertStream, At, ActiveInv, EndPCs, Workers, Inserting
<1>2. call'[c].pc \in {"first_room", "idle"} /\ \A d \in Workers \ {c} : call'[d] = call[d]
  <2>1. call[c].pc = "insert"
    BY DEF InsertStream, At
  <2> QED
    BY <2>1 DEF Advances, After, Idle
<1>3. Inserting' = Inserting \ {c} /\ Revivers' = Revivers /\ Revived' = Revived
  BY <1>1, <1>2 DEF Inserting, Revivers, Revived, Reviving, At, Workers
<1>4. PICK st \in Streams : \E new : SetStatus(st, new)
  BY DEF InsertStream
<1>5. (Active \cup Revived)' \subseteq (Active \cup Revived) \cup {st}
  BY <1>3, <1>4 DEF SetStatus, Active, Typed, RowsOK
<1>6. /\ IsFiniteSet((Active \cup Revived) \cup {st})
      /\ Cardinality((Active \cup Revived) \cup {st}) <= Cardinality(Active \cup Revived) + 1
  <2>1. PICK s : s = Active \cup Revived
    OBVIOUS
  <2>2. IsFiniteSet(s) /\ Cardinality(s) \in Nat
    BY <2>1, FS_CardinalityType DEF ActiveInv
  <2>3. /\ IsFiniteSet(s \cup {st})
        /\ Cardinality(s \cup {st}) = Cardinality(s) \/ Cardinality(s \cup {st}) = Cardinality(s) + 1
    BY <2>2, FS_AddElement
  <2> QED
    BY <2>1, <2>2, <2>3
<1>7. /\ IsFiniteSet((Active \cup Revived)')
      /\ Cardinality((Active \cup Revived)') <= Cardinality((Active \cup Revived) \cup {st})
  BY <1>5, <1>6, FS_Subset
<1>8. Cardinality(Inserting') = Cardinality(Inserting) - 1
  BY <1>1, <1>3, CallSets, FS_RemoveElement
<1>9. /\ Cardinality(Active \cup Revived) \in Nat /\ Cardinality((Active \cup Revived)') \in Nat
      /\ Cardinality((Active \cup Revived) \cup {st}) \in Nat
  BY <1>6, <1>7, FS_CardinalityType DEF ActiveInv
<1>10. call'[Timeout].pc \in EndPCs \cup {"idle"}
  BY <1>1, <1>2 DEF ActiveInv, Workers
<1> QED
  BY <1>6, <1>7, <1>8, <1>9, <1>10, CallSets DEF ActiveInv

LEMMA NextActive ==
  ASSUME Typed, ActiveInv, [Next]_vars
  PROVE  ActiveInv'
<1>0. Timeout \in Workers /\ Calls \subseteq Workers /\ Timeout \notin Calls
  BY DEF Workers
<1>1. CASE UNCHANGED <<status, call>>
  <2>1. (Active \cup Revived)' = Active \cup Revived /\ Inserting' = Inserting
    BY <1>1 DEF Active, Revived, Revivers, Inserting, At
  <2> QED
    BY <1>1, <2>1, ActiveShrinks DEF ActiveInv
<1>2. ASSUME NEW c \in Workers, NEW st \in Streams, NEW pc, Begins(c, pc, st), Decided(pc, status[st]),
             c = Timeout => pc = "stop"
      PROVE  ActiveInv'
  <2>1. /\ call'[c].pc = pc /\ call'[c].stream = st /\ pc # "insert"
        /\ \A d \in Workers \ {c} : call'[d] = call[d]
    BY <1>2 DEF Begins, Idle, Decided
  <2>2. pc \in Reviving => st \in Active
    BY <1>2 DEF Decided, Reviving, Active, Startable, ActiveStatuses
  <2>3. Active' = Active /\ Inserting' \subseteq Inserting
    BY <1>0, <1>2, <2>1 DEF Begins, Active, Inserting, At
  <2>5. \A d \in Revivers' : (d \in Revivers /\ call'[d].stream = call[d].stream) \/ call'[d].stream \in Active
    BY <1>0, <2>1, <2>2 DEF Revivers
  <2>6. (Active \cup Revived)' \subseteq Active \cup Revived
    BY <2>3, <2>5 DEF Revived
  <2>4. call'[Timeout].pc \in EndPCs \cup {"idle"}
    BY <1>0, <1>2, <2>1 DEF ActiveInv, EndPCs
  <2> QED
    BY <2>3, <2>4, <2>6, ActiveShrinks
<1>3. ASSUME NEW c \in Calls, Request(c) PROVE ActiveInv'
  BY <1>0, <1>2, <1>3, RequestBegins, CreationCounts
<1>4. ASSUME NEW st \in Streams, TimerFires(st) PROVE ActiveInv'
  BY <1>0, <1>1, <1>2, <1>4, TimerBegins
<1>5. ASSUME NEW c \in Workers, Step(c) \/ Fails(c) PROVE ActiveInv'
  <2>1. Advances(c) /\ Writes(c)
    BY <1>5, StepAdvances
  <2>2. CASE InsertStream(c)
    BY <2>1, <2>2, InsertionCounts
  <2>3. CASE ~InsertStream(c)
    <3>1. call'[Timeout].pc \in EndPCs \cup {"idle"}
      BY <1>0, <2>1 DEF Advances, After, ActiveInv, EndPCs, Idle
    <3>2. \A d \in Calls : /\ call'[d].pc = "insert" => call[d].pc = "insert"
                           /\ call'[d].pc \in Reviving => call[d].pc \in Reviving /\ call'[d].stream = call[d].stream
      BY <1>0, <2>1 DEF Advances, After, Reviving, Idle
    <3>3. Revived' \subseteq Revived /\ Inserting' \subseteq Inserting
      BY <3>2 DEF Revived, Revivers, Inserting, At
    <3>4. CASE WriteLive(c) \/ WritePausedOrResumed(c)
      <4>1. call[c].pc \in Reviving
        BY <3>4 DEF WriteLive, WritePausedOrResumed, At, Reviving
      <4>2. c \in Calls /\ call[c].stream \in Revived
        BY <1>0, <4>1 DEF ActiveInv, EndPCs, Reviving, Workers, Revived, Revivers
      <4>3. \A o \in Streams : o # call[c].stream => status'[o] = status[o]
        BY <3>4 DEF WriteLive, WritePausedOrResumed, Revise, SetStatus, Typed, RowsOK
      <4>4. (Active \cup Revived)' \subseteq Active \cup Revived
        BY <3>3, <4>2, <4>3 DEF Active
      <4> QED
        BY <3>1, <3>3, <4>4, ActiveShrinks
    <3>5. CASE ~(WriteLive(c) \/ WritePausedOrResumed(c))
      <4>1. \A o \in Streams : status'[o] \in {status[o], "ENDED", "CANCELLED"}
        BY <2>1, <2>3, <3>5 DEF Writes, written, WriteEnded, WriteCancelled, CreatePodcast, Revise, SetStatus,
           Typed, RowsOK
      <4>2. (Active \cup Revived)' \subseteq Active \cup Revived
        BY <3>3, <4>1 DEF Active, ActiveStatuses
      <4> QED
        BY <3>1, <3>3, <4>2, ActiveShrinks
    <3> QED
      BY <3>4, <3>5
  <2> QED
    BY <2>2, <2>3
<1>6. CASE ServerRestart
  <2>1. \A c \in Workers : call'[c].pc = "idle"
    BY <1>6 DEF ServerRestart, Idle
  <2>2. (Active \cup Revived)' \subseteq Active \cup Revived /\ Inserting' \subseteq Inserting
    BY <1>0, <1>6, <2>1 DEF ServerRestart, rows, Active, Revived, Revivers, Inserting, At, Reviving
  <2> QED
    BY <1>0, <2>1, <2>2, ActiveShrinks
<1>7. ASSUME NEW st \in Streams, NEW e \in Encoders, EncoderExits(st, e) PROVE ActiveInv'
  BY <1>1, <1>7 DEF EncoderExits, rows
<1> QED
  BY <1>1, <1>3, <1>4, <1>5, <1>6, <1>7 DEF Next, vars

LEMMA InitActive == Init => ActiveInv
<1> SUFFICES ASSUME Init PROVE ActiveInv
  OBVIOUS
<1>1. Active = {} /\ Revived = {} /\ Inserting = {} /\ call[Timeout].pc = "idle"
  BY DEF Init, Active, ActiveStatuses, Revived, Revivers, Reviving, Inserting, At, Idle, Workers
<1>2. Cardinality({}) = 0 /\ IsFiniteSet({})
  BY FS_EmptySet
<1> QED
  BY <1>1, <1>2, CallSets DEF ActiveInv

(* However creations, stale writes, failures, timers and restarts overlap, *)
(* a host has no more active streams than requests that overlap            *)
(* (LiveStreamService.createStream).                                       *)
THEOREM ActiveBoundedCorrect == Spec => []ActiveBounded
<1>1. ActiveInv => ActiveBounded
  <2> SUFFICES ASSUME ActiveInv PROVE Cardinality(Active) <= Cardinality(Calls)
    BY DEF ActiveBounded, Active
  <2>1. Cardinality(Active) <= Cardinality(Active \cup Revived)
    BY FS_Subset DEF ActiveInv
  <2>2. IsFiniteSet(Active) /\ Cardinality(Active) \in Nat /\ Cardinality(Active \cup Revived) \in Nat
    BY FS_Subset, FS_CardinalityType DEF ActiveInv
  <2> QED
    BY <2>1, <2>2, CallSets DEF ActiveInv
<1>2. Typed /\ ActiveInv /\ [Next]_vars => ActiveInv'
  BY NextActive
<1> QED
  BY <1>1, <1>2, InitActive, InitTyped, NextTyped, PTL DEF Spec

-----------------------------------------------------------------------------
(* The recording of a stream that was ended once.                          *)

Publishing(st) == Ongoing({"close_rooms", "podcast"}, st)

(* One call ends the stream; nothing publishes it before it has ended, and *)
(* what does then has the URL that is stored.                              *)
Kept(st) ==
  /\ \A c, d \in Ending(st) : c = d
  /\ status[st] # "ENDED" => podcasts[st] = 0 /\ Publishing(st) = {}
  /\ status[st] = "ENDED" =>
       /\ Ending(st) = {}
       /\ recordingUrl[st] \/ (podcasts[st] = 0 /\ \A c \in Publishing(st) : ~call[c].url)

PlansOK == \A c \in Workers : /\ At(c, "podcast") => call[c].url
                              /\ At(c, "insert") => call[c].stream = None

KeptInv == PlansOK /\ \A st \in Streams \ raced : Kept(st)

(* The stream is left alone, or written while it has not ended. *)
LEMMA KeptStays ==
  ASSUME NEW st, Kept(st),
         status'[st] = "ENDED" <=> status[st] = "ENDED",
         recordingUrl'[st] = recordingUrl[st], podcasts'[st] = podcasts[st],
         Ending(st)' \subseteq Ending(st),
         \A c \in Publishing(st)' : c \in Publishing(st) /\ call'[c].url = call[c].url
  PROVE  Kept(st)'
<1>1. \A c, d \in Ending(st)' : c = d
  BY DEF Kept
<1>2. status'[st] # "ENDED" => podcasts'[st] = 0 /\ Publishing(st)' = {}
  BY DEF Kept
<1>3. status'[st] = "ENDED" =>
        /\ Ending(st)' = {}
        /\ recordingUrl'[st] \/ (podcasts'[st] = 0 /\ \A c \in Publishing(st)' : ~call'[c].url)
  BY DEF Kept
<1> QED
  BY <1>1, <1>2, <1>3 DEF Kept

LEMMA BeginsPlans ==
  ASSUME PlansOK, NEW c \in Workers, NEW pc, NEW st, Begins(c, pc, st), pc # "podcast",
         pc = "insert" => st = None
  PROVE  PlansOK'
<1>1. call'[c].pc = pc /\ call'[c].stream = st /\ \A d \in Workers \ {c} : call'[d] = call[d]
  BY DEF Begins, Idle
<1> QED
  BY <1>1 DEF PlansOK, At

LEMMA AdvancesPlans ==
  ASSUME PlansOK, NEW c \in Workers, Advances(c)
  PROVE  PlansOK'
<1>1. call'[c].pc # "insert" /\ (call'[c].pc = "podcast" => call'[c].url)
  BY DEF Advances, After, Idle
<1> QED
  BY <1>1 DEF PlansOK, At, Advances

LEMMA BeginsKept ==
  ASSUME NEW st \in Streams, Kept(st), NEW c \in Workers, NEW pc, NEW t, Begins(c, pc, t),
         pc \in {"insert", "encode", "pause", "resume", "cancel"} \/ (pc = "stop" /\ t # st)
  PROVE  Kept(st)'
<1>1. call'[c].pc = pc /\ call'[c].stream = t /\ \A d \in Workers \ {c} : call'[d] = call[d]
  BY DEF Begins, Idle
<1>2. Ending(st)' \subseteq Ending(st) /\ \A d \in Publishing(st)' : d \in Publishing(st) /\ call'[d].url = call[d].url
  BY <1>1 DEF Ending, Publishing, Ongoing
<1> QED
  BY <1>2, KeptStays DEF Begins

(* An endStream begins; no other works on the stream, or it is a race.     *)
LEMMA EndKept ==
  ASSUME NEW st \in Streams, Kept(st), NEW c \in Workers, Begins(c, "stop", st), Decided("stop", status[st]),
         Ending(st) = {}
  PROVE  Kept(st)'
<1>1. call'[c].pc = "stop" /\ \A d \in Workers \ {c} : call'[d] = call[d]
  BY DEF Begins, Idle
<1>2. Ending(st)' \subseteq {c} /\ Publishing(st)' \subseteq Publishing(st)
  BY <1>1 DEF Ending, Publishing, Ongoing
<1>3. status[st] # "ENDED" /\ status' = status /\ podcasts' = podcasts
  BY DEF Decided, Endable, Begins
<1> QED
  BY <1>2, <1>3 DEF Kept

LEMMA StepKept ==
  ASSUME Typed, PlansOK, NEW st \in Streams, Kept(st), NEW c \in Workers, Advances(c), Writes(c), st \notin raced'
  PROVE  Kept(st)'
<1>0. /\ status \in [Streams -> Statuses] /\ podcasts \in [Streams -> Nat] /\ recordingUrl \in [Streams -> BOOLEAN]
      /\ st # None /\ \A d \in Workers \ {c} : call'[d] = call[d]
  BY DEF Typed, RowsOK, Advances
<1>1. ASSUME status'[st] = "ENDED" <=> status[st] = "ENDED",
             recordingUrl'[st] = recordingUrl[st], podcasts'[st] = podcasts[st],
             ~At(c, "write_ended") \/ call[c].stream # st \/ call'[c] = Idle
      PROVE  Kept(st)'
  <2>1. c \in Ending(st)' => c \in Ending(st)
    BY <1>0, <1>1 DEF Ending, Ongoing, Advances, After, Idle, At
  <2>2. c \in Publishing(st)' => c \in Publishing(st) /\ call'[c].url = call[c].url
    BY <1>0, <1>1 DEF Publishing, Ongoing, Advances, After, Idle, At
  <2>3. /\ Ending(st)' \subseteq Ending(st)
        /\ \A d \in Publishing(st)' : d \in Publishing(st) /\ call'[d].url = call[d].url
    BY <1>0, <2>1, <2>2 DEF Ending, Publishing, Ongoing
  <2> QED
    BY <1>1, <2>3, KeptStays
<1>2. CASE UNCHANGED written /\ (~At(c, "write_ended") \/ call'[c] = Idle)
  BY <1>1, <1>2 DEF written
<1>3. CASE InsertStream(c)
  <2>1. PICK new \in Streams, s \in {"SCHEDULED", "PREPARING"} : status[new] = "NONE" /\ SetStatus(new, s)
    BY <1>3 DEF InsertStream
  <2>2. status'[st] = "ENDED" <=> status[st] = "ENDED"
    BY <1>0, <2>1 DEF SetStatus
  <2> QED
    BY <1>1, <1>3, <2>2 DEF InsertStream, At
<1>4. CASE WriteLive(c) \/ WritePausedOrResumed(c) \/ WriteCancelled(c)
  <2>1. PICK s \in {"LIVE", "PAUSED", "CANCELLED"} : Revise(call[c].stream, s)
    BY <1>4 DEF WriteLive, WritePausedOrResumed, WriteCancelled
  <2>2. status'[st] = "ENDED" <=> status[st] = "ENDED"
    <3>1. CASE call[c].stream = st
      BY <1>0, <2>1, <3>1 DEF Revise, SetStatus, NoteRace
    <3>2. CASE call[c].stream # st
      BY <1>0, <2>1, <3>2 DEF Revise, SetStatus
    <3> QED
      BY <3>1, <3>2
  <2>3. UNCHANGED <<recordingUrl, podcasts>> /\ ~At(c, "write_ended")
    BY <1>4 DEF WriteLive, WritePausedOrResumed, WriteCancelled, At
  <2> QED
    BY <1>1, <2>2, <2>3
<1>5. CASE WriteEnded(c)
  <2>1. CASE call[c].stream # st
    <3>1. status'[st] = status[st] /\ recordingUrl'[st] = recordingUrl[st] /\ podcasts'[st] = podcasts[st]
      BY <1>0, <1>5, <2>1 DEF WriteEnded, SetStatus
    <3> QED
      BY <1>1, <2>1, <3>1
  <2>2. CASE call[c].stream = st
    <3>1. c \in Ending(st)
      BY <1>5, <2>2 DEF WriteEnded, At, Ending, Ongoing
    <3>2. Ending(st) = {c} /\ status[st] # "ENDED" /\ podcasts[st] = 0 /\ Publishing(st) = {}
      BY <3>1 DEF Kept
    <3>3. /\ status'[st] = "ENDED" /\ recordingUrl'[st] = call[c].url /\ podcasts'[st] = 0
      BY <1>0, <1>5, <2>2, <3>2 DEF WriteEnded, SetStatus
    <3>4. call'[c].pc = "close_rooms" /\ call'[c].url = call[c].url
      BY <1>5, GotoAdvances DEF WriteEnded, At, After, Typed, CallsOK, Call, Goto
    <3>5. Ending(st)' = {} /\ Publishing(st)' \subseteq {c}
      BY <1>0, <3>2, <3>4 DEF Ending, Publishing, Ongoing
    <3> QED
      BY <3>3, <3>4, <3>5 DEF Kept
  <2> QED
    BY <2>1, <2>2
<1>6. CASE CreatePodcast(c)
  <2>1. CASE call[c].stream # st
    <3>1. status'[st] = status[st] /\ recordingUrl'[st] = recordingUrl[st] /\ podcasts'[st] = podcasts[st]
      BY <1>0, <1>6, <2>1 DEF CreatePodcast
    <3> QED
      BY <1>1, <2>1, <3>1
  <2>2. CASE call[c].stream = st
    <3>1. c \in Publishing(st) /\ call[c].url
      BY <1>6, <2>2 DEF CreatePodcast, At, Publishing, Ongoing, PlansOK
    <3>2. status[st] = "ENDED" /\ Ending(st) = {} /\ recordingUrl[st]
      BY <3>1 DEF Kept
    <3>3. status' = status /\ recordingUrl' = recordingUrl
      BY <1>6 DEF CreatePodcast
    <3>4. Ending(st)' = {}
      <4>1. At(c, "podcast")
        BY <1>6 DEF CreatePodcast
      <4>2. c \notin Ending(st)'
        BY <4>1 DEF At, Advances, After, Idle, Ending, Ongoing
      <4> QED
        BY <1>0, <3>2, <4>2 DEF Ending, Ongoing
    <3> QED
      BY <3>2, <3>3, <3>4 DEF Kept
  <2> QED
    BY <2>1, <2>2
<1> QED
  BY <1>2, <1>3, <1>4, <1>5, <1>6 DEF Writes, At

LEMMA RacedGrows ==
  ASSUME [Next]_vars PROVE raced \subseteq raced'
<1>1. ASSUME NEW c \in Workers, Step(c) PROVE raced \subseteq raced'
  BY <1>1 DEF Step, InsertStream, CreateFirstRoom, Encode, WriteLive, Arm, WritePausedOrResumed, Stop,
     Convert, WriteEnded, CloseRooms, CreatePodcast, CreateEpisode, WriteCancelled, CancelTimer,
     CloseCancelled, Revise, NoteRace
<1>2. ASSUME NEW c \in Calls, Request(c) PROVE raced \subseteq raced'
  BY <1>2 DEF Request, CreateStream, StartStream, PauseStream, ResumeStream, EndStream, CancelStream, NoteRace
<1>3. ASSUME NEW st \in Streams, TimerFires(st) PROVE raced \subseteq raced'
  BY <1>3 DEF TimerFires, NoteRace
<1> QED
  BY <1>1, <1>2, <1>3 DEF Next, Fails, EncoderExits, ServerRestart, vars

LEMMA NextKept ==
  ASSUME Typed, KeptInv, [Next]_vars
  PROVE  KeptInv'
<1>0. raced \subseteq raced' /\ Calls \subseteq Workers /\ Timeout \in Workers
  BY RacedGrows DEF Workers
<1> SUFFICES PlansOK' /\ \A st \in Streams : st \notin raced' /\ Kept(st) => Kept(st)'
  BY <1>0 DEF KeptInv
<1>1. CASE UNCHANGED <<status, recordingUrl, podcasts, call>>
  <2>1. PlansOK'
    BY <1>1 DEF KeptInv, PlansOK, At
  <2>2. \A st \in Streams : Kept(st) => Kept(st)'
    BY <1>1 DEF Kept, Ending, Publishing, Ongoing
  <2> QED
    BY <2>1, <2>2
<1>2. ASSUME NEW c \in Workers, NEW t \in Streams, Begins(c, "stop", t), Decided("stop", status[t]),
             NoteRace(t, Ending(t) # {})
      PROVE  PlansOK' /\ \A st \in Streams : st \notin raced' /\ Kept(st) => Kept(st)'
  <2>1. \A st \in Streams : st # t /\ Kept(st) => Kept(st)'
    BY <1>2, BeginsKept
  <2>2. t \notin raced' /\ Kept(t) => Kept(t)'
    BY <1>2, EndKept DEF NoteRace
  <2> QED
    BY <1>2, <2>1, <2>2, BeginsPlans DEF KeptInv
<1>3. ASSUME NEW c \in Calls, Request(c)
      PROVE  PlansOK' /\ \A st \in Streams : st \notin raced' /\ Kept(st) => Kept(st)'
  <2>1. CASE Begins(c, "insert", None)
    BY <1>0, <2>1, BeginsKept, BeginsPlans DEF KeptInv
  <2>2. ASSUME NEW t \in Streams, NEW pc \in {"encode", "pause", "resume", "cancel"}, Begins(c, pc, t)
        PROVE  PlansOK' /\ \A st \in Streams : st \notin raced' /\ Kept(st) => Kept(st)'
    BY <1>0, <2>2, BeginsKept, BeginsPlans DEF KeptInv
  <2> QED
    BY <1>0, <1>2, <1>3, <2>1, <2>2, RequestBegins
<1>4. ASSUME NEW t \in Streams, TimerFires(t)
      PROVE  PlansOK' /\ \A st \in Streams : st \notin raced' /\ Kept(st) => Kept(st)'
  BY <1>0, <1>1, <1>2, <1>4, TimerBegins
<1>5. ASSUME NEW c \in Workers, Step(c) \/ Fails(c)
      PROVE  PlansOK' /\ \A st \in Streams : st \notin raced' /\ Kept(st) => Kept(st)'
  BY <1>5, StepAdvances, StepKept, AdvancesPlans DEF KeptInv
<1>6. CASE ServerRestart
  <2>1. \A c \in Workers : call'[c] = Idle
    BY <1>6 DEF ServerRestart
  <2>2. PlansOK'
    BY <2>1 DEF PlansOK, At, Idle
  <2>3. \A st \in Streams : Ending(st)' = {} /\ Publishing(st)' = {}
    BY <2>1 DEF Ending, Publishing, Ongoing, Idle
  <2>4. \A st \in Streams : Kept(st) => Kept(st)'
    BY <1>6, <2>3, KeptStays DEF ServerRestart, rows
  <2> QED
    BY <2>2, <2>4
<1>7. ASSUME NEW st \in Streams, NEW e \in Encoders, EncoderExits(st, e)
      PROVE  UNCHANGED <<status, recordingUrl, podcasts, call>>
  BY <1>7 DEF EncoderExits, rows
<1> QED
  BY <1>1, <1>3, <1>4, <1>5, <1>6, <1>7 DEF Next, vars

LEMMA InitKept == Init => KeptInv
  BY DEF Init, KeptInv, PlansOK, At, Kept, Ending, Publishing, Ongoing, Idle

(* Whatever else overlaps it, fails or restarts, an ended stream that      *)
(* became a podcast has the URL of its recording, unless two endStream     *)
(* calls worked on it at once or it was revived (LiveStreamService).       *)
THEOREM RecordingKeptCorrect == Spec => []RecordingKept
<1>1. Typed /\ KeptInv => RecordingKept
  BY DEF KeptInv, Kept, RecordingKept, Typed, RowsOK
<1>2. Typed /\ KeptInv /\ [Next]_vars => KeptInv'
  BY NextKept
<1> QED
  BY <1>1, <1>2, InitKept, InitTyped, NextTyped, PTL DEF Spec

-----------------------------------------------------------------------------
(* The overlapping operations implement Broadcast.                         *)

(* One call moves: its plan alone may change. *)
LEMMA PlanMoves ==
  ASSUME NEW c \in Workers, \A d \in Workers \ {c} : call'[d] = call[d]
  PROVE  [d \in Workers |-> Plan(d)]' = [[d \in Workers |-> Plan(d)] EXCEPT ![c] = Plan(c)']
<1>1. \A d \in Workers \ {c} : Plan(d)' = Plan(d)
  BY DEF Plan
<1> QED
  BY <1>1

LEMMA PlanDropped ==
  ASSUME NEW c \in Workers, \A d \in Workers \ {c} : call'[d] = call[d],
         UNCHANGED <<status, podcasts>>, Plan(c)' \in {None, Plan(c)}
  PROVE  [Life!Next]_(Life!vars)
<1>1. CASE Plan(c)' = None
  BY <1>1, PlanMoves DEF Life!Next, Life!Drop, Life!Adopt
<1>2. CASE Plan(c)' = Plan(c)
  <2>1. [d \in Workers |-> Plan(d)]' = [d \in Workers |-> Plan(d)]
    BY <1>2, PlanMoves
  <2> QED
    BY <2>1 DEF Life!vars
<1> QED
  BY <1>1, <1>2

LEMMA BeginsDecides ==
  ASSUME NEW c \in Workers, NEW st \in Streams, NEW pc, Begins(c, pc, st), Decided(pc, status[st])
  PROVE  Life!Next
<1>1. Plan(c) = None
  BY DEF Begins, At, Plan
<1>2. call'[c].pc = pc /\ call'[c].stream = st
  BY DEF Begins, Idle
<1>3. PICK to \in {"LIVE", "PAUSED", "ENDED", "CANCELLED"} :
        Plan(c)' = Life!Plan(to, st) /\ to \in Life!Allowed[status[st]]
  <2>1. CASE pc = "encode"
    BY <1>2, <2>1 DEF Plan, Life!Plan, Decided, Life!Allowed, Startable
  <2>2. CASE pc = "pause"
    BY <1>2, <2>2 DEF Plan, Life!Plan, Decided, Life!Allowed
  <2>3. CASE pc = "resume"
    BY <1>2, <2>3 DEF Plan, Life!Plan, Decided, Life!Allowed
  <2>4. CASE pc = "stop"
    BY <1>2, <2>4 DEF Plan, Life!Plan, Decided, Life!Allowed, Endable
  <2>5. CASE pc = "cancel"
    BY <1>2, <2>5 DEF Plan, Life!Plan, Decided, Life!Allowed, Cancellable
  <2> QED
    BY <2>1, <2>2, <2>3, <2>4, <2>5 DEF Decided
<1>4. Life!Decide(c, st, to)
  BY <1>1, <1>3, PlanMoves DEF Life!Decide, Life!Adopt, Begins
<1> QED
  BY <1>3, <1>4 DEF Life!Next

LEMMA CreationDecided ==
  ASSUME NEW c \in Workers, CreateStream(c), Begins(c, "insert", None)
  PROVE  Life!Next
<1>1. Plan(c) = None
  BY DEF Begins, At, Plan
<1>2. call'[c].pc = "insert" /\ call'[c].stream = None
  BY DEF Begins, Idle
<1>3. Plan(c)' = Life!Creation
  BY <1>2 DEF Plan, Life!Creation, Life!Plan
<1>4. Life!DecideCreation(c)
  BY <1>1, <1>3, PlanMoves DEF Life!DecideCreation, Life!Adopt, Begins, CreateStream, ActiveStatuses, Life!Active
<1> QED
  BY <1>4 DEF Life!Next

(* A planned status is written; who wrote ENDED may go on to publish.      *)
LEMMA StatusWritten ==
  ASSUME Typed, NEW c \in Workers, Advances(c), UNCHANGED podcasts, NEW to \in {"LIVE", "PAUSED", "ENDED", "CANCELLED"},
         SetStatus(call[c].stream, to), call[c].stream \in Streams,
         Plan(c) = Life!Plan(to, call[c].stream),
         Plan(c)' = None \/ (to = "ENDED" /\ Plan(c)' = Life!Plan("PODCAST", call[c].stream))
  PROVE  Life!Next
<1>1. Life!Operate(c, call[c].stream, to)
  BY PlanMoves DEF Life!Operate, Life!Adopt, SetStatus, Advances
<1> QED
  BY <1>1 DEF Life!Next

LEMMA StepLives ==
  ASSUME Typed, PlansOK, NEW c \in Workers, Advances(c), Writes(c)
  PROVE  [Life!Next]_(Life!vars)
<1>0. /\ status \in [Streams -> Statuses] /\ podcasts \in [Streams -> Nat]
      /\ \A d \in Workers \ {c} : call'[d] = call[d]
      /\ call[c].pc \notin {"idle", "insert"} => call[c].stream \in Streams
      /\ call[c].url \in BOOLEAN
  BY DEF Typed, RowsOK, Advances, CallsOK, CallsOnStreams, Call
<1>1. CASE UNCHANGED written /\ call'[c] = Idle
  <2>1. Plan(c)' = None
    BY <1>1 DEF Plan, Idle
  <2> QED
    BY <1>0, <1>1, <2>1, PlanDropped DEF written
<1>2. CASE /\ UNCHANGED written /\ call'[c] # Idle
           /\ call[c].pc \notin {"insert", "write_live", "pause", "resume", "write_ended", "cancel"}
  <2>1. /\ call'[c].pc \in After(call[c].pc) /\ call[c].pc # "idle"
        /\ call'[c].stream = call[c].stream
        /\ call[c].pc # "convert" => call'[c].url = call[c].url
    BY <1>2 DEF Advances
  <2>2. CASE call[c].pc = "encode"
    <3>1. Plan(c)' = Plan(c)
      BY <2>1, <2>2 DEF After, Plan
    <3> QED
      BY <1>0, <1>2, <3>1, PlanDropped DEF written
  <2>3. CASE call[c].pc \in {"stop", "convert"}
    <3>1. Plan(c)' = Plan(c)
      BY <2>1, <2>3 DEF After, Plan
    <3> QED
      BY <1>0, <1>2, <3>1, PlanDropped DEF written
  <2>4. CASE call[c].pc = "close_rooms"
    <3>1. Plan(c)' = Plan(c)
      BY <2>1, <2>4 DEF After, Plan
    <3> QED
      BY <1>0, <1>2, <3>1, PlanDropped DEF written
  <2>5. CASE call[c].pc \notin {"encode", "stop", "convert", "close_rooms"}
    <3>1. Plan(c)' = None
      BY <1>2, <2>1, <2>5 DEF After, Plan
    <3> QED
      BY <1>0, <1>2, <3>1, PlanDropped DEF written
  <2> QED
    BY <2>2, <2>3, <2>4, <2>5
<1>3. CASE InsertStream(c)
  <2>1. PICK st \in Streams, new \in {"SCHEDULED", "PREPARING"} : status[st] = "NONE" /\ SetStatus(st, new)
    BY <1>3 DEF InsertStream
  <2>2. Plan(c) = Life!Creation
    BY <1>3 DEF InsertStream, At, PlansOK, Plan, Life!Creation, Life!Plan
  <2>3. call'[c].pc \in {"first_room", "idle"}
    BY <1>3 DEF InsertStream, At, Advances, After, Idle
  <2>4. Plan(c)' = None
    BY <2>3 DEF Plan
  <2>5. Life!Create(c, st)
    BY <1>0, <1>3, <2>1, <2>2, <2>4, PlanMoves DEF Life!Create, Life!Adopt, SetStatus, InsertStream
  <2> QED
    BY <2>5 DEF Life!Next
<1>4. CASE WriteLive(c) \/ WritePausedOrResumed(c) \/ WriteCancelled(c)
  <2>1. /\ UNCHANGED podcasts /\ call[c].stream \in Streams
        /\ call'[c].pc \in {"arm", "cancel_timer", "idle"}
    BY <1>0, <1>4 DEF WriteLive, WritePausedOrResumed, WriteCancelled, At, Advances, After, Idle
  <2>2. Plan(c)' = None
    BY <2>1 DEF Plan
  <2>3. PICK to \in {"LIVE", "PAUSED", "CANCELLED"} :
          SetStatus(call[c].stream, to) /\ Plan(c) = Life!Plan(to, call[c].stream)
    BY <1>4 DEF WriteLive, WritePausedOrResumed, WriteCancelled, Revise, At, Plan, Life!Plan
  <2> QED
    BY <2>1, <2>2, <2>3, StatusWritten
<1>5. CASE WriteEnded(c)
  <2>1. /\ UNCHANGED podcasts /\ call[c].stream \in Streams /\ SetStatus(call[c].stream, "ENDED")
        /\ Plan(c) = Life!Plan("ENDED", call[c].stream)
        /\ call[c].pc = "write_ended"
    BY <1>0, <1>5 DEF WriteEnded, At, Plan, Life!Plan
  <2>2. call'[c] = Idle \/ (call'[c].pc = "close_rooms" /\ call'[c].stream = call[c].stream)
    BY <2>1 DEF Advances, After
  <2>3. Plan(c)' = None \/ Plan(c)' = Life!Plan("PODCAST", call[c].stream)
    BY <2>2 DEF Plan, Life!Plan, Idle
  <2> QED
    BY <2>1, <2>3, StatusWritten
<1>6. CASE CreatePodcast(c)
  <2>1. /\ call[c].pc = "podcast" /\ UNCHANGED status /\ call[c].stream \in Streams
        /\ Plan(c) = Life!Plan("PODCAST", call[c].stream)
    BY <1>0, <1>6 DEF CreatePodcast, At, PlansOK, Plan, Life!Plan
  <2>2. call'[c].pc \in {"episode", "idle"}
    BY <2>1 DEF Advances, After, Idle
  <2>3. Plan(c)' = None
    BY <2>2 DEF Plan
  <2>4. CASE podcasts[call[c].stream] = 0
    <3>1. PICK st \in Streams : st = call[c].stream
      BY <2>1
    <3>2. podcasts' = [podcasts EXCEPT ![st] = 1] /\ podcasts[st] = 0
      BY <1>6, <2>4, <3>1 DEF CreatePodcast
    <3>3. /\ {o \in Streams : podcasts'[o] > 0} = {o \in Streams : podcasts[o] > 0} \cup {st}
          /\ st \notin {o \in Streams : podcasts[o] > 0}
      BY <1>0, <3>2
    <3>4. Life!Publish(c, st)
      BY <1>0, <2>1, <2>3, <3>1, <3>3, PlanMoves DEF Life!Publish, Life!Adopt
    <3> QED
      BY <3>4 DEF Life!Next
  <2>5. CASE podcasts[call[c].stream] # 0
    BY <1>0, <1>6, <2>1, <2>3, <2>5, PlanDropped DEF CreatePodcast
  <2> QED
    BY <2>4, <2>5
<1> QED
  BY <1>1, <1>2, <1>3, <1>4, <1>5, <1>6 DEF Writes

LEMMA NextLife ==
  ASSUME Typed, KeptInv, [Next]_vars
  PROVE  [Life!Next]_(Life!vars)
<1>0. Calls \subseteq Workers /\ Timeout \in Workers
  BY DEF Workers
<1>1. CASE UNCHANGED <<status, podcasts, call>>
  <2>1. [d \in Workers |-> Plan(d)]' = [d \in Workers |-> Plan(d)]
    BY <1>1 DEF Plan
  <2> QED
    BY <1>1, <2>1 DEF Life!vars
<1>2. ASSUME NEW c \in Calls, Request(c) PROVE Life!Next
  BY <1>0, <1>2, RequestBegins, BeginsDecides, CreationDecided
<1>3. ASSUME NEW st \in Streams, TimerFires(st) PROVE [Life!Next]_(Life!vars)
  BY <1>0, <1>1, <1>3, TimerBegins, BeginsDecides
<1>4. ASSUME NEW c \in Workers, Step(c) \/ Fails(c) PROVE [Life!Next]_(Life!vars)
  BY <1>4, StepAdvances, StepLives DEF KeptInv
<1>5. CASE ServerRestart
  <2>1. \A c \in Workers : Plan(c)' = None
    BY <1>5 DEF ServerRestart, Plan, Idle
  <2>2. Life!DropAll
    BY <1>5, <2>1 DEF ServerRestart, rows, Life!DropAll
  <2> QED
    BY <2>2 DEF Life!Next
<1>6. ASSUME NEW st \in Streams, NEW e \in Encoders, EncoderExits(st, e)
      PROVE  UNCHANGED <<status, podcasts, call>>
  BY <1>6 DEF EncoderExits, rows
<1> QED
  BY <1>1, <1>2, <1>3, <1>4, <1>5, <1>6 DEF Next, vars

LEMMA InitLife == Init => Life!Init
<1>1. Init => \A c \in Workers : Plan(c) = None
  BY DEF Init, Plan, Idle
<1> QED
  BY <1>1 DEF Init, Life!Init

(* The operations, spread over several steps that overlap, fail and are    *)
(* cut short by restarts, implement Broadcast's decisions and writes.      *)
THEOREM LifeRefined == Spec => LifeSpec
<1>1. Typed /\ KeptInv /\ [Next]_vars => [Life!Next]_(Life!vars)
  BY NextLife
<1>2. Typed /\ KeptInv /\ [Next]_vars => KeptInv'
  BY NextKept
<1> QED
  BY <1>1, <1>2, InitKept, InitLife, InitTyped, NextTyped, PTL DEF Spec, LifeSpec, Life!Spec
==============================================================================
