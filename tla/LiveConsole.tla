------------------------------ MODULE LiveConsole ------------------------------
(***************************************************************************)
(* The page of the admin application from which a teacher broadcasts:      *)
(* its clicks, the requests they send and the microphone, recorder, socket *)
(* and timer that outlive the clicks in references.  A request is checked  *)
(* and written by the backend in two steps; clicks overlap, requests and   *)
(* answers get lost.                                                       *)
(***************************************************************************)
EXTENDS Naturals

CONSTANTS
  Streams,  \* ids of streams, never used twice (bounds the starts)
  Clicks,   \* identities for the clicks in progress (bounds them)
  None,
  MaxTimers \* bounds the intervals that overlapping resumptions leave running

ASSUME LiveConsoleAssumption == None \notin Streams /\ MaxTimers \in Nat

VARIABLES
  page,      \* the state of the component
  click,     \* the handlers in progress
  server,    \* LiveStream.status
  mics,      \* streams whose microphone is open and whose samples are emitted
  sockets,   \* streams whose socket has not been disconnected
  recorder,  \* the MediaRecorder of a stream
  socket,    \* socketRef, by the stream the socket was made for
  capture,   \* streamRef, audioCtxRef and mediaRecorderRef
  timers,    \* intervals that count the duration
  timer,     \* timerRef holds an interval that runs
  mishaps    \* what has gone wrong so far; nothing depends on it

vars == <<page, click, server, mics, sockets, recorder, socket, capture, timers, timer, mishaps>>
deviceVars == <<mics, sockets, recorder, socket, capture, timers, timer>>

Active == {"PREPARING", "LIVE", "PAUSED"}

(* status: what the teacher sees; stream: streamId; ptt: the mode in which *)
(* he talks while he presses a button.                                     *)
Page == [mounted : BOOLEAN, status : {"idle", "preparing", "live", "paused", "ended"},
         stream : Streams \cup {None}, loading : BOOLEAN, ptt : BOOLEAN]

Click == [op : {"create", "start", "pause", "resume", "end"},
          at : {"idle", "permission", "sent", "checked", "answered", "failed", "microphone"},
          stream : Streams \cup {None}]

(* sends: the event that its chunks are emitted with. *)
Recorder == [state : {"inactive", "recording", "paused"}, sends : {"audio-recording", "audio-data"}]

NoClick == [op |-> "create", at |-> "idle", stream |-> None]
NewRecorder == [state |-> "inactive", sends |-> "audio-recording"]

-----------------------------------------------------------------------------
Is(c, op, at) == click[c].op = op /\ click[c].at = at
Go(c, at) == click' = [click EXCEPT ![c].at = at]
Finish(c) == click' = [click EXCEPT ![c] = NoClick]

Resting == \A c \in Clicks : click[c].at = "idle"

(* A start may be overlapped by another start, until it reaches setLoading, *)
(* or by the page being left; other handlers may overlap as well.          *)
Overlap(op) ==
  IF op = "create" THEN {"two starts" : c \in {c \in Clicks : click[c].op \in {"create", "start"} /\ click[c].at # "idle"}}
                   ELSE {"overlap" : c \in {c \in Clicks : click[c].at # "idle"}}

(* A handler begins; that it overlaps another one is noted. *)
Begin(c, op, at, s) ==
  /\ page.mounted
  /\ click[c].at = "idle"
  /\ click' = [click EXCEPT ![c] = [op |-> op, at |-> at, stream |-> s]]
  /\ mishaps' = mishaps \cup Overlap(op)

(* A mutation: the microphone is not closed. *)
SilenceButMicrophone ==
  /\ recorder' = [s \in Streams |-> IF s = capture THEN [recorder[s] EXCEPT !.state = "inactive"] ELSE recorder[s]]
  /\ timers' = IF timer THEN timers - 1 ELSE timers
  /\ timer' = FALSE
  /\ UNCHANGED mics

(* What the references hold of a stream is stopped. *)
Silence ==
  /\ mics' = mics \ {capture}
  /\ recorder' = [s \in Streams |-> IF s = capture THEN [recorder[s] EXCEPT !.state = "inactive"] ELSE recorder[s]]
  /\ timers' = IF timer THEN timers - 1 ELSE timers
  /\ timer' = FALSE

StartTimer == timers < MaxTimers /\ timers' = timers + 1 /\ timer' = TRUE
StopTimer == timers' = (IF timer THEN timers - 1 ELSE timers) /\ timer' = FALSE

-----------------------------------------------------------------------------
(* Mutations: bugs the runs must notice; none of them belongs to the       *)
(* specification.                                                          *)

(* The page is paused although the request failed. *)
PauseFailsSilently(c) ==
  /\ Is(c, "pause", "answered")
  /\ page' = [page EXCEPT !.status = "live"]
  /\ StopTimer
  /\ Finish(c)
  /\ UNCHANGED <<server, mics, sockets, recorder, socket, capture, mishaps>>

(* The recorder is not resumed. *)
ResumedUnrecorded(c) ==
  /\ Is(c, "resume", "answered")
  /\ page' = [page EXCEPT !.status = "live"]
  /\ StartTimer
  /\ Finish(c)
  /\ UNCHANGED <<server, mics, sockets, recorder, socket, capture, mishaps>>

(* A running timer is started again. *)
StartedTwice(c) ==
  LET s == click[c].stream IN
  /\ Is(c, "start", "answered")
  /\ recorder' = [recorder EXCEPT ![s].state = "recording"]
  /\ page' = [page EXCEPT !.status = "live", !.loading = FALSE]
  /\ timers' = timers + 2 /\ timer' = TRUE
  /\ Finish(c)
  /\ UNCHANGED <<server, mics, sockets, socket, capture, mishaps>>

-----------------------------------------------------------------------------
(* The backend; StreamLifecycle has all the steps of these requests. *)

Accepts(op, s) ==
  CASE op = "create" -> \A x \in Streams : server[x] \notin Active
    [] op = "start"  -> server[s] \in {"PREPARING", "PAUSED"}
    [] op = "pause"  -> server[s] = "LIVE"
    [] op = "resume" -> server[s] = "PAUSED"
    [] op = "end"    -> server[s] \in {"LIVE", "PAUSED"}

StatusAfter(op) ==
  CASE op = "create" -> "PREPARING" [] op \in {"start", "resume"} -> "LIVE"
    [] op = "pause" -> "PAUSED" [] op = "end" -> "ENDED"

CheckRequest(c) ==
  /\ click[c].at = "sent"
  /\ Go(c, IF Accepts(click[c].op, click[c].stream) THEN "checked" ELSE "failed")
  /\ UNCHANGED <<page, server, deviceVars, mishaps>>

WriteRequest(c) ==
  /\ click[c].at = "checked"
  /\ \E s \in Streams :
       /\ IF click[c].op = "create" THEN server[s] = "none" ELSE s = click[c].stream
       /\ server' = [server EXCEPT ![s] = StatusAfter(click[c].op)]
       /\ click' = [click EXCEPT ![c].at = "answered", ![c].stream = s]
  /\ UNCHANGED <<page, deviceVars, mishaps>>

(* A request or its answer gets lost. *)
LoseRequest(c) ==
  /\ click[c].at \in {"sent", "answered"}
  /\ Go(c, "failed")
  /\ mishaps' = mishaps \cup {"lost"}
  /\ UNCHANGED <<page, server, deviceVars>>

(* The stream is over its time. *)
AutoEnd(s) ==
  /\ server[s] \in {"LIVE", "PAUSED"}
  /\ server' = [server EXCEPT ![s] = "ENDED"]
  /\ UNCHANGED <<page, click, deviceVars, mishaps>>

-----------------------------------------------------------------------------
(* startBroadcast. *)

SetMode(ptt) ==
  /\ page.mounted /\ page.status = "idle"
  /\ page' = [page EXCEPT !.ptt = ptt]
  /\ UNCHANGED <<click, server, deviceVars, mishaps>>

StartBroadcast(c) ==
  /\ page.status = "idle" /\ ~page.loading
  /\ Begin(c, "create", "permission", None)
  /\ UNCHANGED <<page, server, deviceVars>>

(* checkMicPermission: the button stays enabled until the answer. *)
CheckMicPermission(c) ==
  /\ Is(c, "create", "permission")
  /\ \/ Finish(c) /\ UNCHANGED page
     \/ Go(c, "sent") /\ page' = [page EXCEPT !.loading = TRUE]
  /\ UNCHANGED <<server, deviceVars, mishaps>>

(* The stream is created, the socket connects. *)
Created(c) ==
  LET s == click[c].stream IN
  /\ Is(c, "create", "answered")
  /\ page' = [page EXCEPT !.stream = s, !.status = "preparing"]
  /\ sockets' = sockets \cup {s}
  /\ socket' = s
  /\ click' = [click EXCEPT ![c].op = "start", ![c].at = "microphone"]
  /\ UNCHANGED <<server, mics, recorder, capture, timers, timer, mishaps>>

(* From now on the samples of the microphone are emitted. *)
OpenMicrophone(c) ==
  LET s == click[c].stream IN
  /\ Is(c, "start", "microphone")
  /\ mics' = mics \cup {s}
  /\ capture' = s
  /\ recorder' = [recorder EXCEPT ![s] = NewRecorder]
  /\ Go(c, "sent")
  /\ UNCHANGED <<page, server, sockets, socket, timers, timer, mishaps>>

MicrophoneFails(c) ==
  /\ Is(c, "start", "microphone")
  /\ Go(c, "failed")
  /\ mishaps' = mishaps \cup {"microphone"}
  /\ UNCHANGED <<page, server, deviceVars>>

(* A recorder cannot start on a microphone that was closed meanwhile. *)
Started(c) ==
  LET s == click[c].stream IN
  /\ Is(c, "start", "answered")
  /\ IF s \in mics
       THEN /\ recorder' = [recorder EXCEPT ![s].state = "recording"]
            /\ page' = [page EXCEPT !.status = "live", !.loading = FALSE]
            /\ StartTimer
            /\ Finish(c)
       ELSE Go(c, "failed") /\ UNCHANGED <<page, recorder, timers, timer>>
  /\ UNCHANGED <<server, mics, sockets, socket, capture, mishaps>>

(* The catch: nothing is closed and streamId stays. *)
StartFailed(c) ==
  /\ Is(c, "create", "failed") \/ Is(c, "start", "failed")
  /\ page' = [page EXCEPT !.status = "idle", !.loading = FALSE]
  /\ Finish(c)
  /\ UNCHANGED <<server, deviceVars, mishaps>>

-----------------------------------------------------------------------------
PauseBroadcast(c) ==
  /\ page.status = "live" /\ page.stream # None
  /\ Begin(c, "pause", "sent", page.stream)
  /\ UNCHANGED <<page, server, deviceVars>>

(* An inactive recorder throws: the page stays as it was. *)
Paused(c) ==
  /\ Is(c, "pause", "answered")
  /\ IF capture # None /\ recorder[capture].state = "inactive"
       THEN UNCHANGED <<page, recorder, timers, timer>>
       ELSE /\ recorder' = [s \in Streams |->
                 IF s = capture THEN [recorder[s] EXCEPT !.state = "paused"] ELSE recorder[s]]
            /\ page' = [page EXCEPT !.status = "paused"]
            /\ StopTimer
  /\ Finish(c)
  /\ UNCHANGED <<server, mics, sockets, socket, capture, mishaps>>

ResumeBroadcast(c) ==
  /\ page.status = "paused" /\ page.stream # None
  /\ Begin(c, "resume", "sent", page.stream)
  /\ UNCHANGED <<page, server, deviceVars>>

Resumed(c) ==
  /\ Is(c, "resume", "answered")
  /\ IF capture # None /\ recorder[capture].state = "inactive"
       THEN UNCHANGED <<page, recorder, timers, timer>>
       ELSE /\ recorder' = [s \in Streams |->
                 IF s = capture THEN [recorder[s] EXCEPT !.state = "recording"] ELSE recorder[s]]
            /\ page' = [page EXCEPT !.status = "live"]
            /\ StartTimer
  /\ Finish(c)
  /\ UNCHANGED <<server, mics, sockets, socket, capture, mishaps>>

(* The page only shows the error. *)
ChangeFailed(c) ==
  /\ Is(c, "pause", "failed") \/ Is(c, "resume", "failed")
  /\ Finish(c)
  /\ UNCHANGED <<page, server, deviceVars, mishaps>>

StopBroadcast(c) ==
  /\ page.status \in {"live", "paused"} /\ page.stream # None
  /\ Begin(c, "end", "sent", page.stream)
  /\ Silence
  /\ UNCHANGED <<page, server, sockets, socket, capture>>

(* Whatever became of the request. *)
Stopped(c) ==
  /\ Is(c, "end", "answered") \/ Is(c, "end", "failed")
  /\ sockets' = sockets \ {socket}
  /\ page' = [page EXCEPT !.status = "ended"]
  /\ Finish(c)
  /\ UNCHANGED <<server, mics, recorder, socket, capture, timers, timer, mishaps>>

ResetBroadcast ==
  /\ page.mounted /\ page.status = "ended"
  /\ page' = [page EXCEPT !.status = "idle", !.stream = None]
  /\ UNCHANGED <<click, server, deviceVars, mishaps>>

(* startPTT, stopPTT: a released recorder is replaced by one whose chunks  *)
(* are emitted as samples.                                                 *)
PressButton ==
  /\ page.mounted /\ page.status = "live" /\ page.ptt
  /\ capture \in mics /\ recorder[capture].state = "inactive"
  /\ recorder' = [recorder EXCEPT ![capture].state = "recording"]
  /\ UNCHANGED <<page, click, server, mics, sockets, socket, capture, timers, timer, mishaps>>

ReleaseButton ==
  /\ page.mounted /\ page.status = "live" /\ page.ptt
  /\ capture # None /\ recorder[capture].state = "recording"
  /\ recorder' = [recorder EXCEPT ![capture] = [state |-> "inactive", sends |-> "audio-data"]]
  /\ UNCHANGED <<page, click, server, mics, sockets, socket, capture, timers, timer, mishaps>>

(* The teacher leaves the page: the stopBroadcast of the first rendering,  *)
(* which knows of no stream, and the socket.                               *)
Unmount ==
  /\ page.mounted
  /\ page' = [page EXCEPT !.mounted = FALSE]
  /\ Silence
  /\ sockets' = sockets \ {socket}
  /\ mishaps' = IF Resting THEN mishaps ELSE mishaps \cup {"left early"}
  /\ UNCHANGED <<click, server, socket, capture>>

Next ==
  \/ \E c \in Clicks :
       \/ CheckRequest(c) \/ WriteRequest(c) \/ LoseRequest(c)
       \/ StartBroadcast(c) \/ CheckMicPermission(c) \/ Created(c)
       \/ OpenMicrophone(c) \/ MicrophoneFails(c) \/ Started(c) \/ StartFailed(c)
       \/ PauseBroadcast(c) \/ Paused(c) \/ ResumeBroadcast(c) \/ Resumed(c) \/ ChangeFailed(c)
       \/ StopBroadcast(c) \/ Stopped(c)
  \/ \E s \in Streams : AutoEnd(s)
  \/ \E ptt \in BOOLEAN : SetMode(ptt)
  \/ ResetBroadcast \/ PressButton \/ ReleaseButton \/ Unmount

Init ==
  /\ page = [mounted |-> TRUE, status |-> "idle", stream |-> None, loading |-> FALSE, ptt |-> FALSE]
  /\ click = [c \in Clicks |-> NoClick]
  /\ server = [s \in Streams |-> "none"]
  /\ mics = {} /\ sockets = {}
  /\ recorder = [s \in Streams |-> NewRecorder]
  /\ socket = None /\ capture = None
  /\ timers = 0 /\ timer = FALSE
  /\ mishaps = {}

Spec == Init /\ [][Next]_vars
-----------------------------------------------------------------------------
(* The page, the clicks and the devices keep their shape. *)
ConsoleTypeOK ==
  /\ page \in Page
  /\ click \in [Clicks -> Click]
  /\ server \in [Streams -> {"none", "PREPARING", "LIVE", "PAUSED", "ENDED"}]
  /\ mics \subseteq Streams /\ sockets \subseteq Streams
  /\ recorder \in [Streams -> Recorder]
  /\ socket \in Streams \cup {None} /\ capture \in Streams \cup {None}
  /\ timers \in Nat /\ timer \in BOOLEAN
  /\ mishaps \subseteq {"two starts", "left early", "overlap", "lost", "microphone"}

(* Whose samples reach the backend. *)
OnAir == {s \in mics : socket \in sockets}

(* No handler runs, and none of these mishaps ever happened. *)
Without(some) == Resting /\ mishaps \cap some = {}

(* When clicks do not overlap and nothing gets lost, a page at rest shows  *)
(* the state its stream has in the backend, unless the stream ran out of   *)
(* time; only a pause in button mode may leave the page live on a paused   *)
(* stream.                                                                 *)
PageAgrees ==
  (Without({"two starts", "overlap", "lost", "microphone"}) /\ page.mounted /\ page.stream # None) =>
    LET s == page.stream IN
    CASE page.status = "live"   -> server[s] \in {"LIVE", "ENDED"} \/ (page.ptt /\ server[s] = "PAUSED")
      [] page.status = "paused" -> server[s] \in {"PAUSED", "ENDED"}
      [] OTHER                  -> server[s] \in {"PREPARING", "ENDED"}

(* The duration on the page counts seconds, also after lost answers and    *)
(* failing microphones: one interval runs while the page is live, none     *)
(* otherwise.                                                              *)
TimerRuns ==
  (Without({"two starts", "overlap"}) /\ page.mounted) =>
    timers = (IF page.status = "live" THEN 1 ELSE 0)

(* A broadcast that is over, or whose page was left, keeps no microphone,  *)
(* socket, recorder or interval, even if an earlier start failed for its   *)
(* microphone: each of these lives outside the page's state and has to be  *)
(* closed through a reference to the latest one.                           *)
QuietWhenOver ==
  (Without({"two starts", "left early", "overlap", "lost"}) /\ (~page.mounted \/ page.status = "ended")) =>
    /\ mics = {} /\ sockets = {} /\ timers = 0
    /\ \A s \in Streams : recorder[s].state # "recording"

(* In continuous mode all sound is sent and recorded while the page is     *)
(* live, whatever pauses, lost answers and failed starts went before.      *)
LiveIsCaptured ==
  (Without({"two starts", "overlap"}) /\ page.mounted /\ page.status = "live" /\ ~page.ptt) =>
    /\ page.stream \in OnAir /\ capture = page.stream
    /\ recorder[capture] = [state |-> "recording", sends |-> "audio-recording"]

(* What the caption of the button mode tells the teacher: while he does    *)
(* not press the button nobody hears him.                                  *)
PttSilent ==
  (Without({"two starts", "overlap", "lost", "microphone"}) /\ page.mounted /\ page.status = "live" /\ page.ptt /\
   recorder[capture].state = "inactive") =>
    OnAir = {}
===============================================================================
