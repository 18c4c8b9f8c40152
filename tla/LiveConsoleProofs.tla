--------------------------- MODULE LiveConsoleProofs ---------------------------
(***************************************************************************)
(* Proofs about LiveConsole: what a page at rest shows, counts, sends and  *)
(* keeps.  The invariants say what holds while the only handler in         *)
(* progress waits.                                                         *)
(***************************************************************************)
EXTENDS LiveConsole, TLAPS

Busy(c) == click[c].at # "idle"

(* A handler beyond the first request of a start knows its stream. *)
StreamsKnown ==
  \A c \in Clicks : Busy(c) /\ (click[c].op # "create" \/ click[c].at = "answered") => click[c].stream \in Streams

(* timerRef holds an interval only if one runs. *)
Typed == ConsoleTypeOK /\ (timer => timers > 0) /\ StreamsKnown

(* None of these mishaps ever happened. *)
NoMishap(some) == mishaps \cap some = {}
Apart == NoMishap({"two starts", "overlap"})

(* At most one handler is in progress. *)
Alone == \A c, d \in Clicks : Busy(c) /\ Busy(d) => c = d

(* The stream of a live or paused page is heard and recorded. *)
Captured ==
  /\ page.stream \in mics /\ capture = page.stream
  /\ socket = page.stream /\ socket \in sockets
  /\ page.status = "live" /\ ~page.ptt
       => recorder[capture] = [state |-> "recording", sends |-> "audio-recording"]
  /\ page.status = "paused"
       => /\ recorder[capture].state = "paused"
          /\ ~page.ptt => recorder[capture].sends = "audio-recording"

(* One interval runs, or none, and timerRef knows. *)
Counting(running) == timer = running /\ timers = (IF running THEN 1 ELSE 0)

(* Between two handlers, and while c is in progress. *)
AtRest ==
  /\ page.status # "preparing"
  /\ Counting(page.status = "live")
  /\ page.status \in {"live", "paused"} => Captured

During(c) ==
  LET k == click[c] IN
  /\ k.op = "create" => page.status = "idle" /\ Counting(FALSE)
  /\ k.op = "start" => /\ page.status = "preparing" /\ page.stream = k.stream /\ Counting(FALSE)
                       /\ socket = k.stream /\ socket \in sockets
                       /\ k.at \in {"sent", "checked", "answered"}
                            => k.stream \in mics /\ capture = k.stream /\ recorder[k.stream] = NewRecorder
  /\ k.op = "pause" => page.status = "live" /\ page.stream = k.stream /\ Counting(TRUE) /\ Captured
  /\ k.op = "resume" => page.status = "paused" /\ page.stream = k.stream /\ Counting(FALSE) /\ Captured
  /\ k.op = "end" => page.status \in {"live", "paused"} /\ page.stream = k.stream /\ Counting(FALSE)

StageInv ==
  Apart => /\ Alone
           /\ page.mounted => /\ Resting => AtRest
                              /\ \A c \in Clicks : Busy(c) => During(c)

-----------------------------------------------------------------------------
Clean == NoMishap({"two starts", "overlap", "lost", "microphone"})

(* The statuses a live page may have in the backend. *)
LiveStatuses == {"LIVE", "ENDED"} \cup (IF page.ptt THEN {"PAUSED"} ELSE {})

(* What the backend has for the page between two handlers, and while c is  *)
(* in progress.                                                            *)
PageAtRest ==
  /\ page.status = "idle" => page.stream = None
  /\ page.status = "live" => server[page.stream] \in LiveStatuses
  /\ page.status = "paused" => server[page.stream] \in {"PAUSED", "ENDED"}
  /\ page.status = "ended" => server[page.stream] = "ENDED"

PageDuring(c) ==
  LET k == click[c]  now == server[k.stream] IN
  /\ k.op = "create" => page.stream = None /\ (k.at = "answered" => now = "PREPARING")
  /\ k.op = "start" => /\ k.at \in {"microphone", "sent", "checked", "answered"}
                       /\ now \in IF k.at = "answered" THEN {"LIVE", "ENDED"} ELSE {"PREPARING"}
  /\ k.op = "pause" => now \in CASE k.at = "checked" -> {"LIVE", "ENDED"}
                                 [] k.at = "answered" -> {"PAUSED", "ENDED"}
                                 [] OTHER -> LiveStatuses
  /\ k.op = "resume" => now \in IF k.at = "answered" THEN {"LIVE", "ENDED"} ELSE {"PAUSED", "ENDED"}
  /\ k.op = "end" => now \in IF k.at \in {"answered", "failed"} THEN {"ENDED"} ELSE {"LIVE", "PAUSED", "ENDED"}

PageInv ==
  Clean /\ page.mounted => /\ Resting => PageAtRest
                           /\ \A c \in Clicks : Busy(c) => PageDuring(c)

-----------------------------------------------------------------------------
Undisturbed == NoMishap({"two starts", "left early", "overlap", "lost"})

Unrecorded == \A s \in Streams : recorder[s].state # "recording"
Silent == mics = {} /\ Unrecorded

(* What is open is what the references hold. *)
Held == /\ mics \subseteq {capture} /\ sockets \subseteq {socket}
        /\ \A s \in Streams \ {capture} : recorder[s].state # "recording"

(* A start that failed for its microphone leaves its socket, and a stream  *)
(* that is being prepared and keeps every later start from succeeding.     *)
LeftOver == sockets = {} \/ (sockets = {socket} /\ \E s \in Streams : server[s] = "PREPARING")

(* What is open between two handlers, and while c is in progress. *)
QuietAtRest ==
  /\ page.status = "ended" => Silent /\ sockets = {}
  /\ page.status = "idle" => Silent /\ LeftOver
  /\ page.status \in {"live", "paused"} => Held

QuietDuring(c) ==
  LET k == click[c] IN
  /\ k.op = "create" => /\ Silent /\ LeftOver
                        /\ k.at \in {"checked", "answered"} => sockets = {}
                        /\ k.at = "answered" => server[k.stream] = "PREPARING"
  /\ k.op = "start" => /\ Held /\ Unrecorded
                       /\ k.at \in {"microphone", "failed"} => mics = {}
                       /\ k.at # "answered" => server[k.stream] = "PREPARING"
  /\ k.op \in {"pause", "resume"} => Held
  /\ k.op = "end" => Silent /\ sockets \subseteq {socket}

QuietInv ==
  Undisturbed => IF page.mounted
                   THEN (Resting => QuietAtRest) /\ \A c \in Clicks : Busy(c) => QuietDuring(c)
                   ELSE Resting /\ Silent /\ sockets = {} /\ timers = 0


-----------------------------------------------------------------------------
(* What a step makes of a click, the page and the recorders.               *)

Ops == {"create", "start", "pause", "resume", "end"}
Ats == {"idle", "permission", "sent", "checked", "answered", "failed", "microphone"}
Statuses == {"idle", "preparing", "live", "paused", "ended"}
States == {"inactive", "recording", "paused"}

(* The click c becomes another one, the other clicks stay. *)
Moves(c, op, at, s) ==
  /\ click' \in [Clicks -> Click]
  /\ click'[c].op = op /\ click'[c].at = at /\ click'[c].stream = s
  /\ \A d \in Clicks \ {c} : click'[d] = click[d]

(* What the page shows then; loading guards a start only. *)
Shows(mounted, status, s, ptt) ==
  /\ page' \in Page
  /\ page'.mounted = mounted /\ page'.status = status /\ page'.stream = s /\ page'.ptt = ptt

(* The recorder of s changes its state, the others stay. *)
Sets(s, state) ==
  /\ recorder' \in [Streams -> Recorder]
  /\ \A x \in Streams \ {s} : recorder'[x] = recorder[x]
  /\ s \in Streams => recorder'[s].state = state /\ recorder'[s].sends = recorder[s].sends

LEMMA ClickFields ==
  ASSUME ConsoleTypeOK, NEW c \in Clicks
  PROVE  click[c] \in Click /\ click[c].op \in Ops /\ click[c].at \in Ats /\ click[c].stream \in Streams \cup {None}
BY DEF ConsoleTypeOK, Click, Ops, Ats

LEMMA PageFields ==
  ASSUME ConsoleTypeOK
  PROVE  page.mounted \in BOOLEAN /\ page.status \in Statuses /\ page.stream \in Streams \cup {None}
         /\ page.loading \in BOOLEAN /\ page.ptt \in BOOLEAN
BY DEF ConsoleTypeOK, Page, Statuses

LEMMA Assigned ==
  ASSUME ConsoleTypeOK, NEW c \in Clicks, NEW k \in Click, click' = [click EXCEPT ![c] = k]
  PROVE  Moves(c, k.op, k.at, k.stream)
BY DEF ConsoleTypeOK, Moves

LEMMA GoMoves ==
  ASSUME ConsoleTypeOK, NEW c \in Clicks, NEW at \in Ats, Go(c, at)
  PROVE  Moves(c, click[c].op, at, click[c].stream)
<1> DEFINE k == [click[c] EXCEPT !.at = at]
<1>1. k \in Click /\ k.op = click[c].op /\ k.at = at /\ k.stream = click[c].stream
  BY DEF ConsoleTypeOK, Click, Ats
<1>2. click' = [click EXCEPT ![c] = k]
  BY DEF Go, ConsoleTypeOK
<1> HIDE DEF k
<1>3. Moves(c, k.op, k.at, k.stream)
  BY <1>1, <1>2, Assigned
<1> QED BY <1>1, <1>3

LEMMA FinishMoves ==
  ASSUME ConsoleTypeOK, NEW c \in Clicks, Finish(c)
  PROVE  Moves(c, "create", "idle", None)
<1>1. NoClick \in Click /\ NoClick.op = "create" /\ NoClick.at = "idle" /\ NoClick.stream = None
  BY DEF NoClick, Click
<1> QED BY <1>1, Assigned DEF Finish

LEMMA BeginMoves ==
  ASSUME ConsoleTypeOK, NEW c \in Clicks, NEW op \in Ops, NEW at \in Ats, NEW s \in Streams \cup {None}, Begin(c, op, at, s)
  PROVE  Moves(c, op, at, s)
<1> DEFINE k == [op |-> op, at |-> at, stream |-> s]
<1>1. k \in Click /\ k.op = op /\ k.at = at /\ k.stream = s
  BY DEF Click, Ops, Ats
<1>2. click' = [click EXCEPT ![c] = k]
  BY DEF Begin
<1> HIDE DEF k
<1>3. Moves(c, k.op, k.at, k.stream)
  BY <1>1, <1>2, Assigned
<1> QED BY <1>1, <1>3

LEMMA RecorderSet ==
  ASSUME NEW r \in Recorder, NEW state \in States
  PROVE  LET n == [r EXCEPT !.state = state] IN n \in Recorder /\ n.state = state /\ n.sends = r.sends
BY DEF Recorder, States

(* The recorder that the references hold is set. *)
LEMMA CaptureSets ==
  ASSUME ConsoleTypeOK, NEW state \in States,
         recorder' = [s \in Streams |-> IF s = capture THEN [recorder[s] EXCEPT !.state = state] ELSE recorder[s]]
  PROVE  Sets(capture, state)
<1>1. \A s \in Streams : recorder[s] \in Recorder
  BY DEF ConsoleTypeOK
<1> DEFINE n(s) == [recorder[s] EXCEPT !.state = state]
<1>2. \A s \in Streams : n(s) \in Recorder /\ n(s).state = state /\ n(s).sends = recorder[s].sends
  BY <1>1, RecorderSet
<1> HIDE DEF n
<1>3. recorder' = [s \in Streams |-> IF s = capture THEN n(s) ELSE recorder[s]]
  BY DEF n
<1> QED BY <1>1, <1>2, <1>3 DEF Sets

(* The recorder of a stream is set. *)
LEMMA StreamSets ==
  ASSUME ConsoleTypeOK, NEW s \in Streams, NEW state \in States,
         recorder' = [recorder EXCEPT ![s].state = state]
  PROVE  Sets(s, state)
<1>1. recorder \in [Streams -> Recorder]
  BY DEF ConsoleTypeOK
<1> DEFINE n == [recorder[s] EXCEPT !.state = state]
<1>2. n \in Recorder /\ n.state = state /\ n.sends = recorder[s].sends
  BY <1>1, RecorderSet
<1>3. recorder' = [recorder EXCEPT ![s] = n]
  BY <1>1
<1> HIDE DEF n
<1> QED BY <1>1, <1>2, <1>3 DEF Sets

-----------------------------------------------------------------------------
(* The steps, one by one. *)

LEMMA CheckRequestDoes ==
  ASSUME ConsoleTypeOK, NEW c \in Clicks, CheckRequest(c)
  PROVE  \/ Accepts(click[c].op, click[c].stream) /\ Moves(c, click[c].op, "checked", click[c].stream)
         \/ ~Accepts(click[c].op, click[c].stream) /\ Moves(c, click[c].op, "failed", click[c].stream)
<1> DEFINE to == IF Accepts(click[c].op, click[c].stream) THEN "checked" ELSE "failed"
<1>1. to \in Ats /\ Go(c, to)
  BY DEF CheckRequest, Ats
<1> HIDE DEF to
<1>2. Moves(c, click[c].op, to, click[c].stream)
  BY <1>1, GoMoves
<1> QED BY <1>2 DEF to

LEMMA WriteRequestDoes ==
  ASSUME ConsoleTypeOK, NEW c \in Clicks, WriteRequest(c)
  PROVE  \E s \in Streams :
           /\ IF click[c].op = "create" THEN server[s] = "none" ELSE s = click[c].stream
           /\ server' = [server EXCEPT ![s] = StatusAfter(click[c].op)]
           /\ Moves(c, click[c].op, "answered", s)
<1>1. PICK s \in Streams :
        /\ IF click[c].op = "create" THEN server[s] = "none" ELSE s = click[c].stream
        /\ server' = [server EXCEPT ![s] = StatusAfter(click[c].op)]
        /\ click' = [click EXCEPT ![c].at = "answered", ![c].stream = s]
  BY DEF WriteRequest
<1> DEFINE k == [click[c] EXCEPT !.at = "answered", !.stream = s]
<1>2. k \in Click /\ k.op = click[c].op /\ k.at = "answered" /\ k.stream = s
  BY DEF ConsoleTypeOK, Click
<1>3. click' = [click EXCEPT ![c] = k]
  BY <1>1 DEF ConsoleTypeOK
<1> HIDE DEF k
<1>4. Moves(c, k.op, k.at, k.stream)
  BY <1>2, <1>3, Assigned
<1> QED BY <1>1, <1>2, <1>4

LEMMA LoseRequestDoes ==
  ASSUME ConsoleTypeOK, NEW c \in Clicks, LoseRequest(c)
  PROVE  Moves(c, click[c].op, "failed", click[c].stream)
BY GoMoves DEF LoseRequest, Ats

LEMMA StartBroadcastDoes ==
  ASSUME ConsoleTypeOK, NEW c \in Clicks, StartBroadcast(c)
  PROVE  Moves(c, "create", "permission", None)
BY BeginMoves DEF StartBroadcast, Ops, Ats

LEMMA CheckMicPermissionDoes ==
  ASSUME ConsoleTypeOK, NEW c \in Clicks, CheckMicPermission(c)
  PROVE  /\ \/ Moves(c, "create", "idle", None)
            \/ Moves(c, "create", "sent", click[c].stream)
         /\ Shows(page.mounted, page.status, page.stream, page.ptt)
<1>1. CASE Finish(c) /\ UNCHANGED page
  BY <1>1, FinishMoves DEF Shows, ConsoleTypeOK
<1>2. CASE Go(c, "sent") /\ page' = [page EXCEPT !.loading = TRUE]
  <2>1. Moves(c, "create", "sent", click[c].stream)
    BY <1>2, GoMoves DEF CheckMicPermission, Is, Ats
  <2>2. Shows(page.mounted, page.status, page.stream, page.ptt)
    BY <1>2 DEF Shows, ConsoleTypeOK, Page
  <2> QED BY <2>1, <2>2
<1> QED BY <1>1, <1>2 DEF CheckMicPermission

LEMMA CreatedDoes ==
  ASSUME Typed, NEW c \in Clicks, Created(c)
  PROVE  /\ click[c].stream \in Streams
         /\ Moves(c, "start", "microphone", click[c].stream)
         /\ Shows(page.mounted, "preparing", click[c].stream, page.ptt)
<1>1. click[c].stream \in Streams
  BY DEF Created, Is, Typed, StreamsKnown, Busy
<1> DEFINE k == [click[c] EXCEPT !.op = "start", !.at = "microphone"]
<1>a. click[c] \in Click
  BY ClickFields DEF Typed
<1>2. k \in Click /\ k.op = "start" /\ k.at = "microphone" /\ k.stream = click[c].stream
  BY <1>a DEF Click
<1>3. click' = [click EXCEPT ![c] = k]
  BY DEF Created, Typed, ConsoleTypeOK
<1> HIDE DEF k
<1>4. Moves(c, k.op, k.at, k.stream)
  BY <1>2, <1>3, Assigned DEF Typed
<1>5. Shows(page.mounted, "preparing", click[c].stream, page.ptt)
  BY <1>1 DEF Created, Shows, Typed, ConsoleTypeOK, Page
<1> QED BY <1>1, <1>2, <1>4, <1>5

LEMMA OpenMicrophoneDoes ==
  ASSUME Typed, NEW c \in Clicks, OpenMicrophone(c)
  PROVE  /\ click[c].stream \in Streams
         /\ Moves(c, "start", "sent", click[c].stream)
         /\ recorder' \in [Streams -> Recorder] /\ recorder'[click[c].stream] = NewRecorder
         /\ \A x \in Streams \ {click[c].stream} : recorder'[x] = recorder[x]
<1>1. click[c].stream \in Streams
  BY DEF OpenMicrophone, Is, Typed, StreamsKnown, Busy
<1>2. Moves(c, "start", "sent", click[c].stream)
  BY GoMoves DEF OpenMicrophone, Is, Typed, Ats
<1>3. NewRecorder \in Recorder
  BY DEF NewRecorder, Recorder
<1> QED BY <1>1, <1>2, <1>3 DEF OpenMicrophone, Typed, ConsoleTypeOK

LEMMA MicrophoneFailsDoes ==
  ASSUME ConsoleTypeOK, NEW c \in Clicks, MicrophoneFails(c)
  PROVE  Moves(c, "start", "failed", click[c].stream)
BY GoMoves DEF MicrophoneFails, Is, Ats

LEMMA StartedDoes ==
  ASSUME Typed, NEW c \in Clicks, Started(c)
  PROVE  /\ click[c].stream \in Streams
         /\ click[c].stream \in mics => /\ Moves(c, "create", "idle", None)
                                        /\ Shows(page.mounted, "live", page.stream, page.ptt)
                                        /\ Sets(click[c].stream, "recording")
         /\ click[c].stream \notin mics => Moves(c, "start", "failed", click[c].stream)
<1>1. click[c].stream \in Streams
  BY DEF Started, Is, Typed, StreamsKnown, Busy
<1>2. ASSUME click[c].stream \in mics
      PROVE  /\ Moves(c, "create", "idle", None)
             /\ Shows(page.mounted, "live", page.stream, page.ptt)
             /\ Sets(click[c].stream, "recording")
  <2>1. Moves(c, "create", "idle", None)
    BY <1>2, FinishMoves DEF Started, Typed
  <2>a. page' = [page EXCEPT !.status = "live", !.loading = FALSE] /\ page \in Page
    BY <1>2 DEF Started, Typed, ConsoleTypeOK
  <2>2. Shows(page.mounted, "live", page.stream, page.ptt)
    BY <2>a DEF Shows, Page
  <2>3. Sets(click[c].stream, "recording")
    BY <1>1, <1>2, StreamSets DEF Started, Typed, States
  <2> QED BY <2>1, <2>2, <2>3
<1>3. click[c].stream \notin mics => Moves(c, "start", "failed", click[c].stream)
  BY GoMoves DEF Started, Is, Typed, Ats
<1> QED BY <1>1, <1>2, <1>3

LEMMA StartFailedDoes ==
  ASSUME ConsoleTypeOK, NEW c \in Clicks, StartFailed(c)
  PROVE  Moves(c, "create", "idle", None) /\ Shows(page.mounted, "idle", page.stream, page.ptt)
<1>1. Moves(c, "create", "idle", None)
  BY FinishMoves DEF StartFailed
<1>2. Shows(page.mounted, "idle", page.stream, page.ptt)
  BY DEF StartFailed, Shows, ConsoleTypeOK, Page
<1> QED BY <1>1, <1>2

LEMMA PauseBroadcastDoes ==
  ASSUME ConsoleTypeOK, NEW c \in Clicks, PauseBroadcast(c)
  PROVE  page.stream \in Streams /\ Moves(c, "pause", "sent", page.stream)
BY PageFields, BeginMoves DEF PauseBroadcast, Ops, Ats

LEMMA ResumeBroadcastDoes ==
  ASSUME ConsoleTypeOK, NEW c \in Clicks, ResumeBroadcast(c)
  PROVE  page.stream \in Streams /\ Moves(c, "resume", "sent", page.stream)
BY PageFields, BeginMoves DEF ResumeBroadcast, Ops, Ats

LEMMA PausedDoes ==
  ASSUME ConsoleTypeOK, NEW c \in Clicks, Paused(c)
  PROVE  /\ Moves(c, "create", "idle", None)
         /\ \/ capture # None /\ recorder[capture].state = "inactive" /\ UNCHANGED <<page, recorder, timers, timer>>
            \/ /\ capture = None \/ recorder[capture].state # "inactive"
               /\ Shows(page.mounted, "paused", page.stream, page.ptt)
               /\ Sets(capture, "paused") /\ StopTimer
<1>1. Moves(c, "create", "idle", None)
  BY FinishMoves DEF Paused
<1>2. ASSUME capture = None \/ recorder[capture].state # "inactive"
      PROVE  Shows(page.mounted, "paused", page.stream, page.ptt) /\ Sets(capture, "paused") /\ StopTimer
  <2>a. page' = [page EXCEPT !.status = "paused"]
    BY <1>2 DEF Paused
  <2>1. Shows(page.mounted, "paused", page.stream, page.ptt)
    BY <2>a DEF Shows, ConsoleTypeOK, Page
  <2>2. Sets(capture, "paused")
    BY <1>2, CaptureSets DEF Paused, States
  <2> QED BY <1>2, <2>1, <2>2 DEF Paused
<1> QED BY <1>1, <1>2 DEF Paused

LEMMA ResumedDoes ==
  ASSUME ConsoleTypeOK, NEW c \in Clicks, Resumed(c)
  PROVE  /\ Moves(c, "create", "idle", None)
         /\ \/ capture # None /\ recorder[capture].state = "inactive" /\ UNCHANGED <<page, recorder, timers, timer>>
            \/ /\ capture = None \/ recorder[capture].state # "inactive"
               /\ Shows(page.mounted, "live", page.stream, page.ptt)
               /\ Sets(capture, "recording") /\ StartTimer
<1>1. Moves(c, "create", "idle", None)
  BY FinishMoves DEF Resumed
<1>2. ASSUME capture = None \/ recorder[capture].state # "inactive"
      PROVE  Shows(page.mounted, "live", page.stream, page.ptt) /\ Sets(capture, "recording") /\ StartTimer
  <2>a. page' = [page EXCEPT !.status = "live"]
    BY <1>2 DEF Resumed
  <2>1. Shows(page.mounted, "live", page.stream, page.ptt)
    BY <2>a DEF Shows, ConsoleTypeOK, Page
  <2>2. Sets(capture, "recording")
    BY <1>2, CaptureSets DEF Resumed, States
  <2> QED BY <1>2, <2>1, <2>2 DEF Resumed
<1> QED BY <1>1, <1>2 DEF Resumed

LEMMA ChangeFailedDoes ==
  ASSUME ConsoleTypeOK, NEW c \in Clicks, ChangeFailed(c)
  PROVE  Moves(c, "create", "idle", None)
BY FinishMoves DEF ChangeFailed

LEMMA SilenceDoes ==
  ASSUME ConsoleTypeOK, Silence
  PROVE  mics' = mics \ {capture} /\ Sets(capture, "inactive") /\ StopTimer
BY CaptureSets DEF Silence, StopTimer, States

LEMMA StopBroadcastDoes ==
  ASSUME ConsoleTypeOK, NEW c \in Clicks, StopBroadcast(c)
  PROVE  /\ page.stream \in Streams /\ Moves(c, "end", "sent", page.stream)
         /\ mics' = mics \ {capture} /\ Sets(capture, "inactive") /\ StopTimer
<1>1. page.stream \in Streams /\ Begin(c, "end", "sent", page.stream) /\ Silence
  BY PageFields DEF StopBroadcast
<1>2. Moves(c, "end", "sent", page.stream)
  BY <1>1, BeginMoves DEF Ops, Ats
<1> QED BY <1>1, <1>2, SilenceDoes

LEMMA StoppedDoes ==
  ASSUME ConsoleTypeOK, NEW c \in Clicks, Stopped(c)
  PROVE  Moves(c, "create", "idle", None) /\ Shows(page.mounted, "ended", page.stream, page.ptt)
<1>1. Moves(c, "create", "idle", None)
  BY FinishMoves DEF Stopped
<1>2. Shows(page.mounted, "ended", page.stream, page.ptt)
  BY DEF Stopped, Shows, ConsoleTypeOK, Page
<1> QED BY <1>1, <1>2

LEMMA SetModeDoes ==
  ASSUME ConsoleTypeOK, NEW ptt \in BOOLEAN, SetMode(ptt)
  PROVE  Shows(page.mounted, page.status, page.stream, ptt)
BY DEF SetMode, Shows, ConsoleTypeOK, Page

LEMMA ResetBroadcastDoes ==
  ASSUME ConsoleTypeOK, ResetBroadcast
  PROVE  Shows(page.mounted, "idle", None, page.ptt)
BY DEF ResetBroadcast, Shows, ConsoleTypeOK, Page

LEMMA PressButtonDoes ==
  ASSUME ConsoleTypeOK, PressButton
  PROVE  capture \in Streams /\ Sets(capture, "recording")
<1>1. capture \in Streams
  BY DEF PressButton, ConsoleTypeOK
<1> QED BY <1>1, StreamSets DEF PressButton, States

LEMMA ReleaseButtonDoes ==
  ASSUME ConsoleTypeOK, ReleaseButton
  PROVE  /\ capture \in Streams
         /\ recorder' \in [Streams -> Recorder] /\ recorder'[capture].state = "inactive"
         /\ \A x \in Streams \ {capture} : recorder'[x] = recorder[x]
<1>1. capture \in Streams
  BY DEF ReleaseButton, ConsoleTypeOK
<1>2. [state |-> "inactive", sends |-> "audio-data"] \in Recorder
  BY DEF Recorder
<1> QED BY <1>1, <1>2 DEF ReleaseButton, ConsoleTypeOK

LEMMA UnmountDoes ==
  ASSUME ConsoleTypeOK, Unmount
  PROVE  /\ Shows(FALSE, page.status, page.stream, page.ptt)
         /\ mics' = mics \ {capture} /\ Sets(capture, "inactive") /\ StopTimer
<1>1. Shows(FALSE, page.status, page.stream, page.ptt)
  BY DEF Unmount, Shows, ConsoleTypeOK, Page
<1> QED BY <1>1, SilenceDoes DEF Unmount

-----------------------------------------------------------------------------
(* Typed. *)

LEMMA TypedInitially == Init => Typed
<1> SUFFICES ASSUME Init PROVE Typed
  OBVIOUS
<1>1. page \in Page
  BY DEF Init, Page
<1>2. NoClick \in Click /\ NoClick.at = "idle" /\ NewRecorder \in Recorder
  BY DEF NoClick, Click, NewRecorder, Recorder
<1>3. click \in [Clicks -> Click] /\ recorder \in [Streams -> Recorder] /\ \A c \in Clicks : ~Busy(c)
  BY <1>2 DEF Init, Busy
<1>4. server \in [Streams -> {"none", "PREPARING", "LIVE", "PAUSED", "ENDED"}]
  BY DEF Init
<1> QED BY <1>1, <1>3, <1>4 DEF Init, Typed, StreamsKnown, ConsoleTypeOK

LEMMA TimerTyped ==
  ASSUME Typed, StartTimer \/ StopTimer \/ UNCHANGED <<timers, timer>>
  PROVE  timers' \in Nat /\ timer' \in BOOLEAN /\ (timer' => timers' > 0)
<1>1. timers \in Nat /\ timer \in BOOLEAN /\ (timer => timers > 0)
  BY DEF Typed, ConsoleTypeOK
<1>2. CASE StartTimer
  BY <1>1, <1>2 DEF StartTimer
<1>3. CASE StopTimer
  <2>1. timer' = FALSE
    BY <1>3 DEF StopTimer
  <2>2. timers' \in Nat
    <3>1. CASE timer
      BY <1>1, <1>3, <3>1 DEF StopTimer
    <3>2. CASE ~timer
      BY <1>1, <1>3, <3>2 DEF StopTimer
    <3> QED BY <3>1, <3>2
  <2> QED BY <2>1, <2>2
<1>4. CASE UNCHANGED <<timers, timer>>
  BY <1>1, <1>4
<1> QED BY <1>2, <1>3, <1>4

(* A step of one click keeps the types. *)
LEMMA MoveTyped ==
  ASSUME Typed, NEW c \in Clicks, NEW op \in Ops, NEW at \in Ats, NEW s \in Streams \cup {None}, Moves(c, op, at, s),
         at # "idle" /\ (op # "create" \/ at = "answered") => s \in Streams
  PROVE  /\ click' \in [Clicks -> Click]
         /\ StreamsKnown'
BY DEF Typed, StreamsKnown, Busy, Moves

LEMMA CheckRequestTyped == ASSUME Typed, NEW c \in Clicks, CheckRequest(c) PROVE Typed'
<1>1. /\ click' \in [Clicks -> Click]
      /\ StreamsKnown'
  BY LiveConsoleAssumption, ClickFields, CheckRequestDoes, MoveTyped
     DEF CheckRequest, Typed, StreamsKnown, Busy, Is, Ops, Ats
<1>2. page' \in Page /\ recorder' \in [Streams -> Recorder]
  BY CheckRequestDoes DEF CheckRequest, deviceVars, Typed, ConsoleTypeOK, Shows, Sets
<1>3. timers' \in Nat /\ timer' \in BOOLEAN /\ (timer' => timers' > 0)
  BY CheckRequestDoes, TimerTyped DEF CheckRequest, deviceVars
<1>4. /\ server' \in [Streams -> {"none", "PREPARING", "LIVE", "PAUSED", "ENDED"}]
      /\ mics' \subseteq Streams /\ sockets' \subseteq Streams
      /\ socket' \in Streams \cup {None} /\ capture' \in Streams \cup {None}
      /\ mishaps' \subseteq {"two starts", "left early", "overlap", "lost", "microphone"}
  BY CheckRequestDoes
     DEF CheckRequest, deviceVars, Typed, ConsoleTypeOK, Begin, Overlap, StatusAfter
<1> QED BY <1>1, <1>2, <1>3, <1>4 DEF Typed, StreamsKnown, ConsoleTypeOK, Busy

LEMMA WriteRequestTyped == ASSUME Typed, NEW c \in Clicks, WriteRequest(c) PROVE Typed'
<1>1. /\ click' \in [Clicks -> Click]
      /\ StreamsKnown'
  <2>1. PICK s \in Streams : Moves(c, click[c].op, "answered", s)
    BY WriteRequestDoes DEF Typed
  <2>2. click[c].op \in Ops /\ "answered" \in Ats
    BY ClickFields DEF Typed, Ats
  <2> QED BY <2>1, <2>2, MoveTyped
<1>2. page' \in Page /\ recorder' \in [Streams -> Recorder]
  BY WriteRequestDoes DEF WriteRequest, deviceVars, Typed, ConsoleTypeOK, Shows, Sets
<1>3. timers' \in Nat /\ timer' \in BOOLEAN /\ (timer' => timers' > 0)
  BY WriteRequestDoes, TimerTyped DEF WriteRequest, deviceVars
<1>a. server' \in [Streams -> {"none", "PREPARING", "LIVE", "PAUSED", "ENDED"}]
  <2>1. StatusAfter(click[c].op) \in {"PREPARING", "LIVE", "PAUSED", "ENDED"}
    BY ClickFields DEF Typed, Ops, StatusAfter
  <2>2. PICK s \in Streams : server' = [server EXCEPT ![s] = StatusAfter(click[c].op)]
    BY WriteRequestDoes DEF Typed
  <2> QED BY <2>1, <2>2 DEF Typed, ConsoleTypeOK
<1>4. /\ server' \in [Streams -> {"none", "PREPARING", "LIVE", "PAUSED", "ENDED"}]
      /\ mics' \subseteq Streams /\ sockets' \subseteq Streams
      /\ socket' \in Streams \cup {None} /\ capture' \in Streams \cup {None}
      /\ mishaps' \subseteq {"two starts", "left early", "overlap", "lost", "microphone"}
  BY <1>a DEF WriteRequest, deviceVars, Typed, ConsoleTypeOK
<1> QED BY <1>1, <1>2, <1>3, <1>4 DEF Typed, StreamsKnown, ConsoleTypeOK, Busy

LEMMA LoseRequestTyped == ASSUME Typed, NEW c \in Clicks, LoseRequest(c) PROVE Typed'
<1>1. /\ click' \in [Clicks -> Click]
      /\ StreamsKnown'
  BY LiveConsoleAssumption, ClickFields, LoseRequestDoes, MoveTyped
     DEF LoseRequest, Typed, StreamsKnown, Busy, Is, Ops, Ats
<1>2. page' \in Page /\ recorder' \in [Streams -> Recorder]
  BY LoseRequestDoes DEF LoseRequest, deviceVars, Typed, ConsoleTypeOK, Shows, Sets
<1>3. timers' \in Nat /\ timer' \in BOOLEAN /\ (timer' => timers' > 0)
  BY LoseRequestDoes, TimerTyped DEF LoseRequest, deviceVars
<1>4. /\ server' \in [Streams -> {"none", "PREPARING", "LIVE", "PAUSED", "ENDED"}]
      /\ mics' \subseteq Streams /\ sockets' \subseteq Streams
      /\ socket' \in Streams \cup {None} /\ capture' \in Streams \cup {None}
      /\ mishaps' \subseteq {"two starts", "left early", "overlap", "lost", "microphone"}
  BY LoseRequestDoes DEF LoseRequest, deviceVars, Typed, ConsoleTypeOK, Begin, Overlap, StatusAfter
<1> QED BY <1>1, <1>2, <1>3, <1>4 DEF Typed, StreamsKnown, ConsoleTypeOK, Busy

LEMMA StartBroadcastTyped == ASSUME Typed, NEW c \in Clicks, StartBroadcast(c) PROVE Typed'
<1>1. /\ click' \in [Clicks -> Click]
      /\ StreamsKnown'
  BY LiveConsoleAssumption, ClickFields, StartBroadcastDoes, MoveTyped
     DEF StartBroadcast, Typed, StreamsKnown, Busy, Is, Ops, Ats
<1>2. page' \in Page /\ recorder' \in [Streams -> Recorder]
  BY StartBroadcastDoes DEF StartBroadcast, deviceVars, Typed, ConsoleTypeOK, Shows, Sets
<1>3. timers' \in Nat /\ timer' \in BOOLEAN /\ (timer' => timers' > 0)
  BY StartBroadcastDoes, TimerTyped DEF StartBroadcast, deviceVars
<1>4. /\ server' \in [Streams -> {"none", "PREPARING", "LIVE", "PAUSED", "ENDED"}]
      /\ mics' \subseteq Streams /\ sockets' \subseteq Streams
      /\ socket' \in Streams \cup {None} /\ capture' \in Streams \cup {None}
      /\ mishaps' \subseteq {"two starts", "left early", "overlap", "lost", "microphone"}
  BY StartBroadcastDoes
     DEF StartBroadcast, deviceVars, Typed, ConsoleTypeOK, Begin, Overlap, StatusAfter
<1> QED BY <1>1, <1>2, <1>3, <1>4 DEF Typed, StreamsKnown, ConsoleTypeOK, Busy

LEMMA CheckMicPermissionTyped == ASSUME Typed, NEW c \in Clicks, CheckMicPermission(c) PROVE Typed'
<1>1. /\ click' \in [Clicks -> Click]
      /\ StreamsKnown'
  BY LiveConsoleAssumption, ClickFields, CheckMicPermissionDoes, MoveTyped
     DEF CheckMicPermission, Typed, StreamsKnown, Busy, Is, Ops, Ats
<1>2. page' \in Page /\ recorder' \in [Streams -> Recorder]
  BY CheckMicPermissionDoes DEF CheckMicPermission, deviceVars, Typed, ConsoleTypeOK, Shows, Sets
<1>3. timers' \in Nat /\ timer' \in BOOLEAN /\ (timer' => timers' > 0)
  BY CheckMicPermissionDoes, TimerTyped DEF CheckMicPermission, deviceVars
<1>4. /\ server' \in [Streams -> {"none", "PREPARING", "LIVE", "PAUSED", "ENDED"}]
      /\ mics' \subseteq Streams /\ sockets' \subseteq Streams
      /\ socket' \in Streams \cup {None} /\ capture' \in Streams \cup {None}
      /\ mishaps' \subseteq {"two starts", "left early", "overlap", "lost", "microphone"}
  BY CheckMicPermissionDoes
     DEF CheckMicPermission, deviceVars, Typed, ConsoleTypeOK, Begin, Overlap, StatusAfter
<1> QED BY <1>1, <1>2, <1>3, <1>4 DEF Typed, StreamsKnown, ConsoleTypeOK, Busy

LEMMA CreatedTyped == ASSUME Typed, NEW c \in Clicks, Created(c) PROVE Typed'
<1>1. /\ click' \in [Clicks -> Click]
      /\ StreamsKnown'
  BY LiveConsoleAssumption, ClickFields, CreatedDoes, MoveTyped
     DEF Created, Typed, StreamsKnown, Busy, Is, Ops, Ats
<1>2. page' \in Page /\ recorder' \in [Streams -> Recorder]
  BY CreatedDoes DEF Created, deviceVars, Typed, ConsoleTypeOK, Shows, Sets
<1>3. timers' \in Nat /\ timer' \in BOOLEAN /\ (timer' => timers' > 0)
  BY CreatedDoes, TimerTyped DEF Created, deviceVars
<1>4. /\ server' \in [Streams -> {"none", "PREPARING", "LIVE", "PAUSED", "ENDED"}]
      /\ mics' \subseteq Streams /\ sockets' \subseteq Streams
      /\ socket' \in Streams \cup {None} /\ capture' \in Streams \cup {None}
      /\ mishaps' \subseteq {"two starts", "left early", "overlap", "lost", "microphone"}
  BY CreatedDoes DEF Created, deviceVars, Typed, ConsoleTypeOK, Begin, Overlap, StatusAfter
<1> QED BY <1>1, <1>2, <1>3, <1>4 DEF Typed, StreamsKnown, ConsoleTypeOK, Busy

LEMMA OpenMicrophoneTyped == ASSUME Typed, NEW c \in Clicks, OpenMicrophone(c) PROVE Typed'
<1>1. /\ click' \in [Clicks -> Click]
      /\ StreamsKnown'
  <2>1. click[c].stream \in Streams /\ Moves(c, "start", "sent", click[c].stream) /\ "start" \in Ops /\ "sent" \in Ats
    BY OpenMicrophoneDoes DEF Ops, Ats
  <2> QED BY <2>1, MoveTyped
<1>2. page' \in Page /\ recorder' \in [Streams -> Recorder]
  BY OpenMicrophoneDoes DEF OpenMicrophone, deviceVars, Typed, ConsoleTypeOK, Shows, Sets
<1>3. timers' \in Nat /\ timer' \in BOOLEAN /\ (timer' => timers' > 0)
  BY OpenMicrophoneDoes, TimerTyped DEF OpenMicrophone, deviceVars
<1>4. /\ server' \in [Streams -> {"none", "PREPARING", "LIVE", "PAUSED", "ENDED"}]
      /\ mics' \subseteq Streams /\ sockets' \subseteq Streams
      /\ socket' \in Streams \cup {None} /\ capture' \in Streams \cup {None}
      /\ mishaps' \subseteq {"two starts", "left early", "overlap", "lost", "microphone"}
  <2>1. click[c].stream \in Streams
    BY OpenMicrophoneDoes
  <2> QED BY <2>1 DEF OpenMicrophone, Typed, ConsoleTypeOK
<1> QED BY <1>1, <1>2, <1>3, <1>4 DEF Typed, StreamsKnown, ConsoleTypeOK, Busy

LEMMA MicrophoneFailsTyped == ASSUME Typed, NEW c \in Clicks, MicrophoneFails(c) PROVE Typed'
<1>1. /\ click' \in [Clicks -> Click]
      /\ StreamsKnown'
  BY LiveConsoleAssumption, ClickFields, MicrophoneFailsDoes, MoveTyped
     DEF MicrophoneFails, Typed, StreamsKnown, Busy, Is, Ops, Ats
<1>2. page' \in Page /\ recorder' \in [Streams -> Recorder]
  BY MicrophoneFailsDoes DEF MicrophoneFails, deviceVars, Typed, ConsoleTypeOK, Shows, Sets
<1>3. timers' \in Nat /\ timer' \in BOOLEAN /\ (timer' => timers' > 0)
  BY MicrophoneFailsDoes, TimerTyped DEF MicrophoneFails, deviceVars
<1>4. /\ server' \in [Streams -> {"none", "PREPARING", "LIVE", "PAUSED", "ENDED"}]
      /\ mics' \subseteq Streams /\ sockets' \subseteq Streams
      /\ socket' \in Streams \cup {None} /\ capture' \in Streams \cup {None}
      /\ mishaps' \subseteq {"two starts", "left early", "overlap", "lost", "microphone"}
  BY MicrophoneFailsDoes
     DEF MicrophoneFails, deviceVars, Typed, ConsoleTypeOK, Begin, Overlap, StatusAfter
<1> QED BY <1>1, <1>2, <1>3, <1>4 DEF Typed, StreamsKnown, ConsoleTypeOK, Busy

LEMMA StartedTyped == ASSUME Typed, NEW c \in Clicks, Started(c) PROVE Typed'
<1>1. /\ click' \in [Clicks -> Click]
      /\ StreamsKnown'
  BY LiveConsoleAssumption, ClickFields, StartedDoes, MoveTyped
     DEF Started, Typed, StreamsKnown, Busy, Is, Ops, Ats
<1>2. page' \in Page /\ recorder' \in [Streams -> Recorder]
  BY StartedDoes DEF Started, deviceVars, Typed, ConsoleTypeOK, Shows, Sets
<1>3. timers' \in Nat /\ timer' \in BOOLEAN /\ (timer' => timers' > 0)
  BY StartedDoes, TimerTyped DEF Started, deviceVars
<1>4. /\ server' \in [Streams -> {"none", "PREPARING", "LIVE", "PAUSED", "ENDED"}]
      /\ mics' \subseteq Streams /\ sockets' \subseteq Streams
      /\ socket' \in Streams \cup {None} /\ capture' \in Streams \cup {None}
      /\ mishaps' \subseteq {"two starts", "left early", "overlap", "lost", "microphone"}
  BY StartedDoes DEF Started, deviceVars, Typed, ConsoleTypeOK, Begin, Overlap, StatusAfter
<1> QED BY <1>1, <1>2, <1>3, <1>4 DEF Typed, StreamsKnown, ConsoleTypeOK, Busy

LEMMA StartFailedTyped == ASSUME Typed, NEW c \in Clicks, StartFailed(c) PROVE Typed'
<1>1. /\ click' \in [Clicks -> Click]
      /\ StreamsKnown'
  BY LiveConsoleAssumption, ClickFields, StartFailedDoes, MoveTyped
     DEF StartFailed, Typed, StreamsKnown, Busy, Is, Ops, Ats
<1>2. page' \in Page /\ recorder' \in [Streams -> Recorder]
  BY StartFailedDoes DEF StartFailed, deviceVars, Typed, ConsoleTypeOK, Shows, Sets
<1>3. timers' \in Nat /\ timer' \in BOOLEAN /\ (timer' => timers' > 0)
  BY StartFailedDoes, TimerTyped DEF StartFailed, deviceVars
<1>4. /\ server' \in [Streams -> {"none", "PREPARING", "LIVE", "PAUSED", "ENDED"}]
      /\ mics' \subseteq Streams /\ sockets' \subseteq Streams
      /\ socket' \in Streams \cup {None} /\ capture' \in Streams \cup {None}
      /\ mishaps' \subseteq {"two starts", "left early", "overlap", "lost", "microphone"}
  BY StartFailedDoes DEF StartFailed, deviceVars, Typed, ConsoleTypeOK, Begin, Overlap, StatusAfter
<1> QED BY <1>1, <1>2, <1>3, <1>4 DEF Typed, StreamsKnown, ConsoleTypeOK, Busy

LEMMA PauseBroadcastTyped == ASSUME Typed, NEW c \in Clicks, PauseBroadcast(c) PROVE Typed'
<1>1. /\ click' \in [Clicks -> Click]
      /\ StreamsKnown'
  BY LiveConsoleAssumption, ClickFields, PauseBroadcastDoes, MoveTyped
     DEF PauseBroadcast, Typed, StreamsKnown, Busy, Is, Ops, Ats
<1>2. page' \in Page /\ recorder' \in [Streams -> Recorder]
  BY PauseBroadcastDoes DEF PauseBroadcast, deviceVars, Typed, ConsoleTypeOK, Shows, Sets
<1>3. timers' \in Nat /\ timer' \in BOOLEAN /\ (timer' => timers' > 0)
  BY PauseBroadcastDoes, TimerTyped DEF PauseBroadcast, deviceVars
<1>4. /\ server' \in [Streams -> {"none", "PREPARING", "LIVE", "PAUSED", "ENDED"}]
      /\ mics' \subseteq Streams /\ sockets' \subseteq Streams
      /\ socket' \in Streams \cup {None} /\ capture' \in Streams \cup {None}
      /\ mishaps' \subseteq {"two starts", "left early", "overlap", "lost", "microphone"}
  BY PauseBroadcastDoes
     DEF PauseBroadcast, deviceVars, Typed, ConsoleTypeOK, Begin, Overlap, StatusAfter
<1> QED BY <1>1, <1>2, <1>3, <1>4 DEF Typed, StreamsKnown, ConsoleTypeOK, Busy

LEMMA PausedTyped == ASSUME Typed, NEW c \in Clicks, Paused(c) PROVE Typed'
<1>1. /\ click' \in [Clicks -> Click]
      /\ StreamsKnown'
  BY LiveConsoleAssumption, ClickFields, PausedDoes, MoveTyped DEF Paused, Typed, StreamsKnown, Busy, Is, Ops, Ats
<1>2. page' \in Page /\ recorder' \in [Streams -> Recorder]
  BY PausedDoes DEF Paused, deviceVars, Typed, ConsoleTypeOK, Shows, Sets
<1>3. timers' \in Nat /\ timer' \in BOOLEAN /\ (timer' => timers' > 0)
  BY PausedDoes, TimerTyped DEF Paused, deviceVars
<1>4. /\ server' \in [Streams -> {"none", "PREPARING", "LIVE", "PAUSED", "ENDED"}]
      /\ mics' \subseteq Streams /\ sockets' \subseteq Streams
      /\ socket' \in Streams \cup {None} /\ capture' \in Streams \cup {None}
      /\ mishaps' \subseteq {"two starts", "left early", "overlap", "lost", "microphone"}
  BY PausedDoes DEF Paused, deviceVars, Typed, ConsoleTypeOK, Begin, Overlap, StatusAfter
<1> QED BY <1>1, <1>2, <1>3, <1>4 DEF Typed, StreamsKnown, ConsoleTypeOK, Busy

LEMMA ResumeBroadcastTyped == ASSUME Typed, NEW c \in Clicks, ResumeBroadcast(c) PROVE Typed'
<1>1. /\ click' \in [Clicks -> Click]
      /\ StreamsKnown'
  BY LiveConsoleAssumption, ClickFields, ResumeBroadcastDoes, MoveTyped
     DEF ResumeBroadcast, Typed, StreamsKnown, Busy, Is, Ops, Ats
<1>2. page' \in Page /\ recorder' \in [Streams -> Recorder]
  BY ResumeBroadcastDoes DEF ResumeBroadcast, deviceVars, Typed, ConsoleTypeOK, Shows, Sets
<1>3. timers' \in Nat /\ timer' \in BOOLEAN /\ (timer' => timers' > 0)
  BY ResumeBroadcastDoes, TimerTyped DEF ResumeBroadcast, deviceVars
<1>4. /\ server' \in [Streams -> {"none", "PREPARING", "LIVE", "PAUSED", "ENDED"}]
      /\ mics' \subseteq Streams /\ sockets' \subseteq Streams
      /\ socket' \in Streams \cup {None} /\ capture' \in Streams \cup {None}
      /\ mishaps' \subseteq {"two starts", "left early", "overlap", "lost", "microphone"}
  BY ResumeBroadcastDoes
     DEF ResumeBroadcast, deviceVars, Typed, ConsoleTypeOK, Begin, Overlap, StatusAfter
<1> QED BY <1>1, <1>2, <1>3, <1>4 DEF Typed, StreamsKnown, ConsoleTypeOK, Busy

LEMMA ResumedTyped == ASSUME Typed, NEW c \in Clicks, Resumed(c) PROVE Typed'
<1>1. /\ click' \in [Clicks -> Click]
      /\ StreamsKnown'
  BY LiveConsoleAssumption, ClickFields, ResumedDoes, MoveTyped
     DEF Resumed, Typed, StreamsKnown, Busy, Is, Ops, Ats
<1>2. page' \in Page /\ recorder' \in [Streams -> Recorder]
  BY ResumedDoes DEF Resumed, deviceVars, Typed, ConsoleTypeOK, Shows, Sets
<1>3. timers' \in Nat /\ timer' \in BOOLEAN /\ (timer' => timers' > 0)
  BY ResumedDoes, TimerTyped DEF Resumed, deviceVars
<1>4. /\ server' \in [Streams -> {"none", "PREPARING", "LIVE", "PAUSED", "ENDED"}]
      /\ mics' \subseteq Streams /\ sockets' \subseteq Streams
      /\ socket' \in Streams \cup {None} /\ capture' \in Streams \cup {None}
      /\ mishaps' \subseteq {"two starts", "left early", "overlap", "lost", "microphone"}
  BY ResumedDoes DEF Resumed, deviceVars, Typed, ConsoleTypeOK, Begin, Overlap, StatusAfter
<1> QED BY <1>1, <1>2, <1>3, <1>4 DEF Typed, StreamsKnown, ConsoleTypeOK, Busy

LEMMA ChangeFailedTyped == ASSUME Typed, NEW c \in Clicks, ChangeFailed(c) PROVE Typed'
<1>1. /\ click' \in [Clicks -> Click]
      /\ StreamsKnown'
  BY LiveConsoleAssumption, ClickFields, ChangeFailedDoes, MoveTyped
     DEF ChangeFailed, Typed, StreamsKnown, Busy, Is, Ops, Ats
<1>2. page' \in Page /\ recorder' \in [Streams -> Recorder]
  BY ChangeFailedDoes DEF ChangeFailed, deviceVars, Typed, ConsoleTypeOK, Shows, Sets
<1>3. timers' \in Nat /\ timer' \in BOOLEAN /\ (timer' => timers' > 0)
  BY ChangeFailedDoes, TimerTyped DEF ChangeFailed, deviceVars
<1>4. /\ server' \in [Streams -> {"none", "PREPARING", "LIVE", "PAUSED", "ENDED"}]
      /\ mics' \subseteq Streams /\ sockets' \subseteq Streams
      /\ socket' \in Streams \cup {None} /\ capture' \in Streams \cup {None}
      /\ mishaps' \subseteq {"two starts", "left early", "overlap", "lost", "microphone"}
  BY ChangeFailedDoes
     DEF ChangeFailed, deviceVars, Typed, ConsoleTypeOK, Begin, Overlap, StatusAfter
<1> QED BY <1>1, <1>2, <1>3, <1>4 DEF Typed, StreamsKnown, ConsoleTypeOK, Busy

LEMMA StopBroadcastTyped == ASSUME Typed, NEW c \in Clicks, StopBroadcast(c) PROVE Typed'
<1>1. /\ click' \in [Clicks -> Click]
      /\ StreamsKnown'
  BY LiveConsoleAssumption, ClickFields, StopBroadcastDoes, MoveTyped
     DEF StopBroadcast, Typed, StreamsKnown, Busy, Is, Ops, Ats
<1>2. page' \in Page /\ recorder' \in [Streams -> Recorder]
  BY StopBroadcastDoes DEF StopBroadcast, deviceVars, Typed, ConsoleTypeOK, Shows, Sets
<1>3. timers' \in Nat /\ timer' \in BOOLEAN /\ (timer' => timers' > 0)
  <2>1. StopTimer
    BY StopBroadcastDoes DEF Typed
  <2> QED BY <2>1, TimerTyped
<1>4. /\ server' \in [Streams -> {"none", "PREPARING", "LIVE", "PAUSED", "ENDED"}]
      /\ mics' \subseteq Streams /\ sockets' \subseteq Streams
      /\ socket' \in Streams \cup {None} /\ capture' \in Streams \cup {None}
      /\ mishaps' \subseteq {"two starts", "left early", "overlap", "lost", "microphone"}
  BY StopBroadcastDoes
     DEF StopBroadcast, deviceVars, Typed, ConsoleTypeOK, Begin, Overlap, StatusAfter
<1> QED BY <1>1, <1>2, <1>3, <1>4 DEF Typed, StreamsKnown, ConsoleTypeOK, Busy

LEMMA StoppedTyped == ASSUME Typed, NEW c \in Clicks, Stopped(c) PROVE Typed'
<1>1. /\ click' \in [Clicks -> Click]
      /\ StreamsKnown'
  BY LiveConsoleAssumption, ClickFields, StoppedDoes, MoveTyped
     DEF Stopped, Typed, StreamsKnown, Busy, Is, Ops, Ats
<1>2. page' \in Page /\ recorder' \in [Streams -> Recorder]
  BY StoppedDoes DEF Stopped, deviceVars, Typed, ConsoleTypeOK, Shows, Sets
<1>3. timers' \in Nat /\ timer' \in BOOLEAN /\ (timer' => timers' > 0)
  BY StoppedDoes, TimerTyped DEF Stopped, deviceVars
<1>4. /\ server' \in [Streams -> {"none", "PREPARING", "LIVE", "PAUSED", "ENDED"}]
      /\ mics' \subseteq Streams /\ sockets' \subseteq Streams
      /\ socket' \in Streams \cup {None} /\ capture' \in Streams \cup {None}
      /\ mishaps' \subseteq {"two starts", "left early", "overlap", "lost", "microphone"}
  BY StoppedDoes DEF Stopped, deviceVars, Typed, ConsoleTypeOK, Begin, Overlap, StatusAfter
<1> QED BY <1>1, <1>2, <1>3, <1>4 DEF Typed, StreamsKnown, ConsoleTypeOK, Busy


LEMMA OtherTyped ==
  ASSUME Typed, UNCHANGED click, ConsoleTypeOK', (timer => timers > 0)'
  PROVE  Typed'
BY DEF Typed, StreamsKnown, Busy

LEMMA AutoEndTyped == ASSUME Typed, NEW s \in Streams, AutoEnd(s) PROVE Typed'
<1>1. server' \in [Streams -> {"none", "PREPARING", "LIVE", "PAUSED", "ENDED"}]
  BY DEF AutoEnd, Typed, ConsoleTypeOK
<1>2. timers' \in Nat /\ timer' \in BOOLEAN /\ (timer' => timers' > 0)
  BY TimerTyped DEF AutoEnd, deviceVars
<1>3. ConsoleTypeOK'
  BY <1>1, <1>2 DEF AutoEnd, deviceVars, Typed, ConsoleTypeOK
<1> QED BY <1>2, <1>3, OtherTyped DEF AutoEnd

LEMMA SetModeTyped == ASSUME Typed, NEW ptt \in BOOLEAN, SetMode(ptt) PROVE Typed'
<1>1. page' \in Page
  BY SetModeDoes DEF Shows, Typed
<1>2. timers' \in Nat /\ timer' \in BOOLEAN /\ (timer' => timers' > 0)
  BY TimerTyped DEF SetMode, deviceVars
<1>3. ConsoleTypeOK'
  BY <1>1, <1>2 DEF SetMode, deviceVars, Typed, ConsoleTypeOK
<1> QED BY <1>2, <1>3, OtherTyped DEF SetMode

LEMMA ResetBroadcastTyped == ASSUME Typed, ResetBroadcast PROVE Typed'
<1>1. page' \in Page
  BY ResetBroadcastDoes DEF Shows, Typed
<1>2. timers' \in Nat /\ timer' \in BOOLEAN /\ (timer' => timers' > 0)
  BY TimerTyped DEF ResetBroadcast, deviceVars
<1>3. ConsoleTypeOK'
  BY <1>1, <1>2 DEF ResetBroadcast, deviceVars, Typed, ConsoleTypeOK
<1> QED BY <1>2, <1>3, OtherTyped DEF ResetBroadcast

LEMMA PressButtonTyped == ASSUME Typed, PressButton PROVE Typed'
<1>1. recorder' \in [Streams -> Recorder]
  BY PressButtonDoes DEF Sets, Typed
<1>2. timers' \in Nat /\ timer' \in BOOLEAN /\ (timer' => timers' > 0)
  BY TimerTyped DEF PressButton
<1>3. ConsoleTypeOK'
  BY <1>1, <1>2 DEF PressButton, Typed, ConsoleTypeOK
<1> QED BY <1>2, <1>3, OtherTyped DEF PressButton

LEMMA ReleaseButtonTyped == ASSUME Typed, ReleaseButton PROVE Typed'
<1>1. recorder' \in [Streams -> Recorder]
  BY ReleaseButtonDoes DEF Typed
<1>2. timers' \in Nat /\ timer' \in BOOLEAN /\ (timer' => timers' > 0)
  BY TimerTyped DEF ReleaseButton
<1>3. ConsoleTypeOK'
  BY <1>1, <1>2 DEF ReleaseButton, Typed, ConsoleTypeOK
<1> QED BY <1>2, <1>3, OtherTyped DEF ReleaseButton

LEMMA UnmountTyped == ASSUME Typed, Unmount PROVE Typed'
<1>1. page' \in Page /\ mics' = mics \ {capture} /\ recorder' \in [Streams -> Recorder] /\ StopTimer
  BY UnmountDoes DEF Shows, Sets, Typed
<1>2. timers' \in Nat /\ timer' \in BOOLEAN /\ (timer' => timers' > 0)
  BY <1>1, TimerTyped
<1>3. ConsoleTypeOK'
  BY <1>1, <1>2 DEF Unmount, Typed, ConsoleTypeOK
<1> QED BY <1>2, <1>3, OtherTyped DEF Unmount

LEMMA NextTyped == Typed /\ [Next]_vars => Typed'
<1> SUFFICES ASSUME Typed, [Next]_vars PROVE Typed'
  OBVIOUS
<1>1. CASE UNCHANGED vars
  BY <1>1 DEF vars, Typed, StreamsKnown, ConsoleTypeOK, Busy
<1>2. ASSUME NEW c \in Clicks,
             \/ CheckRequest(c) \/ WriteRequest(c) \/ LoseRequest(c)
             \/ StartBroadcast(c) \/ CheckMicPermission(c) \/ Created(c)
             \/ OpenMicrophone(c) \/ MicrophoneFails(c) \/ Started(c) \/ StartFailed(c)
             \/ PauseBroadcast(c) \/ Paused(c) \/ ResumeBroadcast(c) \/ Resumed(c) \/ ChangeFailed(c)
             \/ StopBroadcast(c) \/ Stopped(c)
      PROVE  Typed'
  BY <1>2, CheckRequestTyped, WriteRequestTyped, LoseRequestTyped, StartBroadcastTyped,
     CheckMicPermissionTyped,
     CreatedTyped, OpenMicrophoneTyped, MicrophoneFailsTyped, StartedTyped, StartFailedTyped,
     PauseBroadcastTyped, PausedTyped, ResumeBroadcastTyped, ResumedTyped, ChangeFailedTyped,
     StopBroadcastTyped, StoppedTyped
<1>3. ASSUME NEW s \in Streams, AutoEnd(s) PROVE Typed'
  BY <1>3, AutoEndTyped
<1>4. ASSUME NEW ptt \in BOOLEAN, SetMode(ptt) PROVE Typed'
  BY <1>4, SetModeTyped
<1>5. CASE ResetBroadcast \/ PressButton \/ ReleaseButton \/ Unmount
  BY <1>5, ResetBroadcastTyped, PressButtonTyped, ReleaseButtonTyped, UnmountTyped
<1> QED BY <1>1, <1>2, <1>3, <1>4, <1>5 DEF Next

-----------------------------------------------------------------------------
(* StageInv. *)

(* All other clicks are idle after the step. *)
Left(c) == \A d \in Clicks \ {c} : click'[d].at = "idle"

LEMMA BusyLeft ==
  ASSUME StageInv, Apart, NEW c \in Clicks, Busy(c), \A d \in Clicks \ {c} : click'[d] = click[d]
  PROVE  Left(c) /\ (page.mounted => During(c))
BY DEF StageInv, Alone, Busy, Left

LEMMA RestingLeft ==
  ASSUME Resting, NEW c \in Clicks, \A d \in Clicks \ {c} : click'[d] = click[d]
  PROVE  Left(c)
BY DEF Resting, Left

(* A handler that begins without an overlap to note begins at rest. *)
LEMMA ChangeAtRest ==
  ASSUME StageInv, Apart', NEW c \in Clicks, NEW op \in {"pause", "resume", "end"}, NEW at, NEW s, Begin(c, op, at, s)
  PROVE  Apart /\ Resting /\ page.mounted /\ AtRest
<1>1. mishaps' = mishaps \cup {"overlap" : d \in {d \in Clicks : click[d].at # "idle"}} /\ page.mounted
  BY DEF Begin, Overlap
<1>2. Apart /\ Resting
  BY <1>1 DEF Apart, NoMishap, Resting
<1> QED BY <1>1, <1>2 DEF StageInv

LEMMA StartAtRest ==
  ASSUME StageInv, Apart', ConsoleTypeOK, NEW c \in Clicks, StartBroadcast(c)
  PROVE  Apart /\ Resting /\ page.mounted /\ AtRest
<1>1. /\ mishaps' = mishaps \cup {"two starts" : d \in {d \in Clicks : click[d].op \in {"create", "start"} /\ click[d].at # "idle"}}
      /\ page.mounted /\ page.status = "idle"
  BY DEF StartBroadcast, Begin, Overlap
<1>2. Apart /\ \A d \in Clicks : Busy(d) => click[d].op \notin {"create", "start"}
  BY <1>1 DEF Apart, NoMishap, Busy
<1>3. \A d \in Clicks : ~Busy(d)
  BY <1>1, <1>2, ClickFields DEF StageInv, During, Ops
<1> QED BY <1>1, <1>2, <1>3 DEF StageInv, Resting, Busy

LEMMA StageStep ==
  ASSUME NEW c \in Clicks,
         Apart' => /\ Left(c)
                   /\ page'.mounted => /\ click'[c].at = "idle" => AtRest'
                                       /\ click'[c].at # "idle" => During(c)'
  PROVE  StageInv'
BY DEF StageInv, Alone, Busy, Resting, Left

LEMMA StageKept ==
  ASSUME StageInv, UNCHANGED click, Apart' => Apart, page'.mounted => page.mounted,
         page'.mounted /\ AtRest => AtRest',
         \A c \in Clicks : page'.mounted /\ During(c) => During(c)'
  PROVE  StageInv'
BY DEF StageInv, Alone, Busy, Resting

LEMMA StageInitially == Init => StageInv
<1> SUFFICES ASSUME Init PROVE StageInv
  OBVIOUS
<1>1. \A c \in Clicks : click[c].at = "idle"
  BY DEF Init, NoClick
<1>2. AtRest
  BY DEF Init, AtRest, Counting
<1> QED BY <1>1, <1>2 DEF StageInv, Alone, Busy

LEMMA CheckRequestStage == ASSUME Typed, StageInv, NEW c \in Clicks, CheckRequest(c) PROVE StageInv'
<1> SUFFICES ASSUME Apart'
             PROVE  /\ Left(c)
                    /\ page'.mounted => /\ click'[c].at = "idle" => AtRest'
                                        /\ click'[c].at # "idle" => During(c)'
  BY StageStep
<1>1. ConsoleTypeOK /\ (page'.mounted => page.mounted)
  BY CheckRequestDoes DEF CheckRequest, Typed, Shows
<1>2. Apart /\ Busy(c)
  BY DEF CheckRequest, Apart, NoMishap, Busy, Is
<1>3. Left(c) /\ (page.mounted => During(c))
  BY <1>1, <1>2, CheckRequestDoes, BusyLeft DEF Moves, Typed
<1>4. ASSUME page'.mounted
      PROVE  (click'[c].at = "idle" => AtRest') /\ (click'[c].at # "idle" => During(c)')
  BY <1>1, <1>3, <1>4, CheckRequestDoes
     DEF CheckRequest, Is, deviceVars, Moves, Shows, Sets, AtRest, During, Captured, Counting,
         StartTimer, StopTimer, NewRecorder
<1> QED BY <1>3, <1>4

LEMMA WriteRequestStage == ASSUME Typed, StageInv, NEW c \in Clicks, WriteRequest(c) PROVE StageInv'
<1> SUFFICES ASSUME Apart'
             PROVE  /\ Left(c)
                    /\ page'.mounted => /\ click'[c].at = "idle" => AtRest'
                                        /\ click'[c].at # "idle" => During(c)'
  BY StageStep
<1>1. ConsoleTypeOK /\ (page'.mounted => page.mounted)
  BY WriteRequestDoes DEF WriteRequest, Typed, Shows
<1>2. Apart /\ Busy(c)
  BY DEF WriteRequest, Apart, NoMishap, Busy, Is
<1>3. Left(c) /\ (page.mounted => During(c))
  BY <1>1, <1>2, WriteRequestDoes, BusyLeft DEF Moves, Typed
<1>4. ASSUME page'.mounted
      PROVE  (click'[c].at = "idle" => AtRest') /\ (click'[c].at # "idle" => During(c)')
  <2>1. PICK s \in Streams : (click[c].op = "create" \/ s = click[c].stream) /\ Moves(c, click[c].op, "answered", s)
    BY <1>1, WriteRequestDoes
  <2>2. During(c) /\ click[c].at = "checked" /\ UNCHANGED <<page, deviceVars>>
    BY <1>1, <1>3, <1>4 DEF WriteRequest
  <2> QED BY <2>1, <2>2 DEF deviceVars, Moves, During, Captured, Counting
<1> QED BY <1>3, <1>4

LEMMA LoseRequestStage == ASSUME Typed, StageInv, NEW c \in Clicks, LoseRequest(c) PROVE StageInv'
<1> SUFFICES ASSUME Apart'
             PROVE  /\ Left(c)
                    /\ page'.mounted => /\ click'[c].at = "idle" => AtRest'
                                        /\ click'[c].at # "idle" => During(c)'
  BY StageStep
<1>1. ConsoleTypeOK /\ (page'.mounted => page.mounted)
  BY LoseRequestDoes DEF LoseRequest, Typed, Shows
<1>2. Apart /\ Busy(c)
  BY DEF LoseRequest, Apart, NoMishap, Busy, Is
<1>3. Left(c) /\ (page.mounted => During(c))
  BY <1>1, <1>2, LoseRequestDoes, BusyLeft DEF Moves, Typed
<1>4. ASSUME page'.mounted
      PROVE  (click'[c].at = "idle" => AtRest') /\ (click'[c].at # "idle" => During(c)')
  BY <1>1, <1>3, <1>4, LoseRequestDoes
     DEF LoseRequest, Is, deviceVars, Moves, Shows, Sets, AtRest, During, Captured, Counting,
         StartTimer, StopTimer, NewRecorder
<1> QED BY <1>3, <1>4

LEMMA StartBroadcastStage == ASSUME Typed, StageInv, NEW c \in Clicks, StartBroadcast(c) PROVE StageInv'
<1> SUFFICES ASSUME Apart'
             PROVE  /\ Left(c)
                    /\ page'.mounted => /\ click'[c].at = "idle" => AtRest'
                                        /\ click'[c].at # "idle" => During(c)'
  BY StageStep
<1>1. ConsoleTypeOK /\ (page'.mounted => page.mounted)
  BY StartBroadcastDoes DEF StartBroadcast, Typed, Shows
<1>2. Apart /\ Resting /\ AtRest
  BY <1>1, StartAtRest DEF StartBroadcast
<1>3. Left(c)
  BY <1>1, <1>2, StartBroadcastDoes, RestingLeft DEF Moves
<1>4. During(c)'
  BY <1>1, <1>2, StartBroadcastDoes
     DEF StartBroadcast, deviceVars, Moves, Sets, AtRest, During, Captured, Counting, StopTimer
<1> QED BY <1>1, <1>3, <1>4, StartBroadcastDoes DEF Moves

LEMMA CheckMicPermissionStage == ASSUME Typed, StageInv, NEW c \in Clicks, CheckMicPermission(c) PROVE StageInv'
<1> SUFFICES ASSUME Apart'
             PROVE  /\ Left(c)
                    /\ page'.mounted => /\ click'[c].at = "idle" => AtRest'
                                        /\ click'[c].at # "idle" => During(c)'
  BY StageStep
<1>1. ConsoleTypeOK /\ (page'.mounted => page.mounted)
  BY CheckMicPermissionDoes DEF CheckMicPermission, Typed, Shows
<1>2. Apart /\ Busy(c)
  BY DEF CheckMicPermission, Apart, NoMishap, Busy, Is
<1>3. Left(c) /\ (page.mounted => During(c))
  BY <1>1, <1>2, CheckMicPermissionDoes, BusyLeft DEF Moves, Typed
<1>4. ASSUME page'.mounted
      PROVE  (click'[c].at = "idle" => AtRest') /\ (click'[c].at # "idle" => During(c)')
  BY <1>1, <1>3, <1>4, CheckMicPermissionDoes
     DEF CheckMicPermission, Is, deviceVars, Moves, Shows, Sets, AtRest, During, Captured,
         Counting, StartTimer, StopTimer, NewRecorder
<1> QED BY <1>3, <1>4

LEMMA CreatedStage == ASSUME Typed, StageInv, NEW c \in Clicks, Created(c) PROVE StageInv'
<1> SUFFICES ASSUME Apart'
             PROVE  /\ Left(c)
                    /\ page'.mounted => /\ click'[c].at = "idle" => AtRest'
                                        /\ click'[c].at # "idle" => During(c)'
  BY StageStep
<1>1. ConsoleTypeOK /\ (page'.mounted => page.mounted)
  BY CreatedDoes DEF Created, Typed, Shows
<1>2. Apart /\ Busy(c)
  BY DEF Created, Apart, NoMishap, Busy, Is
<1>3. Left(c) /\ (page.mounted => During(c))
  BY <1>1, <1>2, CreatedDoes, BusyLeft DEF Moves, Typed
<1>4. ASSUME page'.mounted
      PROVE  (click'[c].at = "idle" => AtRest') /\ (click'[c].at # "idle" => During(c)')
  BY <1>1, <1>3, <1>4, CreatedDoes
     DEF Created, Is, deviceVars, Moves, Shows, Sets, AtRest, During, Captured, Counting,
         StartTimer, StopTimer, NewRecorder
<1> QED BY <1>3, <1>4

LEMMA OpenMicrophoneStage == ASSUME Typed, StageInv, NEW c \in Clicks, OpenMicrophone(c) PROVE StageInv'
<1> SUFFICES ASSUME Apart'
             PROVE  /\ Left(c)
                    /\ page'.mounted => /\ click'[c].at = "idle" => AtRest'
                                        /\ click'[c].at # "idle" => During(c)'
  BY StageStep
<1>1. ConsoleTypeOK /\ (page'.mounted => page.mounted)
  BY OpenMicrophoneDoes DEF OpenMicrophone, Typed, Shows
<1>2. Apart /\ Busy(c)
  BY DEF OpenMicrophone, Apart, NoMishap, Busy, Is
<1>3. Left(c) /\ (page.mounted => During(c))
  BY <1>1, <1>2, OpenMicrophoneDoes, BusyLeft DEF Moves, Typed
<1>4. ASSUME page'.mounted
      PROVE  (click'[c].at = "idle" => AtRest') /\ (click'[c].at # "idle" => During(c)')
  BY <1>1, <1>3, <1>4, OpenMicrophoneDoes
     DEF OpenMicrophone, Is, deviceVars, Moves, Shows, Sets, AtRest, During, Captured, Counting,
         StartTimer, StopTimer, NewRecorder
<1> QED BY <1>3, <1>4

LEMMA MicrophoneFailsStage == ASSUME Typed, StageInv, NEW c \in Clicks, MicrophoneFails(c) PROVE StageInv'
<1> SUFFICES ASSUME Apart'
             PROVE  /\ Left(c)
                    /\ page'.mounted => /\ click'[c].at = "idle" => AtRest'
                                        /\ click'[c].at # "idle" => During(c)'
  BY StageStep
<1>1. ConsoleTypeOK /\ (page'.mounted => page.mounted)
  BY MicrophoneFailsDoes DEF MicrophoneFails, Typed, Shows
<1>2. Apart /\ Busy(c)
  BY DEF MicrophoneFails, Apart, NoMishap, Busy, Is
<1>3. Left(c) /\ (page.mounted => During(c))
  BY <1>1, <1>2, MicrophoneFailsDoes, BusyLeft DEF Moves, Typed
<1>4. ASSUME page'.mounted
      PROVE  (click'[c].at = "idle" => AtRest') /\ (click'[c].at # "idle" => During(c)')
  BY <1>1, <1>3, <1>4, MicrophoneFailsDoes
     DEF MicrophoneFails, Is, deviceVars, Moves, Shows, Sets, AtRest, During, Captured, Counting,
         StartTimer, StopTimer, NewRecorder
<1> QED BY <1>3, <1>4

LEMMA StartedStage == ASSUME Typed, StageInv, NEW c \in Clicks, Started(c) PROVE StageInv'
<1> SUFFICES ASSUME Apart'
             PROVE  /\ Left(c)
                    /\ page'.mounted => /\ click'[c].at = "idle" => AtRest'
                                        /\ click'[c].at # "idle" => During(c)'
  BY StageStep
<1>1. ConsoleTypeOK /\ (page'.mounted => page.mounted)
  BY StartedDoes DEF Started, Typed, Shows
<1>2. Apart /\ Busy(c)
  BY DEF Started, Apart, NoMishap, Busy, Is
<1>3. Left(c) /\ (page.mounted => During(c))
  BY <1>1, <1>2, StartedDoes, BusyLeft DEF Moves, Typed
<1>4. ASSUME page'.mounted
      PROVE  (click'[c].at = "idle" => AtRest') /\ (click'[c].at # "idle" => During(c)')
  <2> DEFINE s == click[c].stream
  <2>1. During(c) /\ Is(c, "start", "answered") /\ s \in Streams
    BY <1>1, <1>3, <1>4, StartedDoes DEF Started
  <2>2. /\ page.stream = s /\ s \in mics /\ capture = s /\ socket = s /\ socket \in sockets
        /\ recorder[s] = NewRecorder /\ Counting(FALSE)
    BY <2>1 DEF During, Is
  <2>a. recorder[s].sends = "audio-recording"
    BY <2>2 DEF NewRecorder
  <2>3. /\ click'[c].at = "idle" /\ page'.status = "live" /\ page'.stream = s
        /\ recorder' \in [Streams -> Recorder] /\ recorder'[s].state = "recording" /\ recorder'[s].sends = "audio-recording"
    BY <2>1, <2>2, <2>a, StartedDoes DEF Moves, Shows, Sets
  <2>4. StartTimer /\ UNCHANGED <<mics, sockets, socket, capture>>
    BY <2>2 DEF Started
  <2>5. Counting(TRUE)'
    BY <2>2, <2>4 DEF Counting, StartTimer
  <2>6. recorder'[s] = [state |-> "recording", sends |-> "audio-recording"]
    BY <2>1, <2>3 DEF Recorder
  <2>7. Captured'
    BY <2>2, <2>3, <2>4, <2>6 DEF Captured
  <2> QED BY <2>3, <2>5, <2>7 DEF AtRest
<1> QED BY <1>3, <1>4

LEMMA StartFailedStage == ASSUME Typed, StageInv, NEW c \in Clicks, StartFailed(c) PROVE StageInv'
<1> SUFFICES ASSUME Apart'
             PROVE  /\ Left(c)
                    /\ page'.mounted => /\ click'[c].at = "idle" => AtRest'
                                        /\ click'[c].at # "idle" => During(c)'
  BY StageStep
<1>1. ConsoleTypeOK /\ (page'.mounted => page.mounted)
  BY StartFailedDoes DEF StartFailed, Typed, Shows
<1>2. Apart /\ Busy(c)
  BY DEF StartFailed, Apart, NoMishap, Busy, Is
<1>3. Left(c) /\ (page.mounted => During(c))
  BY <1>1, <1>2, StartFailedDoes, BusyLeft DEF Moves, Typed
<1>4. ASSUME page'.mounted
      PROVE  (click'[c].at = "idle" => AtRest') /\ (click'[c].at # "idle" => During(c)')
  BY <1>1, <1>3, <1>4, StartFailedDoes
     DEF StartFailed, Is, deviceVars, Moves, Shows, Sets, AtRest, During, Captured, Counting,
         StartTimer, StopTimer, NewRecorder
<1> QED BY <1>3, <1>4

LEMMA PauseBroadcastStage == ASSUME Typed, StageInv, NEW c \in Clicks, PauseBroadcast(c) PROVE StageInv'
<1> SUFFICES ASSUME Apart'
             PROVE  /\ Left(c)
                    /\ page'.mounted => /\ click'[c].at = "idle" => AtRest'
                                        /\ click'[c].at # "idle" => During(c)'
  BY StageStep
<1>1. ConsoleTypeOK /\ (page'.mounted => page.mounted)
  BY PauseBroadcastDoes DEF PauseBroadcast, Typed, Shows
<1>2. Apart /\ Resting /\ AtRest
  BY <1>1, ChangeAtRest DEF PauseBroadcast
<1>3. Left(c)
  BY <1>1, <1>2, PauseBroadcastDoes, RestingLeft DEF Moves
<1>4. During(c)'
  BY <1>1, <1>2, PauseBroadcastDoes
     DEF PauseBroadcast, deviceVars, Moves, Sets, AtRest, During, Captured, Counting, StopTimer
<1> QED BY <1>1, <1>3, <1>4, PauseBroadcastDoes DEF Moves

LEMMA PausedStage == ASSUME Typed, StageInv, NEW c \in Clicks, Paused(c) PROVE StageInv'
<1> SUFFICES ASSUME Apart'
             PROVE  /\ Left(c)
                    /\ page'.mounted => /\ click'[c].at = "idle" => AtRest'
                                        /\ click'[c].at # "idle" => During(c)'
  BY StageStep
<1>1. ConsoleTypeOK /\ (page'.mounted => page.mounted)
  BY PausedDoes DEF Paused, Typed, Shows
<1>2. Apart /\ Busy(c)
  BY DEF Paused, Apart, NoMishap, Busy, Is
<1>3. Left(c) /\ (page.mounted => During(c))
  BY <1>1, <1>2, PausedDoes, BusyLeft DEF Moves, Typed
<1>4. ASSUME page'.mounted
      PROVE  (click'[c].at = "idle" => AtRest') /\ (click'[c].at # "idle" => During(c)')
  <2>1. /\ page.status = "live" /\ Counting(TRUE) /\ Captured /\ page.stream \in Streams
    BY <1>1, <1>2, <1>3, <1>4 DEF Paused, Is, During, Typed, StreamsKnown, Busy
  <2>2. click'[c].at = "idle" /\ UNCHANGED <<mics, sockets, socket, capture>>
    BY <1>1, PausedDoes DEF Paused, Moves
  <2>3. CASE UNCHANGED <<page, recorder, timers, timer>>
    BY <2>1, <2>2, <2>3 DEF AtRest, Captured, Counting
  <2>4. CASE Shows(page.mounted, "paused", page.stream, page.ptt) /\ Sets(capture, "paused") /\ StopTimer
    <3>1. page'.status = "paused" /\ page'.stream = page.stream /\ page'.ptt = page.ptt
      BY <2>4 DEF Shows
    <3>2. Counting(FALSE)'
      BY <2>1, <2>4 DEF Counting, StopTimer
    <3>3. capture = page.stream /\ capture \in Streams /\ (~page.ptt => recorder[capture].sends = "audio-recording")
      BY <2>1 DEF Captured
    <3>4. recorder'[capture] \in Recorder /\ recorder'[capture].state = "paused" /\ (~page.ptt => recorder'[capture].sends = "audio-recording")
      BY <2>4, <3>3 DEF Sets
    <3>5. Captured'
      BY <2>1, <2>2, <3>1, <3>4 DEF Captured, Recorder
    <3> QED BY <2>2, <3>1, <3>2, <3>5 DEF AtRest
  <2> QED BY <1>1, <2>3, <2>4, PausedDoes
<1> QED BY <1>3, <1>4

LEMMA ResumeBroadcastStage == ASSUME Typed, StageInv, NEW c \in Clicks, ResumeBroadcast(c) PROVE StageInv'
<1> SUFFICES ASSUME Apart'
             PROVE  /\ Left(c)
                    /\ page'.mounted => /\ click'[c].at = "idle" => AtRest'
                                        /\ click'[c].at # "idle" => During(c)'
  BY StageStep
<1>1. ConsoleTypeOK /\ (page'.mounted => page.mounted)
  BY ResumeBroadcastDoes DEF ResumeBroadcast, Typed, Shows
<1>2. Apart /\ Resting /\ AtRest
  BY <1>1, ChangeAtRest DEF ResumeBroadcast
<1>3. Left(c)
  BY <1>1, <1>2, ResumeBroadcastDoes, RestingLeft DEF Moves
<1>4. During(c)'
  BY <1>1, <1>2, ResumeBroadcastDoes
     DEF ResumeBroadcast, deviceVars, Moves, Sets, AtRest, During, Captured, Counting, StopTimer
<1> QED BY <1>1, <1>3, <1>4, ResumeBroadcastDoes DEF Moves

LEMMA ResumedStage == ASSUME Typed, StageInv, NEW c \in Clicks, Resumed(c) PROVE StageInv'
<1> SUFFICES ASSUME Apart'
             PROVE  /\ Left(c)
                    /\ page'.mounted => /\ click'[c].at = "idle" => AtRest'
                                        /\ click'[c].at # "idle" => During(c)'
  BY StageStep
<1>1. ConsoleTypeOK /\ (page'.mounted => page.mounted)
  BY ResumedDoes DEF Resumed, Typed, Shows
<1>2. Apart /\ Busy(c)
  BY DEF Resumed, Apart, NoMishap, Busy, Is
<1>3. Left(c) /\ (page.mounted => During(c))
  BY <1>1, <1>2, ResumedDoes, BusyLeft DEF Moves, Typed
<1>4. ASSUME page'.mounted
      PROVE  (click'[c].at = "idle" => AtRest') /\ (click'[c].at # "idle" => During(c)')
  <2>1. /\ page.status = "paused" /\ Counting(FALSE) /\ Captured /\ page.stream \in Streams
    BY <1>1, <1>2, <1>3, <1>4 DEF Resumed, Is, During, Typed, StreamsKnown, Busy
  <2>2. click'[c].at = "idle" /\ UNCHANGED <<mics, sockets, socket, capture>>
    BY <1>1, ResumedDoes DEF Resumed, Moves
  <2>3. CASE UNCHANGED <<page, recorder, timers, timer>>
    BY <2>1, <2>2, <2>3 DEF AtRest, Captured, Counting
  <2>4. CASE Shows(page.mounted, "live", page.stream, page.ptt) /\ Sets(capture, "recording") /\ StartTimer
    <3>1. page'.status = "live" /\ page'.stream = page.stream /\ page'.ptt = page.ptt
      BY <2>4 DEF Shows
    <3>2. Counting(TRUE)'
      BY <2>1, <2>4 DEF Counting, StartTimer
    <3>3. capture = page.stream /\ capture \in Streams /\ (~page.ptt => recorder[capture].sends = "audio-recording")
      BY <2>1 DEF Captured
    <3>4. recorder'[capture] \in Recorder /\ recorder'[capture].state = "recording" /\ (~page.ptt => recorder'[capture].sends = "audio-recording")
      BY <2>4, <3>3 DEF Sets
    <3>5. Captured'
      BY <2>1, <2>2, <3>1, <3>4 DEF Captured, Recorder
    <3> QED BY <2>2, <3>1, <3>2, <3>5 DEF AtRest
  <2> QED BY <1>1, <2>3, <2>4, ResumedDoes
<1> QED BY <1>3, <1>4

LEMMA ChangeFailedStage == ASSUME Typed, StageInv, NEW c \in Clicks, ChangeFailed(c) PROVE StageInv'
<1> SUFFICES ASSUME Apart'
             PROVE  /\ Left(c)
                    /\ page'.mounted => /\ click'[c].at = "idle" => AtRest'
                                        /\ click'[c].at # "idle" => During(c)'
  BY StageStep
<1>1. ConsoleTypeOK /\ (page'.mounted => page.mounted)
  BY ChangeFailedDoes DEF ChangeFailed, Typed, Shows
<1>2. Apart /\ Busy(c)
  BY DEF ChangeFailed, Apart, NoMishap, Busy, Is
<1>3. Left(c) /\ (page.mounted => During(c))
  BY <1>1, <1>2, ChangeFailedDoes, BusyLeft DEF Moves, Typed
<1>4. ASSUME page'.mounted
      PROVE  (click'[c].at = "idle" => AtRest') /\ (click'[c].at # "idle" => During(c)')
  BY <1>1, <1>3, <1>4, ChangeFailedDoes
     DEF ChangeFailed, Is, deviceVars, Moves, Shows, Sets, AtRest, During, Captured, Counting,
         StartTimer, StopTimer, NewRecorder
<1> QED BY <1>3, <1>4

LEMMA StopBroadcastStage == ASSUME Typed, StageInv, NEW c \in Clicks, StopBroadcast(c) PROVE StageInv'
<1> SUFFICES ASSUME Apart'
             PROVE  /\ Left(c)
                    /\ page'.mounted => /\ click'[c].at = "idle" => AtRest'
                                        /\ click'[c].at # "idle" => During(c)'
  BY StageStep
<1>1. ConsoleTypeOK /\ (page'.mounted => page.mounted)
  BY StopBroadcastDoes DEF StopBroadcast, Typed, Shows
<1>2. Apart /\ Resting /\ AtRest
  BY <1>1, ChangeAtRest DEF StopBroadcast
<1>3. Left(c)
  BY <1>1, <1>2, StopBroadcastDoes, RestingLeft DEF Moves
<1>4. During(c)'
  <2>1. /\ page' = page /\ page.status \in {"live", "paused"}
        /\ click'[c].op = "end" /\ click'[c].stream = page.stream /\ StopTimer
    BY <1>1, StopBroadcastDoes DEF StopBroadcast, Moves
  <2>2. Counting(FALSE)'
    <3>1. CASE page.status = "live"
      <4>1. timer /\ timers = 1
        BY <1>2, <3>1 DEF AtRest, Counting
      <4>2. timers' = 0 /\ timer' = FALSE
        BY <2>1, <4>1 DEF StopTimer
      <4> QED BY <4>2 DEF Counting
    <3>2. CASE page.status = "paused"
      <4>1. ~timer /\ timers = 0
        BY <1>2, <3>2 DEF AtRest, Counting
      <4> QED BY <2>1, <4>1 DEF Counting, StopTimer
    <3> QED BY <2>1, <3>1, <3>2
  <2> QED BY <2>1, <2>2 DEF During
<1> QED BY <1>1, <1>3, <1>4, StopBroadcastDoes DEF Moves

LEMMA StoppedStage == ASSUME Typed, StageInv, NEW c \in Clicks, Stopped(c) PROVE StageInv'
<1> SUFFICES ASSUME Apart'
             PROVE  /\ Left(c)
                    /\ page'.mounted => /\ click'[c].at = "idle" => AtRest'
                                        /\ click'[c].at # "idle" => During(c)'
  BY StageStep
<1>1. ConsoleTypeOK /\ (page'.mounted => page.mounted)
  BY StoppedDoes DEF Stopped, Typed, Shows
<1>2. Apart /\ Busy(c)
  BY DEF Stopped, Apart, NoMishap, Busy, Is
<1>3. Left(c) /\ (page.mounted => During(c))
  BY <1>1, <1>2, StoppedDoes, BusyLeft DEF Moves, Typed
<1>4. ASSUME page'.mounted
      PROVE  (click'[c].at = "idle" => AtRest') /\ (click'[c].at # "idle" => During(c)')
  BY <1>1, <1>3, <1>4, StoppedDoes
     DEF Stopped, Is, deviceVars, Moves, Shows, Sets, AtRest, During, Captured, Counting,
         StartTimer, StopTimer, NewRecorder
<1> QED BY <1>3, <1>4

LEMMA AutoEndStage == ASSUME Typed, StageInv, NEW s \in Streams, AutoEnd(s) PROVE StageInv'
<1>1. ConsoleTypeOK /\ UNCHANGED click /\ (Apart' => Apart)
  BY DEF AutoEnd, Typed, Apart, NoMishap
<1>2. page'.mounted => page.mounted
  BY <1>1, PageFields DEF AutoEnd, Shows
<1>3. page'.mounted /\ AtRest => AtRest'
  BY <1>1, PageFields DEF AutoEnd, deviceVars, Shows, Sets, AtRest, Captured, Counting
<1>4. ASSUME NEW c \in Clicks, page'.mounted, During(c) PROVE During(c)'
  BY <1>1, <1>4, ClickFields DEF AutoEnd, deviceVars, Ops, Shows, Sets, During, Captured, Counting
<1> QED BY <1>1, <1>2, <1>3, <1>4, StageKept

LEMMA SetModeStage == ASSUME Typed, StageInv, NEW ptt \in BOOLEAN, SetMode(ptt) PROVE StageInv'
<1>1. ConsoleTypeOK /\ UNCHANGED click /\ (Apart' => Apart)
  BY DEF SetMode, Typed, Apart, NoMishap
<1>2. page'.mounted => page.mounted
  BY <1>1, SetModeDoes, PageFields DEF SetMode, Shows
<1>3. page'.mounted /\ AtRest => AtRest'
  BY <1>1, SetModeDoes, PageFields DEF SetMode, deviceVars, Shows, Sets, AtRest, Captured, Counting
<1>4. ASSUME NEW c \in Clicks, page'.mounted, During(c) PROVE During(c)'
  BY <1>1, <1>4, SetModeDoes, ClickFields
     DEF SetMode, deviceVars, Ops, Shows, Sets, During, Captured, Counting
<1> QED BY <1>1, <1>2, <1>3, <1>4, StageKept

LEMMA ResetBroadcastStage == ASSUME Typed, StageInv, ResetBroadcast PROVE StageInv'
<1>1. ConsoleTypeOK /\ UNCHANGED click /\ (Apart' => Apart)
  BY DEF ResetBroadcast, Typed, Apart, NoMishap
<1>2. page'.mounted => page.mounted
  BY <1>1, ResetBroadcastDoes, PageFields DEF ResetBroadcast, Shows
<1>3. page'.mounted /\ AtRest => AtRest'
  BY <1>1, ResetBroadcastDoes, PageFields
     DEF ResetBroadcast, deviceVars, Shows, Sets, AtRest, Captured, Counting
<1>4. ASSUME NEW c \in Clicks, page'.mounted, During(c) PROVE During(c)'
  BY <1>1, <1>4, ResetBroadcastDoes, ClickFields
     DEF ResetBroadcast, deviceVars, Ops, Shows, Sets, During, Captured, Counting
<1> QED BY <1>1, <1>2, <1>3, <1>4, StageKept

LEMMA PressButtonStage == ASSUME Typed, StageInv, PressButton PROVE StageInv'
<1>1. ConsoleTypeOK /\ UNCHANGED click /\ (Apart' => Apart)
  BY DEF PressButton, Typed, Apart, NoMishap
<1>2. page'.mounted => page.mounted
  BY <1>1, PressButtonDoes, PageFields DEF PressButton, Shows
<1>3. page'.mounted /\ AtRest => AtRest'
  BY <1>1, PressButtonDoes, PageFields
     DEF PressButton, deviceVars, Shows, Sets, AtRest, Captured, Counting
<1>4. ASSUME NEW c \in Clicks, page'.mounted, During(c) PROVE During(c)'
  BY <1>1, <1>4, PressButtonDoes, ClickFields
     DEF PressButton, deviceVars, Ops, Shows, Sets, During, Captured, Counting
<1> QED BY <1>1, <1>2, <1>3, <1>4, StageKept

LEMMA ReleaseButtonStage == ASSUME Typed, StageInv, ReleaseButton PROVE StageInv'
<1>1. ConsoleTypeOK /\ UNCHANGED click /\ (Apart' => Apart)
  BY DEF ReleaseButton, Typed, Apart, NoMishap
<1>2. page'.mounted => page.mounted
  BY <1>1, ReleaseButtonDoes, PageFields DEF ReleaseButton, Shows
<1>3. page'.mounted /\ AtRest => AtRest'
  BY <1>1, ReleaseButtonDoes, PageFields
     DEF ReleaseButton, deviceVars, Shows, Sets, AtRest, Captured, Counting
<1>4. ASSUME NEW c \in Clicks, page'.mounted, During(c) PROVE During(c)'
  BY <1>1, <1>4, ReleaseButtonDoes, ClickFields
     DEF ReleaseButton, deviceVars, Ops, Shows, Sets, During, Captured, Counting
<1> QED BY <1>1, <1>2, <1>3, <1>4, StageKept

LEMMA UnmountStage == ASSUME Typed, StageInv, Unmount PROVE StageInv'
<1>1. ConsoleTypeOK /\ UNCHANGED click /\ (Apart' => Apart)
  BY DEF Unmount, Typed, Apart, NoMishap
<1>2. page'.mounted => page.mounted
  BY <1>1, UnmountDoes, PageFields DEF Unmount, Shows
<1>3. page'.mounted /\ AtRest => AtRest'
  BY <1>1, UnmountDoes, PageFields DEF Unmount, deviceVars, Shows, Sets, AtRest, Captured, Counting
<1>4. ASSUME NEW c \in Clicks, page'.mounted, During(c) PROVE During(c)'
  BY <1>1, <1>4, UnmountDoes, ClickFields
     DEF Unmount, deviceVars, Ops, Shows, Sets, During, Captured, Counting
<1> QED BY <1>1, <1>2, <1>3, <1>4, StageKept

LEMMA NextStage == Typed /\ StageInv /\ [Next]_vars => StageInv'
<1> SUFFICES ASSUME Typed, StageInv, [Next]_vars PROVE StageInv'
  OBVIOUS
<1>1. CASE UNCHANGED vars
  <2>1. UNCHANGED click /\ (Apart' => Apart) /\ page' = page
    BY <1>1 DEF vars, Apart, NoMishap
  <2>2. AtRest => AtRest'
    BY <1>1 DEF vars, AtRest, Captured, Counting
  <2>3. \A c \in Clicks : During(c) => During(c)'
    BY <1>1 DEF vars, During, Captured, Counting
  <2> QED BY <2>1, <2>2, <2>3, StageKept
<1>2. ASSUME NEW c \in Clicks,
             \/ CheckRequest(c) \/ WriteRequest(c) \/ LoseRequest(c)
             \/ StartBroadcast(c) \/ CheckMicPermission(c) \/ Created(c)
             \/ OpenMicrophone(c) \/ MicrophoneFails(c) \/ Started(c) \/ StartFailed(c)
             \/ PauseBroadcast(c) \/ Paused(c) \/ ResumeBroadcast(c) \/ Resumed(c) \/ ChangeFailed(c)
             \/ StopBroadcast(c) \/ Stopped(c)
      PROVE  StageInv'
  BY <1>2, CheckRequestStage, WriteRequestStage, LoseRequestStage, StartBroadcastStage,
     CheckMicPermissionStage,
     CreatedStage, OpenMicrophoneStage, MicrophoneFailsStage, StartedStage, StartFailedStage,
     PauseBroadcastStage, PausedStage, ResumeBroadcastStage, ResumedStage, ChangeFailedStage,
     StopBroadcastStage, StoppedStage
<1>3. ASSUME NEW s \in Streams, AutoEnd(s) PROVE StageInv'
  BY <1>3, AutoEndStage
<1>4. ASSUME NEW ptt \in BOOLEAN, SetMode(ptt) PROVE StageInv'
  BY <1>4, SetModeStage
<1>5. CASE ResetBroadcast \/ PressButton \/ ReleaseButton \/ Unmount
  BY <1>5, ResetBroadcastStage, PressButtonStage, ReleaseButtonStage, UnmountStage
<1> QED BY <1>1, <1>2, <1>3, <1>4, <1>5 DEF Next

-----------------------------------------------------------------------------
(* PageInv. *)

LEMMA CleanApart == Clean => Apart
BY DEF Clean, Apart, NoMishap

LEMMA PageStep ==
  ASSUME NEW c \in Clicks,
         Clean' /\ page'.mounted => /\ Left(c)
                                    /\ click'[c].at = "idle" => PageAtRest'
                                    /\ click'[c].at # "idle" => PageDuring(c)'
  PROVE  PageInv'
BY DEF PageInv, Busy, Resting, Left

LEMMA PageKept ==
  ASSUME StageInv, PageInv, UNCHANGED click, Clean' => Clean, page'.mounted => page.mounted,
         page'.mounted /\ PageAtRest => PageAtRest',
         \A c \in Clicks : page'.mounted /\ Busy(c) /\ During(c) /\ PageDuring(c) => PageDuring(c)'
  PROVE  PageInv'
BY CleanApart DEF PageInv, StageInv, Busy, Resting

LEMMA PageInitially == Init => PageInv
<1> SUFFICES ASSUME Init PROVE PageInv
  OBVIOUS
<1>1. \A c \in Clicks : click[c].at = "idle"
  BY DEF Init, NoClick
<1>2. PageAtRest
  BY DEF Init, PageAtRest
<1> QED BY <1>1, <1>2 DEF PageInv, Busy

LEMMA CheckRequestPage == ASSUME Typed, StageInv, PageInv, NEW c \in Clicks, CheckRequest(c) PROVE PageInv'
<1> SUFFICES ASSUME Clean', page'.mounted
             PROVE  /\ Left(c)
                    /\ click'[c].at = "idle" => PageAtRest'
                    /\ click'[c].at # "idle" => PageDuring(c)'
  BY PageStep
<1>a. Apart' /\ (Clean' => Clean)
  BY DEF CheckRequest, Begin, Clean, Apart, NoMishap
<1>1. ConsoleTypeOK /\ page.mounted /\ Clean
  BY <1>a, CheckRequestDoes DEF CheckRequest, Typed, Shows
<1>2. Apart /\ Busy(c)
  BY <1>1, CleanApart DEF CheckRequest, Busy, Is
<1>3. Left(c) /\ During(c) /\ PageDuring(c)
  BY <1>1, <1>2, CheckRequestDoes, BusyLeft DEF Moves, Typed, PageInv
<1>4. (click'[c].at = "idle" => PageAtRest') /\ (click'[c].at # "idle" => PageDuring(c)')
  BY <1>1, <1>3, CheckRequestDoes, ClickFields
     DEF CheckRequest, Ops, Is, Accepts, Moves, Shows, During, PageAtRest, PageDuring, LiveStatuses
<1> QED BY <1>3, <1>4

LEMMA WriteRequestPage == ASSUME Typed, StageInv, PageInv, NEW c \in Clicks, WriteRequest(c) PROVE PageInv'
<1> SUFFICES ASSUME Clean', page'.mounted
             PROVE  /\ Left(c)
                    /\ click'[c].at = "idle" => PageAtRest'
                    /\ click'[c].at # "idle" => PageDuring(c)'
  BY PageStep
<1>a. Apart' /\ (Clean' => Clean)
  BY DEF WriteRequest, Begin, Clean, Apart, NoMishap
<1>1. ConsoleTypeOK /\ page.mounted /\ Clean
  BY <1>a, WriteRequestDoes DEF WriteRequest, Typed, Shows
<1>2. Apart /\ Busy(c)
  BY <1>1, CleanApart DEF WriteRequest, Busy, Is
<1>3. Left(c) /\ During(c) /\ PageDuring(c)
  BY <1>1, <1>2, WriteRequestDoes, BusyLeft DEF Moves, Typed, PageInv
<1>4. (click'[c].at = "idle" => PageAtRest') /\ (click'[c].at # "idle" => PageDuring(c)')
  <2>1. PICK s \in Streams :
          /\ click[c].op = "create" \/ s = click[c].stream
          /\ server' = [server EXCEPT ![s] = StatusAfter(click[c].op)]
          /\ Moves(c, click[c].op, "answered", s)
    BY <1>1, WriteRequestDoes
  <2>2. server'[s] = StatusAfter(click[c].op)
    BY <1>1, <2>1 DEF ConsoleTypeOK
  <2>3. click'[c].op = click[c].op /\ click'[c].at = "answered" /\ click'[c].stream = s /\ UNCHANGED page
    BY <2>1 DEF Moves, WriteRequest
  <2>4. click[c].op \in Ops /\ click[c].at = "checked"
    BY <1>1, ClickFields DEF WriteRequest
  <2>5. PageDuring(c)'
    <3>1. CASE click[c].op = "create"
      <4>1. server'[s] = "PREPARING" /\ page'.stream = None
        BY <1>3, <2>2, <2>3, <3>1 DEF StatusAfter, PageDuring
      <4> QED BY <2>3, <3>1, <4>1 DEF PageDuring
    <3>2. CASE click[c].op \in {"start", "resume"}
      <4>1. server'[s] = "LIVE"
        BY <2>2, <3>2 DEF StatusAfter
      <4> QED BY <2>3, <3>2, <4>1 DEF PageDuring
    <3>3. CASE click[c].op = "pause"
      <4>1. server'[s] = "PAUSED"
        BY <2>2, <3>3 DEF StatusAfter
      <4> QED BY <2>3, <3>3, <4>1 DEF PageDuring
    <3>4. CASE click[c].op = "end"
      <4>1. server'[s] = "ENDED"
        BY <2>2, <3>4 DEF StatusAfter
      <4> QED BY <2>3, <3>4, <4>1 DEF PageDuring
    <3> QED BY <2>4, <3>1, <3>2, <3>3, <3>4 DEF Ops
  <2> QED BY <2>3, <2>5
<1> QED BY <1>3, <1>4

LEMMA LoseRequestPage == ASSUME Typed, StageInv, PageInv, NEW c \in Clicks, LoseRequest(c) PROVE PageInv'
BY DEF LoseRequest, PageInv, Clean, NoMishap

LEMMA StartBroadcastPage == ASSUME Typed, StageInv, PageInv, NEW c \in Clicks, StartBroadcast(c) PROVE PageInv'
<1> SUFFICES ASSUME Clean', page'.mounted
             PROVE  /\ Left(c)
                    /\ click'[c].at = "idle" => PageAtRest'
                    /\ click'[c].at # "idle" => PageDuring(c)'
  BY PageStep
<1>a. Apart' /\ (Clean' => Clean)
  BY DEF StartBroadcast, Begin, Clean, Apart, NoMishap
<1>1. ConsoleTypeOK /\ page.mounted /\ Clean
  BY <1>a, StartBroadcastDoes DEF StartBroadcast, Typed, Shows
<1>2. Resting /\ AtRest /\ PageAtRest
  BY <1>a, <1>1, StartAtRest DEF StartBroadcast, PageInv
<1>3. Left(c)
  BY <1>1, <1>2, StartBroadcastDoes, RestingLeft DEF Moves
<1>4. PageDuring(c)'
  <2>1. click'[c].op = "create" /\ click'[c].at = "permission" /\ UNCHANGED page
    BY <1>1, StartBroadcastDoes DEF StartBroadcast, Moves
  <2>2. page.stream = None
    BY <1>2 DEF StartBroadcast, PageAtRest
  <2> QED BY <2>1, <2>2 DEF PageDuring
<1> QED BY <1>1, <1>3, <1>4, StartBroadcastDoes DEF Moves

LEMMA CheckMicPermissionPage == ASSUME Typed, StageInv, PageInv, NEW c \in Clicks, CheckMicPermission(c) PROVE PageInv'
<1> SUFFICES ASSUME Clean', page'.mounted
             PROVE  /\ Left(c)
                    /\ click'[c].at = "idle" => PageAtRest'
                    /\ click'[c].at # "idle" => PageDuring(c)'
  BY PageStep
<1>a. Apart' /\ (Clean' => Clean)
  BY DEF CheckMicPermission, Begin, Clean, Apart, NoMishap
<1>1. ConsoleTypeOK /\ page.mounted /\ Clean
  BY <1>a, CheckMicPermissionDoes DEF CheckMicPermission, Typed, Shows
<1>2. Apart /\ Busy(c)
  BY <1>1, CleanApart DEF CheckMicPermission, Busy, Is
<1>3. Left(c) /\ During(c) /\ PageDuring(c)
  BY <1>1, <1>2, CheckMicPermissionDoes, BusyLeft DEF Moves, Typed, PageInv
<1>4. (click'[c].at = "idle" => PageAtRest') /\ (click'[c].at # "idle" => PageDuring(c)')
  BY <1>1, <1>3, CheckMicPermissionDoes, ClickFields
     DEF CheckMicPermission, Ops, Is, Accepts, Moves, Shows, During, PageAtRest, PageDuring,
         LiveStatuses
<1> QED BY <1>3, <1>4

LEMMA CreatedPage == ASSUME Typed, StageInv, PageInv, NEW c \in Clicks, Created(c) PROVE PageInv'
<1> SUFFICES ASSUME Clean', page'.mounted
             PROVE  /\ Left(c)
                    /\ click'[c].at = "idle" => PageAtRest'
                    /\ click'[c].at # "idle" => PageDuring(c)'
  BY PageStep
<1>a. Apart' /\ (Clean' => Clean)
  BY DEF Created, Begin, Clean, Apart, NoMishap
<1>1. ConsoleTypeOK /\ page.mounted /\ Clean
  BY <1>a, CreatedDoes DEF Created, Typed, Shows
<1>2. Apart /\ Busy(c)
  BY <1>1, CleanApart DEF Created, Busy, Is
<1>3. Left(c) /\ During(c) /\ PageDuring(c)
  BY <1>1, <1>2, CreatedDoes, BusyLeft DEF Moves, Typed, PageInv
<1>4. (click'[c].at = "idle" => PageAtRest') /\ (click'[c].at # "idle" => PageDuring(c)')
  <2>1. click'[c].op = "start" /\ click'[c].at = "microphone" /\ click'[c].stream = click[c].stream /\ UNCHANGED server
    BY <1>1, CreatedDoes DEF Created, Moves
  <2>2. server[click[c].stream] = "PREPARING"
    BY <1>3 DEF Created, Is, PageDuring
  <2> QED BY <2>1, <2>2 DEF PageDuring
<1> QED BY <1>3, <1>4

LEMMA OpenMicrophonePage == ASSUME Typed, StageInv, PageInv, NEW c \in Clicks, OpenMicrophone(c) PROVE PageInv'
<1> SUFFICES ASSUME Clean', page'.mounted
             PROVE  /\ Left(c)
                    /\ click'[c].at = "idle" => PageAtRest'
                    /\ click'[c].at # "idle" => PageDuring(c)'
  BY PageStep
<1>a. Apart' /\ (Clean' => Clean)
  BY DEF OpenMicrophone, Begin, Clean, Apart, NoMishap
<1>1. ConsoleTypeOK /\ page.mounted /\ Clean
  BY <1>a, OpenMicrophoneDoes DEF OpenMicrophone, Typed, Shows
<1>2. Apart /\ Busy(c)
  BY <1>1, CleanApart DEF OpenMicrophone, Busy, Is
<1>3. Left(c) /\ During(c) /\ PageDuring(c)
  BY <1>1, <1>2, OpenMicrophoneDoes, BusyLeft DEF Moves, Typed, PageInv
<1>4. (click'[c].at = "idle" => PageAtRest') /\ (click'[c].at # "idle" => PageDuring(c)')
  BY <1>1, <1>3, OpenMicrophoneDoes, ClickFields
     DEF OpenMicrophone, Ops, Is, Accepts, Moves, Shows, During, PageAtRest, PageDuring,
         LiveStatuses
<1> QED BY <1>3, <1>4

LEMMA MicrophoneFailsPage == ASSUME Typed, StageInv, PageInv, NEW c \in Clicks, MicrophoneFails(c) PROVE PageInv'
BY DEF MicrophoneFails, PageInv, Clean, NoMishap

LEMMA StartedPage == ASSUME Typed, StageInv, PageInv, NEW c \in Clicks, Started(c) PROVE PageInv'
<1> SUFFICES ASSUME Clean', page'.mounted
             PROVE  /\ Left(c)
                    /\ click'[c].at = "idle" => PageAtRest'
                    /\ click'[c].at # "idle" => PageDuring(c)'
  BY PageStep
<1>a. Apart' /\ (Clean' => Clean)
  BY DEF Started, Begin, Clean, Apart, NoMishap
<1>1. ConsoleTypeOK /\ page.mounted /\ Clean
  BY <1>a, StartedDoes DEF Started, Typed, Shows
<1>2. Apart /\ Busy(c)
  BY <1>1, CleanApart DEF Started, Busy, Is
<1>3. Left(c) /\ During(c) /\ PageDuring(c)
  BY <1>1, <1>2, StartedDoes, BusyLeft DEF Moves, Typed, PageInv
<1>4. (click'[c].at = "idle" => PageAtRest') /\ (click'[c].at # "idle" => PageDuring(c)')
  BY <1>1, <1>3, StartedDoes, ClickFields
     DEF Started, Ops, Is, Accepts, Moves, Shows, During, PageAtRest, PageDuring, LiveStatuses
<1> QED BY <1>3, <1>4

LEMMA StartFailedPage == ASSUME Typed, StageInv, PageInv, NEW c \in Clicks, StartFailed(c) PROVE PageInv'
<1> SUFFICES ASSUME Clean', page'.mounted
             PROVE  /\ Left(c)
                    /\ click'[c].at = "idle" => PageAtRest'
                    /\ click'[c].at # "idle" => PageDuring(c)'
  BY PageStep
<1>a. Apart' /\ (Clean' => Clean)
  BY DEF StartFailed, Begin, Clean, Apart, NoMishap
<1>1. ConsoleTypeOK /\ page.mounted /\ Clean
  BY <1>a, StartFailedDoes DEF StartFailed, Typed, Shows
<1>2. Apart /\ Busy(c)
  BY <1>1, CleanApart DEF StartFailed, Busy, Is
<1>3. Left(c) /\ During(c) /\ PageDuring(c)
  BY <1>1, <1>2, StartFailedDoes, BusyLeft DEF Moves, Typed, PageInv
<1>4. (click'[c].at = "idle" => PageAtRest') /\ (click'[c].at # "idle" => PageDuring(c)')
  BY <1>1, <1>3, StartFailedDoes, ClickFields
     DEF StartFailed, Ops, Is, Accepts, Moves, Shows, During, PageAtRest, PageDuring, LiveStatuses
<1> QED BY <1>3, <1>4

LEMMA PauseBroadcastPage == ASSUME Typed, StageInv, PageInv, NEW c \in Clicks, PauseBroadcast(c) PROVE PageInv'
<1> SUFFICES ASSUME Clean', page'.mounted
             PROVE  /\ Left(c)
                    /\ click'[c].at = "idle" => PageAtRest'
                    /\ click'[c].at # "idle" => PageDuring(c)'
  BY PageStep
<1>a. Apart' /\ (Clean' => Clean)
  BY DEF PauseBroadcast, Begin, Clean, Apart, NoMishap
<1>1. ConsoleTypeOK /\ page.mounted /\ Clean
  BY <1>a, PauseBroadcastDoes DEF PauseBroadcast, Typed, Shows
<1>2. Resting /\ AtRest /\ PageAtRest
  BY <1>a, <1>1, ChangeAtRest DEF PauseBroadcast, PageInv
<1>3. Left(c)
  BY <1>1, <1>2, PauseBroadcastDoes, RestingLeft DEF Moves
<1>4. PageDuring(c)'
  <2>1. click'[c].op = "pause" /\ click'[c].at = "sent" /\ click'[c].stream = page.stream /\ UNCHANGED <<page, server>>
    BY <1>1, PauseBroadcastDoes DEF PauseBroadcast, Moves
  <2>2. server[page.stream] \in LiveStatuses
    BY <1>2 DEF PauseBroadcast, PageAtRest
  <2> QED BY <2>1, <2>2 DEF PageDuring, LiveStatuses
<1> QED BY <1>1, <1>3, <1>4, PauseBroadcastDoes DEF Moves

LEMMA PausedPage == ASSUME Typed, StageInv, PageInv, NEW c \in Clicks, Paused(c) PROVE PageInv'
<1> SUFFICES ASSUME Clean', page'.mounted
             PROVE  /\ Left(c)
                    /\ click'[c].at = "idle" => PageAtRest'
                    /\ click'[c].at # "idle" => PageDuring(c)'
  BY PageStep
<1>a. Apart' /\ (Clean' => Clean)
  BY DEF Paused, Begin, Clean, Apart, NoMishap
<1>1. ConsoleTypeOK /\ page.mounted /\ Clean
  BY <1>a, PausedDoes DEF Paused, Typed, Shows
<1>2. Apart /\ Busy(c)
  BY <1>1, CleanApart DEF Paused, Busy, Is
<1>3. Left(c) /\ During(c) /\ PageDuring(c)
  BY <1>1, <1>2, PausedDoes, BusyLeft DEF Moves, Typed, PageInv
<1>4. (click'[c].at = "idle" => PageAtRest') /\ (click'[c].at # "idle" => PageDuring(c)')
  <2>1. page.status = "live" /\ Captured /\ server[page.stream] \in {"PAUSED", "ENDED"}
    BY <1>3 DEF Paused, Is, During, PageDuring
  <2>2. click'[c].at = "idle" /\ UNCHANGED server
    BY <1>1, PausedDoes DEF Paused, Moves
  <2>3. CASE capture # None /\ recorder[capture].state = "inactive" /\ UNCHANGED <<page, recorder, timers, timer>>
    <3>1. page.ptt
      BY <1>1, <2>1, <2>3 DEF Captured
    <3> QED BY <2>1, <2>2, <2>3, <3>1, PageFields DEF PageAtRest, LiveStatuses
  <2>4. CASE Shows(page.mounted, "paused", page.stream, page.ptt)
    BY <2>1, <2>2, <2>4 DEF Shows, PageAtRest, LiveStatuses
  <2> QED BY <1>1, <2>3, <2>4, PausedDoes
<1> QED BY <1>3, <1>4

LEMMA ResumeBroadcastPage == ASSUME Typed, StageInv, PageInv, NEW c \in Clicks, ResumeBroadcast(c) PROVE PageInv'
<1> SUFFICES ASSUME Clean', page'.mounted
             PROVE  /\ Left(c)
                    /\ click'[c].at = "idle" => PageAtRest'
                    /\ click'[c].at # "idle" => PageDuring(c)'
  BY PageStep
<1>a. Apart' /\ (Clean' => Clean)
  BY DEF ResumeBroadcast, Begin, Clean, Apart, NoMishap
<1>1. ConsoleTypeOK /\ page.mounted /\ Clean
  BY <1>a, ResumeBroadcastDoes DEF ResumeBroadcast, Typed, Shows
<1>2. Resting /\ AtRest /\ PageAtRest
  BY <1>a, <1>1, ChangeAtRest DEF ResumeBroadcast, PageInv
<1>3. Left(c)
  BY <1>1, <1>2, ResumeBroadcastDoes, RestingLeft DEF Moves
<1>4. PageDuring(c)'
  <2>1. click'[c].op = "resume" /\ click'[c].at = "sent" /\ click'[c].stream = page.stream /\ UNCHANGED <<page, server>>
    BY <1>1, ResumeBroadcastDoes DEF ResumeBroadcast, Moves
  <2>2. server[page.stream] \in {"PAUSED", "ENDED"}
    BY <1>2 DEF ResumeBroadcast, PageAtRest
  <2> QED BY <2>1, <2>2 DEF PageDuring, LiveStatuses
<1> QED BY <1>1, <1>3, <1>4, ResumeBroadcastDoes DEF Moves

LEMMA ResumedPage == ASSUME Typed, StageInv, PageInv, NEW c \in Clicks, Resumed(c) PROVE PageInv'
<1> SUFFICES ASSUME Clean', page'.mounted
             PROVE  /\ Left(c)
                    /\ click'[c].at = "idle" => PageAtRest'
                    /\ click'[c].at # "idle" => PageDuring(c)'
  BY PageStep
<1>a. Apart' /\ (Clean' => Clean)
  BY DEF Resumed, Begin, Clean, Apart, NoMishap
<1>1. ConsoleTypeOK /\ page.mounted /\ Clean
  BY <1>a, ResumedDoes DEF Resumed, Typed, Shows
<1>2. Apart /\ Busy(c)
  BY <1>1, CleanApart DEF Resumed, Busy, Is
<1>3. Left(c) /\ During(c) /\ PageDuring(c)
  BY <1>1, <1>2, ResumedDoes, BusyLeft DEF Moves, Typed, PageInv
<1>4. (click'[c].at = "idle" => PageAtRest') /\ (click'[c].at # "idle" => PageDuring(c)')
  <2>1. page.status = "paused" /\ Captured /\ server[page.stream] \in {"LIVE", "ENDED"}
    BY <1>3 DEF Resumed, Is, During, PageDuring
  <2>2. click'[c].at = "idle" /\ UNCHANGED server
    BY <1>1, ResumedDoes DEF Resumed, Moves
  <2>3. CASE capture # None /\ recorder[capture].state = "inactive" /\ UNCHANGED <<page, recorder, timers, timer>>
    BY <2>1, <2>3 DEF Captured
  <2>4. CASE Shows(page.mounted, "live", page.stream, page.ptt)
    BY <2>1, <2>2, <2>4 DEF Shows, PageAtRest, LiveStatuses
  <2> QED BY <1>1, <2>3, <2>4, ResumedDoes
<1> QED BY <1>3, <1>4

LEMMA ChangeFailedPage == ASSUME Typed, StageInv, PageInv, NEW c \in Clicks, ChangeFailed(c) PROVE PageInv'
<1> SUFFICES ASSUME Clean', page'.mounted
             PROVE  /\ Left(c)
                    /\ click'[c].at = "idle" => PageAtRest'
                    /\ click'[c].at # "idle" => PageDuring(c)'
  BY PageStep
<1>a. Apart' /\ (Clean' => Clean)
  BY DEF ChangeFailed, Begin, Clean, Apart, NoMishap
<1>1. ConsoleTypeOK /\ page.mounted /\ Clean
  BY <1>a, ChangeFailedDoes DEF ChangeFailed, Typed, Shows
<1>2. Apart /\ Busy(c)
  BY <1>1, CleanApart DEF ChangeFailed, Busy, Is
<1>3. Left(c) /\ During(c) /\ PageDuring(c)
  BY <1>1, <1>2, ChangeFailedDoes, BusyLeft DEF Moves, Typed, PageInv
<1>4. (click'[c].at = "idle" => PageAtRest') /\ (click'[c].at # "idle" => PageDuring(c)')
  BY <1>1, <1>3, ChangeFailedDoes, ClickFields
     DEF ChangeFailed, Ops, Is, Accepts, Moves, Shows, During, PageAtRest, PageDuring, LiveStatuses
<1> QED BY <1>3, <1>4

LEMMA StopBroadcastPage == ASSUME Typed, StageInv, PageInv, NEW c \in Clicks, StopBroadcast(c) PROVE PageInv'
<1> SUFFICES ASSUME Clean', page'.mounted
             PROVE  /\ Left(c)
                    /\ click'[c].at = "idle" => PageAtRest'
                    /\ click'[c].at # "idle" => PageDuring(c)'
  BY PageStep
<1>a. Apart' /\ (Clean' => Clean)
  BY DEF StopBroadcast, Begin, Clean, Apart, NoMishap
<1>1. ConsoleTypeOK /\ page.mounted /\ Clean
  BY <1>a, StopBroadcastDoes DEF StopBroadcast, Typed, Shows
<1>2. Resting /\ AtRest /\ PageAtRest
  BY <1>a, <1>1, ChangeAtRest DEF StopBroadcast, PageInv
<1>3. Left(c)
  BY <1>1, <1>2, StopBroadcastDoes, RestingLeft DEF Moves
<1>4. PageDuring(c)'
  <2>1. click'[c].op = "end" /\ click'[c].at = "sent" /\ click'[c].stream = page.stream /\ UNCHANGED <<page, server>>
    BY <1>1, StopBroadcastDoes DEF StopBroadcast, Moves
  <2>2. server[page.stream] \in {"LIVE", "PAUSED", "ENDED"}
    BY <1>2 DEF StopBroadcast, PageAtRest, LiveStatuses
  <2> QED BY <2>1, <2>2 DEF PageDuring, LiveStatuses
<1> QED BY <1>1, <1>3, <1>4, StopBroadcastDoes DEF Moves

LEMMA StoppedPage == ASSUME Typed, StageInv, PageInv, NEW c \in Clicks, Stopped(c) PROVE PageInv'
<1> SUFFICES ASSUME Clean', page'.mounted
             PROVE  /\ Left(c)
                    /\ click'[c].at = "idle" => PageAtRest'
                    /\ click'[c].at # "idle" => PageDuring(c)'
  BY PageStep
<1>a. Apart' /\ (Clean' => Clean)
  BY DEF Stopped, Begin, Clean, Apart, NoMishap
<1>1. ConsoleTypeOK /\ page.mounted /\ Clean
  BY <1>a, StoppedDoes DEF Stopped, Typed, Shows
<1>2. Apart /\ Busy(c)
  BY <1>1, CleanApart DEF Stopped, Busy, Is
<1>3. Left(c) /\ During(c) /\ PageDuring(c)
  BY <1>1, <1>2, StoppedDoes, BusyLeft DEF Moves, Typed, PageInv
<1>4. (click'[c].at = "idle" => PageAtRest') /\ (click'[c].at # "idle" => PageDuring(c)')
  <2>1. click'[c].at = "idle" /\ page'.status = "ended" /\ page'.stream = page.stream /\ UNCHANGED server
    BY <1>1, StoppedDoes DEF Stopped, Moves, Shows
  <2>2. server[page.stream] = "ENDED"
    BY <1>3 DEF Stopped, Is, During, PageDuring
  <2> QED BY <2>1, <2>2 DEF PageAtRest
<1> QED BY <1>3, <1>4

LEMMA AutoEndPage == ASSUME Typed, StageInv, PageInv, NEW s \in Streams, AutoEnd(s) PROVE PageInv'
<1>1. ConsoleTypeOK /\ UNCHANGED click /\ (Clean' => Clean)
  BY DEF AutoEnd, Typed, Clean, NoMishap
<1>2. page'.mounted => page.mounted
  BY <1>1, PageFields DEF AutoEnd, Shows
<1>3. page'.mounted /\ PageAtRest => PageAtRest'
  BY <1>1, PageFields DEF AutoEnd, Shows, PageAtRest, LiveStatuses
<1>4. ASSUME NEW c \in Clicks, page'.mounted, Busy(c), During(c), PageDuring(c) PROVE PageDuring(c)'
  BY <1>1, <1>4, ClickFields DEF AutoEnd, Ops, Shows, During, PageDuring, LiveStatuses
<1> QED BY <1>1, <1>2, <1>3, <1>4, PageKept

LEMMA SetModePage == ASSUME Typed, StageInv, PageInv, NEW ptt \in BOOLEAN, SetMode(ptt) PROVE PageInv'
<1>1. ConsoleTypeOK /\ UNCHANGED click /\ (Clean' => Clean)
  BY DEF SetMode, Typed, Clean, NoMishap
<1>2. page'.mounted => page.mounted
  BY <1>1, SetModeDoes, PageFields DEF SetMode, Shows
<1>3. page'.mounted /\ PageAtRest => PageAtRest'
  BY <1>1, SetModeDoes, PageFields DEF SetMode, Shows, PageAtRest, LiveStatuses
<1>4. ASSUME NEW c \in Clicks, page'.mounted, Busy(c), During(c), PageDuring(c) PROVE PageDuring(c)'
  BY <1>1, <1>4, SetModeDoes, ClickFields DEF SetMode, Ops, Shows, During, PageDuring, LiveStatuses
<1> QED BY <1>1, <1>2, <1>3, <1>4, PageKept

LEMMA ResetBroadcastPage == ASSUME Typed, StageInv, PageInv, ResetBroadcast PROVE PageInv'
<1>1. ConsoleTypeOK /\ UNCHANGED click /\ (Clean' => Clean)
  BY DEF ResetBroadcast, Typed, Clean, NoMishap
<1>2. page'.mounted => page.mounted
  BY <1>1, ResetBroadcastDoes, PageFields DEF ResetBroadcast, Shows
<1>3. page'.mounted /\ PageAtRest => PageAtRest'
  BY <1>1, ResetBroadcastDoes, PageFields DEF ResetBroadcast, Shows, PageAtRest, LiveStatuses
<1>4. ASSUME NEW c \in Clicks, page'.mounted, Busy(c), During(c), PageDuring(c) PROVE PageDuring(c)'
  BY <1>1, <1>4, ResetBroadcastDoes, ClickFields
     DEF ResetBroadcast, Ops, Shows, During, PageDuring, LiveStatuses
<1> QED BY <1>1, <1>2, <1>3, <1>4, PageKept

LEMMA PressButtonPage == ASSUME Typed, StageInv, PageInv, PressButton PROVE PageInv'
<1>1. ConsoleTypeOK /\ UNCHANGED click /\ (Clean' => Clean)
  BY DEF PressButton, Typed, Clean, NoMishap
<1>2. page'.mounted => page.mounted
  BY <1>1, PressButtonDoes, PageFields DEF PressButton, Shows
<1>3. page'.mounted /\ PageAtRest => PageAtRest'
  BY <1>1, PressButtonDoes, PageFields DEF PressButton, Shows, PageAtRest, LiveStatuses
<1>4. ASSUME NEW c \in Clicks, page'.mounted, Busy(c), During(c), PageDuring(c) PROVE PageDuring(c)'
  BY <1>1, <1>4, PressButtonDoes, ClickFields
     DEF PressButton, Ops, Shows, During, PageDuring, LiveStatuses
<1> QED BY <1>1, <1>2, <1>3, <1>4, PageKept

LEMMA ReleaseButtonPage == ASSUME Typed, StageInv, PageInv, ReleaseButton PROVE PageInv'
<1>1. ConsoleTypeOK /\ UNCHANGED click /\ (Clean' => Clean)
  BY DEF ReleaseButton, Typed, Clean, NoMishap
<1>2. page'.mounted => page.mounted
  BY <1>1, ReleaseButtonDoes, PageFields DEF ReleaseButton, Shows
<1>3. page'.mounted /\ PageAtRest => PageAtRest'
  BY <1>1, ReleaseButtonDoes, PageFields DEF ReleaseButton, Shows, PageAtRest, LiveStatuses
<1>4. ASSUME NEW c \in Clicks, page'.mounted, Busy(c), During(c), PageDuring(c) PROVE PageDuring(c)'
  BY <1>1, <1>4, ReleaseButtonDoes, ClickFields
     DEF ReleaseButton, Ops, Shows, During, PageDuring, LiveStatuses
<1> QED BY <1>1, <1>2, <1>3, <1>4, PageKept

LEMMA UnmountPage == ASSUME Typed, StageInv, PageInv, Unmount PROVE PageInv'
<1>1. ConsoleTypeOK /\ UNCHANGED click /\ (Clean' => Clean)
  BY DEF Unmount, Typed, Clean, NoMishap
<1>2. page'.mounted => page.mounted
  BY <1>1, UnmountDoes, PageFields DEF Unmount, Shows
<1>3. page'.mounted /\ PageAtRest => PageAtRest'
  BY <1>1, UnmountDoes, PageFields DEF Unmount, Shows, PageAtRest, LiveStatuses
<1>4. ASSUME NEW c \in Clicks, page'.mounted, Busy(c), During(c), PageDuring(c) PROVE PageDuring(c)'
  BY <1>1, <1>4, UnmountDoes, ClickFields DEF Unmount, Ops, Shows, During, PageDuring, LiveStatuses
<1> QED BY <1>1, <1>2, <1>3, <1>4, PageKept

LEMMA NextPage == Typed /\ StageInv /\ PageInv /\ [Next]_vars => PageInv'
<1> SUFFICES ASSUME Typed, StageInv, PageInv, [Next]_vars PROVE PageInv'
  OBVIOUS
<1>1. CASE UNCHANGED vars
  BY <1>1 DEF vars, PageInv, Clean, NoMishap, Busy, Resting, PageAtRest, PageDuring, LiveStatuses
<1>2. ASSUME NEW c \in Clicks,
             \/ CheckRequest(c) \/ WriteRequest(c) \/ LoseRequest(c)
             \/ StartBroadcast(c) \/ CheckMicPermission(c) \/ Created(c)
             \/ OpenMicrophone(c) \/ MicrophoneFails(c) \/ Started(c) \/ StartFailed(c)
             \/ PauseBroadcast(c) \/ Paused(c) \/ ResumeBroadcast(c) \/ Resumed(c) \/ ChangeFailed(c)
             \/ StopBroadcast(c) \/ Stopped(c)
      PROVE  PageInv'
  BY <1>2, CheckRequestPage, WriteRequestPage, LoseRequestPage, StartBroadcastPage,
     CheckMicPermissionPage,
     CreatedPage, OpenMicrophonePage, MicrophoneFailsPage, StartedPage, StartFailedPage,
     PauseBroadcastPage, PausedPage, ResumeBroadcastPage, ResumedPage, ChangeFailedPage,
     StopBroadcastPage, StoppedPage
<1>3. ASSUME NEW s \in Streams, AutoEnd(s) PROVE PageInv'
  BY <1>3, AutoEndPage
<1>4. ASSUME NEW ptt \in BOOLEAN, SetMode(ptt) PROVE PageInv'
  BY <1>4, SetModePage
<1>5. CASE ResetBroadcast \/ PressButton \/ ReleaseButton \/ Unmount
  BY <1>5, ResetBroadcastPage, PressButtonPage, ReleaseButtonPage, UnmountPage
<1> QED BY <1>1, <1>2, <1>3, <1>4, <1>5 DEF Next

-----------------------------------------------------------------------------
(* QuietInv. *)

LEMMA UndisturbedApart == Undisturbed => Apart
BY DEF Undisturbed, Apart, NoMishap

LEMMA QuietStep ==
  ASSUME NEW c \in Clicks,
         Undisturbed' => /\ page'.mounted /\ Left(c)
                         /\ click'[c].at = "idle" => QuietAtRest'
                         /\ click'[c].at # "idle" => QuietDuring(c)'
  PROVE  QuietInv'
BY DEF QuietInv, Busy, Resting, Left

LEMMA QuietKept ==
  ASSUME StageInv, QuietInv, UNCHANGED click, Undisturbed' => Undisturbed, page'.mounted = page.mounted,
         page.mounted \/ UNCHANGED <<mics, sockets, recorder, timers>>,
         page.mounted /\ AtRest /\ QuietAtRest => QuietAtRest',
         \A c \in Clicks : page.mounted /\ Busy(c) /\ During(c) /\ QuietDuring(c) => QuietDuring(c)'
  PROVE  QuietInv'
<1> SUFFICES ASSUME Undisturbed' PROVE QuietInv'
  BY DEF QuietInv
<1>1. CASE page.mounted
  BY <1>1, UndisturbedApart DEF QuietInv, StageInv, Busy, Resting
<1>2. CASE ~page.mounted
  BY <1>2 DEF QuietInv, Resting, Silent, Unrecorded
<1> QED BY <1>1, <1>2

LEMMA DevicesRest ==
  ASSUME UNCHANGED deviceVars
  PROVE  (Silent => Silent') /\ (Held => Held') /\ (Unrecorded => Unrecorded')
BY DEF deviceVars, Silent, Unrecorded, Held

LEMMA QuietInitially == Init => QuietInv
<1> SUFFICES ASSUME Init PROVE QuietInv
  OBVIOUS
<1>1. \A c \in Clicks : click[c].at = "idle"
  BY DEF Init, NoClick
<1>2. page.mounted /\ page.status = "idle" /\ mics = {} /\ sockets = {}
  BY DEF Init
<1>3. Unrecorded
  BY DEF Init, Unrecorded, NewRecorder
<1> QED BY <1>1, <1>2, <1>3 DEF QuietInv, Busy, QuietAtRest, Silent, LeftOver

LEMMA CheckRequestQuiet == ASSUME Typed, StageInv, QuietInv, NEW c \in Clicks, CheckRequest(c) PROVE QuietInv'
<1> SUFFICES ASSUME Undisturbed'
             PROVE  /\ page'.mounted /\ Left(c)
                    /\ click'[c].at = "idle" => QuietAtRest'
                    /\ click'[c].at # "idle" => QuietDuring(c)'
  BY QuietStep
<1>a. Apart' /\ Undisturbed
  BY DEF CheckRequest, Begin, Undisturbed, Apart, NoMishap
<1>1. ConsoleTypeOK /\ Apart /\ Busy(c)
  BY <1>a, UndisturbedApart DEF CheckRequest, Busy, Is, Typed, StreamsKnown
<1>2. page.mounted
  BY <1>a, <1>1 DEF QuietInv, Resting, Busy
<1>3. Left(c) /\ During(c) /\ QuietDuring(c)
  BY <1>a, <1>1, <1>2, CheckRequestDoes, BusyLeft DEF Moves, Typed, QuietInv
<1>4. page'.mounted
  BY <1>1, <1>2, CheckRequestDoes DEF CheckRequest, Shows, Typed
<1>5. (click'[c].at = "idle" => QuietAtRest') /\ (click'[c].at # "idle" => QuietDuring(c)')
  <2>1. UNCHANGED <<page, server, deviceVars>> /\ UNCHANGED <<mics, sockets, socket>> /\ click[c].at = "sent"
    BY DEF CheckRequest, deviceVars
  <2>2. /\ click'[c].op = click[c].op /\ click'[c].stream = click[c].stream
        /\ \/ Accepts(click[c].op, click[c].stream) /\ click'[c].at = "checked"
           \/ ~Accepts(click[c].op, click[c].stream) /\ click'[c].at = "failed"
    BY <1>1, CheckRequestDoes DEF Moves
  <2>3. (Silent => Silent') /\ (Held => Held') /\ (Unrecorded => Unrecorded') /\ (LeftOver => LeftOver')
    BY <2>1, DevicesRest DEF LeftOver
  <2>4. CASE click[c].op = "create"
    <3>1. click'[c].at = "checked" => sockets' = {}
      BY <1>3, <2>1, <2>2, <2>4 DEF QuietDuring, LeftOver, Accepts, Active
    <3> QED BY <1>3, <2>2, <2>3, <2>4, <3>1 DEF QuietDuring
  <2>5. CASE click[c].op = "start"
    <3>1. server[click[c].stream] = "PREPARING"
      BY <1>3, <2>1, <2>5 DEF QuietDuring
    <3>2. click'[c].at = "checked"
      BY <2>2, <2>5, <3>1 DEF Accepts
    <3> QED BY <1>3, <2>1, <2>2, <2>3, <2>5, <3>1, <3>2 DEF QuietDuring
  <2>6. CASE click[c].op \in {"pause", "resume", "end"}
    BY <1>3, <2>1, <2>2, <2>3, <2>6 DEF QuietDuring
  <2> QED BY <1>1, <2>4, <2>5, <2>6, ClickFields DEF Ops
<1> QED BY <1>3, <1>4, <1>5

LEMMA WriteRequestQuiet == ASSUME Typed, StageInv, QuietInv, NEW c \in Clicks, WriteRequest(c) PROVE QuietInv'
<1> SUFFICES ASSUME Undisturbed'
             PROVE  /\ page'.mounted /\ Left(c)
                    /\ click'[c].at = "idle" => QuietAtRest'
                    /\ click'[c].at # "idle" => QuietDuring(c)'
  BY QuietStep
<1>a. Apart' /\ Undisturbed
  BY DEF WriteRequest, Begin, Undisturbed, Apart, NoMishap
<1>1. ConsoleTypeOK /\ Apart /\ Busy(c)
  BY <1>a, UndisturbedApart DEF WriteRequest, Busy, Is, Typed, StreamsKnown
<1>2. page.mounted
  BY <1>a, <1>1 DEF QuietInv, Resting, Busy
<1>3. Left(c) /\ During(c) /\ QuietDuring(c)
  BY <1>a, <1>1, <1>2, WriteRequestDoes, BusyLeft DEF Moves, Typed, QuietInv
<1>4. page'.mounted
  BY <1>1, <1>2, WriteRequestDoes DEF WriteRequest, Shows, Typed
<1>5. (click'[c].at = "idle" => QuietAtRest') /\ (click'[c].at # "idle" => QuietDuring(c)')
  <2>1. PICK s \in Streams :
          /\ click[c].op = "create" \/ s = click[c].stream
          /\ server' = [server EXCEPT ![s] = StatusAfter(click[c].op)]
          /\ Moves(c, click[c].op, "answered", s)
    BY <1>1, WriteRequestDoes
  <2>2. server'[s] = StatusAfter(click[c].op) /\ click[c].at = "checked"
    BY <1>1, <2>1 DEF ConsoleTypeOK, WriteRequest
  <2>3. /\ click'[c].op = click[c].op /\ click'[c].at = "answered" /\ click'[c].stream = s
        /\ UNCHANGED deviceVars /\ UNCHANGED <<mics, sockets, socket>>
    BY <2>1 DEF Moves, WriteRequest, deviceVars
  <2>4. (Silent => Silent') /\ (Held => Held') /\ (Unrecorded => Unrecorded')
    BY <2>3, DevicesRest
  <2>5. CASE click[c].op = "create"
    <3>1. server'[s] = "PREPARING" /\ sockets' = {} /\ Silent'
      BY <1>3, <2>2, <2>3, <2>4, <2>5 DEF StatusAfter, QuietDuring
    <3>2. LeftOver'
      BY <3>1 DEF LeftOver
    <3> QED BY <2>3, <2>5, <3>1, <3>2 DEF QuietDuring
  <2>6. CASE click[c].op \in {"start", "pause", "resume", "end"}
    BY <1>3, <2>3, <2>4, <2>6 DEF QuietDuring
  <2> QED BY <1>1, <2>5, <2>6, ClickFields DEF Ops
<1> QED BY <1>3, <1>4, <1>5

LEMMA LoseRequestQuiet == ASSUME Typed, StageInv, QuietInv, NEW c \in Clicks, LoseRequest(c) PROVE QuietInv'
BY DEF LoseRequest, QuietInv, Undisturbed, NoMishap

LEMMA StartBroadcastQuiet == ASSUME Typed, StageInv, QuietInv, NEW c \in Clicks, StartBroadcast(c) PROVE QuietInv'
<1> SUFFICES ASSUME Undisturbed'
             PROVE  /\ page'.mounted /\ Left(c)
                    /\ click'[c].at = "idle" => QuietAtRest'
                    /\ click'[c].at # "idle" => QuietDuring(c)'
  BY QuietStep
<1>a. Apart' /\ Undisturbed
  BY DEF StartBroadcast, Begin, Undisturbed, Apart, NoMishap
<1>1. ConsoleTypeOK /\ page.mounted /\ page' = page
  BY DEF StartBroadcast, Begin, Typed
<1>2. Resting /\ AtRest /\ QuietAtRest
  BY <1>a, <1>1, StartAtRest DEF StartBroadcast, QuietInv
<1>3. Left(c)
  BY <1>1, <1>2, StartBroadcastDoes, RestingLeft DEF Moves
<1>4. QuietDuring(c)'
  <2>1. /\ click'[c].op = "create" /\ click'[c].at = "permission" /\ page.status = "idle"
        /\ UNCHANGED <<server, sockets, socket>> /\ UNCHANGED deviceVars
    BY <1>1, StartBroadcastDoes DEF StartBroadcast, Moves, deviceVars
  <2>2. Silent' /\ LeftOver'
    BY <1>2, <2>1, DevicesRest DEF QuietAtRest, LeftOver
  <2> QED BY <2>1, <2>2 DEF QuietDuring
<1> QED BY <1>1, <1>3, <1>4, StartBroadcastDoes DEF Moves

LEMMA CheckMicPermissionQuiet == ASSUME Typed, StageInv, QuietInv, NEW c \in Clicks, CheckMicPermission(c) PROVE QuietInv'
<1> SUFFICES ASSUME Undisturbed'
             PROVE  /\ page'.mounted /\ Left(c)
                    /\ click'[c].at = "idle" => QuietAtRest'
                    /\ click'[c].at # "idle" => QuietDuring(c)'
  BY QuietStep
<1>a. Apart' /\ Undisturbed
  BY DEF CheckMicPermission, Begin, Undisturbed, Apart, NoMishap
<1>1. ConsoleTypeOK /\ Apart /\ Busy(c)
  BY <1>a, UndisturbedApart DEF CheckMicPermission, Busy, Is, Typed, StreamsKnown
<1>2. page.mounted
  BY <1>a, <1>1 DEF QuietInv, Resting, Busy
<1>3. Left(c) /\ During(c) /\ QuietDuring(c)
  BY <1>a, <1>1, <1>2, CheckMicPermissionDoes, BusyLeft DEF Moves, Typed, QuietInv
<1>4. page'.mounted
  BY <1>1, <1>2, CheckMicPermissionDoes DEF CheckMicPermission, Shows, Typed
<1>5. (click'[c].at = "idle" => QuietAtRest') /\ (click'[c].at # "idle" => QuietDuring(c)')
  BY <1>1, <1>3, CheckMicPermissionDoes, ClickFields
     DEF CheckMicPermission, deviceVars, Ops, Is, Moves, Shows, Sets, During, QuietAtRest,
         QuietDuring, Silent, Unrecorded, Held, LeftOver
<1> QED BY <1>3, <1>4, <1>5

LEMMA CreatedQuiet == ASSUME Typed, StageInv, QuietInv, NEW c \in Clicks, Created(c) PROVE QuietInv'
<1> SUFFICES ASSUME Undisturbed'
             PROVE  /\ page'.mounted /\ Left(c)
                    /\ click'[c].at = "idle" => QuietAtRest'
                    /\ click'[c].at # "idle" => QuietDuring(c)'
  BY QuietStep
<1>a. Apart' /\ Undisturbed
  BY DEF Created, Begin, Undisturbed, Apart, NoMishap
<1>1. ConsoleTypeOK /\ Apart /\ Busy(c)
  BY <1>a, UndisturbedApart DEF Created, Busy, Is, Typed, StreamsKnown
<1>2. page.mounted
  BY <1>a, <1>1 DEF QuietInv, Resting, Busy
<1>3. Left(c) /\ During(c) /\ QuietDuring(c)
  BY <1>a, <1>1, <1>2, CreatedDoes, BusyLeft DEF Moves, Typed, QuietInv
<1>4. page'.mounted
  BY <1>1, <1>2, CreatedDoes DEF Created, Shows, Typed
<1>5. (click'[c].at = "idle" => QuietAtRest') /\ (click'[c].at # "idle" => QuietDuring(c)')
  BY <1>1, <1>3, CreatedDoes, ClickFields
     DEF Created, deviceVars, Ops, Is, Moves, Shows, Sets, During, QuietAtRest, QuietDuring,
         Silent, Unrecorded, Held, LeftOver
<1> QED BY <1>3, <1>4, <1>5

LEMMA OpenMicrophoneQuiet == ASSUME Typed, StageInv, QuietInv, NEW c \in Clicks, OpenMicrophone(c) PROVE QuietInv'
<1> SUFFICES ASSUME Undisturbed'
             PROVE  /\ page'.mounted /\ Left(c)
                    /\ click'[c].at = "idle" => QuietAtRest'
                    /\ click'[c].at # "idle" => QuietDuring(c)'
  BY QuietStep
<1>a. Apart' /\ Undisturbed
  BY DEF OpenMicrophone, Begin, Undisturbed, Apart, NoMishap
<1>1. ConsoleTypeOK /\ Apart /\ Busy(c)
  BY <1>a, UndisturbedApart DEF OpenMicrophone, Busy, Is, Typed, StreamsKnown
<1>2. page.mounted
  BY <1>a, <1>1 DEF QuietInv, Resting, Busy
<1>3. Left(c) /\ During(c) /\ QuietDuring(c)
  BY <1>a, <1>1, <1>2, OpenMicrophoneDoes, BusyLeft DEF Moves, Typed, QuietInv
<1>4. page'.mounted
  BY <1>1, <1>2, OpenMicrophoneDoes DEF OpenMicrophone, Shows, Typed
<1>5. (click'[c].at = "idle" => QuietAtRest') /\ (click'[c].at # "idle" => QuietDuring(c)')
  <2> DEFINE s == click[c].stream
  <2>1. /\ s \in Streams /\ click'[c].op = "start" /\ click'[c].at = "sent" /\ click'[c].stream = s
        /\ recorder'[s] = NewRecorder /\ \A x \in Streams \ {s} : recorder'[x] = recorder[x]
    BY OpenMicrophoneDoes DEF Moves
  <2>2. mics' = mics \cup {s} /\ capture' = s /\ UNCHANGED <<server, sockets, socket>>
    BY DEF OpenMicrophone
  <2>3. mics = {} /\ Held /\ Unrecorded /\ server[s] = "PREPARING"
    BY <1>3 DEF OpenMicrophone, Is, QuietDuring
  <2>4. recorder'[s].state = "inactive"
    BY <2>1 DEF NewRecorder
  <2>5. Unrecorded'
    BY <2>1, <2>3, <2>4 DEF Unrecorded
  <2>6. Held'
    BY <2>2, <2>3, <2>5 DEF Held, Unrecorded
  <2> QED BY <2>1, <2>2, <2>3, <2>5, <2>6 DEF QuietDuring
<1> QED BY <1>3, <1>4, <1>5

LEMMA MicrophoneFailsQuiet == ASSUME Typed, StageInv, QuietInv, NEW c \in Clicks, MicrophoneFails(c) PROVE QuietInv'
<1> SUFFICES ASSUME Undisturbed'
             PROVE  /\ page'.mounted /\ Left(c)
                    /\ click'[c].at = "idle" => QuietAtRest'
                    /\ click'[c].at # "idle" => QuietDuring(c)'
  BY QuietStep
<1>a. Apart' /\ Undisturbed
  BY DEF MicrophoneFails, Begin, Undisturbed, Apart, NoMishap
<1>1. ConsoleTypeOK /\ Apart /\ Busy(c)
  BY <1>a, UndisturbedApart DEF MicrophoneFails, Busy, Is, Typed, StreamsKnown
<1>2. page.mounted
  BY <1>a, <1>1 DEF QuietInv, Resting, Busy
<1>3. Left(c) /\ During(c) /\ QuietDuring(c)
  BY <1>a, <1>1, <1>2, MicrophoneFailsDoes, BusyLeft DEF Moves, Typed, QuietInv
<1>4. page'.mounted
  BY <1>1, <1>2, MicrophoneFailsDoes DEF MicrophoneFails, Shows, Typed
<1>5. (click'[c].at = "idle" => QuietAtRest') /\ (click'[c].at # "idle" => QuietDuring(c)')
  BY <1>1, <1>3, MicrophoneFailsDoes, ClickFields
     DEF MicrophoneFails, deviceVars, Ops, Is, Moves, Shows, Sets, During, QuietAtRest,
         QuietDuring, Silent, Unrecorded, Held, LeftOver
<1> QED BY <1>3, <1>4, <1>5

LEMMA StartedQuiet == ASSUME Typed, StageInv, QuietInv, NEW c \in Clicks, Started(c) PROVE QuietInv'
<1> SUFFICES ASSUME Undisturbed'
             PROVE  /\ page'.mounted /\ Left(c)
                    /\ click'[c].at = "idle" => QuietAtRest'
                    /\ click'[c].at # "idle" => QuietDuring(c)'
  BY QuietStep
<1>a. Apart' /\ Undisturbed
  BY DEF Started, Begin, Undisturbed, Apart, NoMishap
<1>1. ConsoleTypeOK /\ Apart /\ Busy(c)
  BY <1>a, UndisturbedApart DEF Started, Busy, Is, Typed, StreamsKnown
<1>2. page.mounted
  BY <1>a, <1>1 DEF QuietInv, Resting, Busy
<1>3. Left(c) /\ During(c) /\ QuietDuring(c)
  BY <1>a, <1>1, <1>2, StartedDoes, BusyLeft DEF Moves, Typed, QuietInv
<1>4. page'.mounted
  BY <1>1, <1>2, StartedDoes DEF Started, Shows, Typed
<1>5. (click'[c].at = "idle" => QuietAtRest') /\ (click'[c].at # "idle" => QuietDuring(c)')
  BY <1>1, <1>3, StartedDoes, ClickFields
     DEF Started, deviceVars, Ops, Is, Moves, Shows, Sets, During, QuietAtRest, QuietDuring,
         Silent, Unrecorded, Held, LeftOver
<1> QED BY <1>3, <1>4, <1>5

LEMMA StartFailedQuiet == ASSUME Typed, StageInv, QuietInv, NEW c \in Clicks, StartFailed(c) PROVE QuietInv'
<1> SUFFICES ASSUME Undisturbed'
             PROVE  /\ page'.mounted /\ Left(c)
                    /\ click'[c].at = "idle" => QuietAtRest'
                    /\ click'[c].at # "idle" => QuietDuring(c)'
  BY QuietStep
<1>a. Apart' /\ Undisturbed
  BY DEF StartFailed, Begin, Undisturbed, Apart, NoMishap
<1>1. ConsoleTypeOK /\ Apart /\ Busy(c)
  BY <1>a, UndisturbedApart DEF StartFailed, Busy, Is, Typed, StreamsKnown
<1>2. page.mounted
  BY <1>a, <1>1 DEF QuietInv, Resting, Busy
<1>3. Left(c) /\ During(c) /\ QuietDuring(c)
  BY <1>a, <1>1, <1>2, StartFailedDoes, BusyLeft DEF Moves, Typed, QuietInv
<1>4. page'.mounted
  BY <1>1, <1>2, StartFailedDoes DEF StartFailed, Shows, Typed
<1>5. (click'[c].at = "idle" => QuietAtRest') /\ (click'[c].at # "idle" => QuietDuring(c)')
  <2>1. /\ click'[c].at = "idle" /\ page'.status = "idle"
        /\ UNCHANGED <<server, sockets, socket>> /\ UNCHANGED deviceVars /\ click[c].at = "failed"
    BY <1>1, StartFailedDoes DEF StartFailed, Is, deviceVars, Moves, Shows
  <2>2. Silent /\ LeftOver
    <3>1. CASE click[c].op = "create"
      BY <1>3, <3>1 DEF QuietDuring
    <3>2. CASE click[c].op = "start"
      <4>1. click[c].stream \in Streams
        BY <2>1, <3>2 DEF Typed, StreamsKnown, Busy
      <4>2. mics = {} /\ Unrecorded /\ Held /\ server[click[c].stream] = "PREPARING"
        BY <1>3, <2>1, <3>2 DEF QuietDuring
      <4>3. LeftOver
        BY <4>1, <4>2 DEF Held, LeftOver
      <4> QED BY <4>2, <4>3 DEF Silent
    <3> QED BY <3>1, <3>2 DEF StartFailed, Is
  <2>3. Silent' /\ LeftOver'
    BY <2>1, <2>2, DevicesRest DEF LeftOver
  <2> QED BY <2>1, <2>3 DEF QuietAtRest
<1> QED BY <1>3, <1>4, <1>5

LEMMA PauseBroadcastQuiet == ASSUME Typed, StageInv, QuietInv, NEW c \in Clicks, PauseBroadcast(c) PROVE QuietInv'
<1> SUFFICES ASSUME Undisturbed'
             PROVE  /\ page'.mounted /\ Left(c)
                    /\ click'[c].at = "idle" => QuietAtRest'
                    /\ click'[c].at # "idle" => QuietDuring(c)'
  BY QuietStep
<1>a. Apart' /\ Undisturbed
  BY DEF PauseBroadcast, Begin, Undisturbed, Apart, NoMishap
<1>1. ConsoleTypeOK /\ page.mounted /\ page' = page
  BY DEF PauseBroadcast, Begin, Typed
<1>2. Resting /\ AtRest /\ QuietAtRest
  BY <1>a, <1>1, ChangeAtRest DEF PauseBroadcast, QuietInv
<1>3. Left(c)
  BY <1>1, <1>2, PauseBroadcastDoes, RestingLeft DEF Moves
<1>4. QuietDuring(c)'
  <2>1. click'[c].op = "pause" /\ page.status = "live" /\ UNCHANGED deviceVars
    BY <1>1, PauseBroadcastDoes DEF PauseBroadcast, Moves
  <2>2. Held'
    BY <1>2, <2>1, DevicesRest DEF QuietAtRest
  <2> QED BY <2>1, <2>2 DEF QuietDuring
<1> QED BY <1>1, <1>3, <1>4, PauseBroadcastDoes DEF Moves

LEMMA PausedQuiet == ASSUME Typed, StageInv, QuietInv, NEW c \in Clicks, Paused(c) PROVE QuietInv'
<1> SUFFICES ASSUME Undisturbed'
             PROVE  /\ page'.mounted /\ Left(c)
                    /\ click'[c].at = "idle" => QuietAtRest'
                    /\ click'[c].at # "idle" => QuietDuring(c)'
  BY QuietStep
<1>a. Apart' /\ Undisturbed
  BY DEF Paused, Begin, Undisturbed, Apart, NoMishap
<1>1. ConsoleTypeOK /\ Apart /\ Busy(c)
  BY <1>a, UndisturbedApart DEF Paused, Busy, Is, Typed, StreamsKnown
<1>2. page.mounted
  BY <1>a, <1>1 DEF QuietInv, Resting, Busy
<1>3. Left(c) /\ During(c) /\ QuietDuring(c)
  BY <1>a, <1>1, <1>2, PausedDoes, BusyLeft DEF Moves, Typed, QuietInv
<1>4. page'.mounted
  BY <1>1, <1>2, PausedDoes DEF Paused, Shows, Typed
<1>5. (click'[c].at = "idle" => QuietAtRest') /\ (click'[c].at # "idle" => QuietDuring(c)')
  BY <1>1, <1>3, PausedDoes, ClickFields
     DEF Paused, deviceVars, Ops, Is, Moves, Shows, Sets, During, QuietAtRest, QuietDuring, Silent,
         Unrecorded, Held, LeftOver
<1> QED BY <1>3, <1>4, <1>5

LEMMA ResumeBroadcastQuiet == ASSUME Typed, StageInv, QuietInv, NEW c \in Clicks, ResumeBroadcast(c) PROVE QuietInv'
<1> SUFFICES ASSUME Undisturbed'
             PROVE  /\ page'.mounted /\ Left(c)
                    /\ click'[c].at = "idle" => QuietAtRest'
                    /\ click'[c].at # "idle" => QuietDuring(c)'
  BY QuietStep
<1>a. Apart' /\ Undisturbed
  BY DEF ResumeBroadcast, Begin, Undisturbed, Apart, NoMishap
<1>1. ConsoleTypeOK /\ page.mounted /\ page' = page
  BY DEF ResumeBroadcast, Begin, Typed
<1>2. Resting /\ AtRest /\ QuietAtRest
  BY <1>a, <1>1, ChangeAtRest DEF ResumeBroadcast, QuietInv
<1>3. Left(c)
  BY <1>1, <1>2, ResumeBroadcastDoes, RestingLeft DEF Moves
<1>4. QuietDuring(c)'
  <2>1. click'[c].op = "resume" /\ page.status = "paused" /\ UNCHANGED deviceVars
    BY <1>1, ResumeBroadcastDoes DEF ResumeBroadcast, Moves
  <2>2. Held'
    BY <1>2, <2>1, DevicesRest DEF QuietAtRest
  <2> QED BY <2>1, <2>2 DEF QuietDuring
<1> QED BY <1>1, <1>3, <1>4, ResumeBroadcastDoes DEF Moves

LEMMA ResumedQuiet == ASSUME Typed, StageInv, QuietInv, NEW c \in Clicks, Resumed(c) PROVE QuietInv'
<1> SUFFICES ASSUME Undisturbed'
             PROVE  /\ page'.mounted /\ Left(c)
                    /\ click'[c].at = "idle" => QuietAtRest'
                    /\ click'[c].at # "idle" => QuietDuring(c)'
  BY QuietStep
<1>a. Apart' /\ Undisturbed
  BY DEF Resumed, Begin, Undisturbed, Apart, NoMishap
<1>1. ConsoleTypeOK /\ Apart /\ Busy(c)
  BY <1>a, UndisturbedApart DEF Resumed, Busy, Is, Typed, StreamsKnown
<1>2. page.mounted
  BY <1>a, <1>1 DEF QuietInv, Resting, Busy
<1>3. Left(c) /\ During(c) /\ QuietDuring(c)
  BY <1>a, <1>1, <1>2, ResumedDoes, BusyLeft DEF Moves, Typed, QuietInv
<1>4. page'.mounted
  BY <1>1, <1>2, ResumedDoes DEF Resumed, Shows, Typed
<1>5. (click'[c].at = "idle" => QuietAtRest') /\ (click'[c].at # "idle" => QuietDuring(c)')
  BY <1>1, <1>3, ResumedDoes, ClickFields
     DEF Resumed, deviceVars, Ops, Is, Moves, Shows, Sets, During, QuietAtRest, QuietDuring,
         Silent, Unrecorded, Held, LeftOver
<1> QED BY <1>3, <1>4, <1>5

LEMMA ChangeFailedQuiet == ASSUME Typed, StageInv, QuietInv, NEW c \in Clicks, ChangeFailed(c) PROVE QuietInv'
<1> SUFFICES ASSUME Undisturbed'
             PROVE  /\ page'.mounted /\ Left(c)
                    /\ click'[c].at = "idle" => QuietAtRest'
                    /\ click'[c].at # "idle" => QuietDuring(c)'
  BY QuietStep
<1>a. Apart' /\ Undisturbed
  BY DEF ChangeFailed, Begin, Undisturbed, Apart, NoMishap
<1>1. ConsoleTypeOK /\ Apart /\ Busy(c)
  BY <1>a, UndisturbedApart DEF ChangeFailed, Busy, Is, Typed, StreamsKnown
<1>2. page.mounted
  BY <1>a, <1>1 DEF QuietInv, Resting, Busy
<1>3. Left(c) /\ During(c) /\ QuietDuring(c)
  BY <1>a, <1>1, <1>2, ChangeFailedDoes, BusyLeft DEF Moves, Typed, QuietInv
<1>4. page'.mounted
  BY <1>1, <1>2, ChangeFailedDoes DEF ChangeFailed, Shows, Typed
<1>5. (click'[c].at = "idle" => QuietAtRest') /\ (click'[c].at # "idle" => QuietDuring(c)')
  BY <1>1, <1>3, ChangeFailedDoes, ClickFields
     DEF ChangeFailed, deviceVars, Ops, Is, Moves, Shows, Sets, During, QuietAtRest, QuietDuring,
         Silent, Unrecorded, Held, LeftOver
<1> QED BY <1>3, <1>4, <1>5

LEMMA StopBroadcastQuiet == ASSUME Typed, StageInv, QuietInv, NEW c \in Clicks, StopBroadcast(c) PROVE QuietInv'
<1> SUFFICES ASSUME Undisturbed'
             PROVE  /\ page'.mounted /\ Left(c)
                    /\ click'[c].at = "idle" => QuietAtRest'
                    /\ click'[c].at # "idle" => QuietDuring(c)'
  BY QuietStep
<1>a. Apart' /\ Undisturbed
  BY DEF StopBroadcast, Begin, Undisturbed, Apart, NoMishap
<1>1. ConsoleTypeOK /\ page.mounted /\ page' = page
  BY DEF StopBroadcast, Begin, Typed
<1>2. Resting /\ AtRest /\ QuietAtRest
  BY <1>a, <1>1, ChangeAtRest DEF StopBroadcast, QuietInv
<1>3. Left(c)
  BY <1>1, <1>2, StopBroadcastDoes, RestingLeft DEF Moves
<1>4. QuietDuring(c)'
  BY <1>1, <1>2, StopBroadcastDoes
     DEF StopBroadcast, Moves, Sets, QuietAtRest, QuietDuring, Silent, Unrecorded, Held, LeftOver
<1> QED BY <1>1, <1>3, <1>4, StopBroadcastDoes DEF Moves

LEMMA StoppedQuiet == ASSUME Typed, StageInv, QuietInv, NEW c \in Clicks, Stopped(c) PROVE QuietInv'
<1> SUFFICES ASSUME Undisturbed'
             PROVE  /\ page'.mounted /\ Left(c)
                    /\ click'[c].at = "idle" => QuietAtRest'
                    /\ click'[c].at # "idle" => QuietDuring(c)'
  BY QuietStep
<1>a. Apart' /\ Undisturbed
  BY DEF Stopped, Begin, Undisturbed, Apart, NoMishap
<1>1. ConsoleTypeOK /\ Apart /\ Busy(c)
  BY <1>a, UndisturbedApart DEF Stopped, Busy, Is, Typed, StreamsKnown
<1>2. page.mounted
  BY <1>a, <1>1 DEF QuietInv, Resting, Busy
<1>3. Left(c) /\ During(c) /\ QuietDuring(c)
  BY <1>a, <1>1, <1>2, StoppedDoes, BusyLeft DEF Moves, Typed, QuietInv
<1>4. page'.mounted
  BY <1>1, <1>2, StoppedDoes DEF Stopped, Shows, Typed
<1>5. (click'[c].at = "idle" => QuietAtRest') /\ (click'[c].at # "idle" => QuietDuring(c)')
  BY <1>1, <1>3, StoppedDoes, ClickFields
     DEF Stopped, deviceVars, Ops, Is, Moves, Shows, Sets, During, QuietAtRest, QuietDuring,
         Silent, Unrecorded, Held, LeftOver
<1> QED BY <1>3, <1>4, <1>5

LEMMA AutoEndQuiet == ASSUME Typed, StageInv, QuietInv, NEW s \in Streams, AutoEnd(s) PROVE QuietInv'
<1>1. ConsoleTypeOK /\ UNCHANGED click /\ (Undisturbed' => Undisturbed)
  BY DEF AutoEnd, Typed, Undisturbed, NoMishap
<1>2. /\ page'.mounted = page.mounted
      /\ page.mounted \/ UNCHANGED <<mics, sockets, recorder, timers>>
  BY <1>1, PageFields DEF AutoEnd, Shows, deviceVars
<1>3. ASSUME page.mounted, AtRest, QuietAtRest PROVE QuietAtRest'
  BY <1>1, <1>3, PageFields
     DEF AutoEnd, deviceVars, Shows, Sets, QuietAtRest, QuietDuring, Silent, Unrecorded, Held,
         LeftOver, ConsoleTypeOK
<1>4. ASSUME NEW c \in Clicks, page.mounted, Busy(c), During(c), QuietDuring(c) PROVE QuietDuring(c)'
  <2>1. (Silent => Silent') /\ (Held => Held') /\ (Unrecorded => Unrecorded') /\ UNCHANGED <<mics, sockets, socket>>
    BY DevicesRest DEF AutoEnd, deviceVars
  <2>2. server' = [server EXCEPT ![s] = "ENDED"] /\ server[s] # "PREPARING"
    BY DEF AutoEnd
  <2>3. \A x \in Streams : server[x] = "PREPARING" => server'[x] = "PREPARING"
    BY <1>1, <2>2 DEF ConsoleTypeOK
  <2>4. LeftOver => LeftOver'
    BY <2>1, <2>3 DEF LeftOver
  <2>5. Busy(c) /\ (click[c].op # "create" \/ click[c].at = "answered") => click[c].stream \in Streams
    BY DEF Typed, StreamsKnown
  <2> QED BY <1>1, <1>4, <2>1, <2>3, <2>4, <2>5 DEF QuietDuring
<1> QED BY <1>1, <1>2, <1>3, <1>4, QuietKept

LEMMA SetModeQuiet == ASSUME Typed, StageInv, QuietInv, NEW ptt \in BOOLEAN, SetMode(ptt) PROVE QuietInv'
<1>1. ConsoleTypeOK /\ UNCHANGED click /\ (Undisturbed' => Undisturbed)
  BY DEF SetMode, Typed, Undisturbed, NoMishap
<1>2. /\ page'.mounted = page.mounted
      /\ page.mounted \/ UNCHANGED <<mics, sockets, recorder, timers>>
  BY <1>1, SetModeDoes, PageFields DEF SetMode, Shows, deviceVars
<1>3. ASSUME page.mounted, AtRest, QuietAtRest PROVE QuietAtRest'
  BY <1>1, <1>3, SetModeDoes, PageFields
     DEF SetMode, deviceVars, Shows, Sets, QuietAtRest, QuietDuring, Silent, Unrecorded, Held,
         LeftOver, ConsoleTypeOK
<1>4. ASSUME NEW c \in Clicks, page.mounted, Busy(c), During(c), QuietDuring(c) PROVE QuietDuring(c)'
  BY <1>1, <1>4, SetModeDoes, ClickFields
     DEF SetMode, deviceVars, Ops, Shows, Sets, During, QuietAtRest, QuietDuring, Silent,
         Unrecorded, Held, LeftOver, ConsoleTypeOK
<1> QED BY <1>1, <1>2, <1>3, <1>4, QuietKept

LEMMA ResetBroadcastQuiet == ASSUME Typed, StageInv, QuietInv, ResetBroadcast PROVE QuietInv'
<1>1. ConsoleTypeOK /\ UNCHANGED click /\ (Undisturbed' => Undisturbed)
  BY DEF ResetBroadcast, Typed, Undisturbed, NoMishap
<1>2. /\ page'.mounted = page.mounted
      /\ page.mounted \/ UNCHANGED <<mics, sockets, recorder, timers>>
  BY <1>1, ResetBroadcastDoes, PageFields DEF ResetBroadcast, Shows, deviceVars
<1>3. ASSUME page.mounted, AtRest, QuietAtRest PROVE QuietAtRest'
  BY <1>1, <1>3, ResetBroadcastDoes, PageFields
     DEF ResetBroadcast, deviceVars, Shows, Sets, QuietAtRest, QuietDuring, Silent, Unrecorded,
         Held, LeftOver, ConsoleTypeOK
<1>4. ASSUME NEW c \in Clicks, page.mounted, Busy(c), During(c), QuietDuring(c) PROVE QuietDuring(c)'
  BY <1>1, <1>4, ResetBroadcastDoes, ClickFields
     DEF ResetBroadcast, deviceVars, Ops, Shows, Sets, During, QuietAtRest, QuietDuring, Silent,
         Unrecorded, Held, LeftOver, ConsoleTypeOK
<1> QED BY <1>1, <1>2, <1>3, <1>4, QuietKept

LEMMA PressButtonQuiet == ASSUME Typed, StageInv, QuietInv, PressButton PROVE QuietInv'
<1>1. ConsoleTypeOK /\ UNCHANGED click /\ (Undisturbed' => Undisturbed)
  BY DEF PressButton, Typed, Undisturbed, NoMishap
<1>2. /\ page'.mounted = page.mounted
      /\ page.mounted \/ UNCHANGED <<mics, sockets, recorder, timers>>
  BY <1>1, PressButtonDoes, PageFields DEF PressButton, Shows, deviceVars
<1>3. ASSUME page.mounted, AtRest, QuietAtRest PROVE QuietAtRest'
  BY <1>1, <1>3, PressButtonDoes, PageFields
     DEF PressButton, deviceVars, Shows, Sets, QuietAtRest, QuietDuring, Silent, Unrecorded, Held,
         LeftOver, ConsoleTypeOK
<1>4. ASSUME NEW c \in Clicks, page.mounted, Busy(c), During(c), QuietDuring(c) PROVE QuietDuring(c)'
  BY <1>1, <1>4, PressButtonDoes, ClickFields
     DEF PressButton, deviceVars, Ops, Shows, Sets, During, QuietAtRest, QuietDuring, Silent,
         Unrecorded, Held, LeftOver, ConsoleTypeOK
<1> QED BY <1>1, <1>2, <1>3, <1>4, QuietKept

LEMMA ReleaseButtonQuiet == ASSUME Typed, StageInv, QuietInv, ReleaseButton PROVE QuietInv'
<1>1. ConsoleTypeOK /\ UNCHANGED click /\ (Undisturbed' => Undisturbed)
  BY DEF ReleaseButton, Typed, Undisturbed, NoMishap
<1>2. /\ page'.mounted = page.mounted
      /\ page.mounted \/ UNCHANGED <<mics, sockets, recorder, timers>>
  BY <1>1, ReleaseButtonDoes, PageFields DEF ReleaseButton, Shows, deviceVars
<1>3. ASSUME page.mounted, AtRest, QuietAtRest PROVE QuietAtRest'
  BY <1>1, <1>3, ReleaseButtonDoes, PageFields
     DEF ReleaseButton, deviceVars, Shows, Sets, QuietAtRest, QuietDuring, Silent, Unrecorded,
         Held, LeftOver, ConsoleTypeOK
<1>4. ASSUME NEW c \in Clicks, page.mounted, Busy(c), During(c), QuietDuring(c) PROVE QuietDuring(c)'
  BY <1>1, <1>4, ReleaseButtonDoes, ClickFields
     DEF ReleaseButton, deviceVars, Ops, Shows, Sets, During, QuietAtRest, QuietDuring, Silent,
         Unrecorded, Held, LeftOver, ConsoleTypeOK
<1> QED BY <1>1, <1>2, <1>3, <1>4, QuietKept

LEMMA UnmountQuiet == ASSUME Typed, StageInv, QuietInv, Unmount PROVE QuietInv'
<1> SUFFICES ASSUME Undisturbed' PROVE QuietInv'
  BY DEF QuietInv
<1>1. Resting /\ Undisturbed /\ Apart /\ page.mounted
  BY DEF Unmount, Undisturbed, Apart, NoMishap
<1>2. AtRest /\ QuietAtRest
  BY <1>1 DEF StageInv, QuietInv
<1>3. /\ page'.mounted = FALSE /\ mics' = mics \ {capture} /\ Sets(capture, "inactive") /\ StopTimer
      /\ sockets' = sockets \ {socket} /\ UNCHANGED click
  BY UnmountDoes DEF Unmount, Typed, Shows
<1>4. page.status \in Statuses
  BY PageFields DEF Typed
<1>5. mics' = {} /\ sockets' = {}
  BY <1>2, <1>3, <1>4 DEF Statuses, AtRest, QuietAtRest, Silent, Held, LeftOver
<1>6. Unrecorded'
  <2>1. \A s \in Streams \ {capture} : recorder[s].state # "recording"
    BY <1>2, <1>4 DEF Statuses, AtRest, QuietAtRest, Silent, Held, Unrecorded
  <2> QED BY <1>3, <2>1 DEF Sets, Unrecorded
<1>7. timers' = 0
  <2>1. CASE page.status = "live"
    <3>1. timer /\ timers = 1
      BY <1>2, <2>1 DEF AtRest, Counting
    <3> QED BY <1>3, <3>1 DEF StopTimer
  <2>2. CASE page.status # "live"
    <3>1. ~timer /\ timers = 0
      BY <1>2, <2>2 DEF AtRest, Counting
    <3> QED BY <1>3, <3>1 DEF StopTimer
  <2> QED BY <2>1, <2>2
<1>8. Resting'
  BY <1>1, <1>3 DEF Resting
<1> QED BY <1>3, <1>5, <1>6, <1>7, <1>8 DEF QuietInv, Silent

LEMMA NextQuiet == Typed /\ StageInv /\ QuietInv /\ [Next]_vars => QuietInv'
<1> SUFFICES ASSUME Typed, StageInv, QuietInv, [Next]_vars PROVE QuietInv'
  OBVIOUS
<1>1. CASE UNCHANGED vars
  BY <1>1
     DEF vars, deviceVars, QuietInv, Undisturbed, NoMishap, Busy, Resting, QuietAtRest,
         QuietDuring, Silent, Unrecorded, Held, LeftOver
<1>2. ASSUME NEW c \in Clicks,
             \/ CheckRequest(c) \/ WriteRequest(c) \/ LoseRequest(c)
             \/ StartBroadcast(c) \/ CheckMicPermission(c) \/ Created(c)
             \/ OpenMicrophone(c) \/ MicrophoneFails(c) \/ Started(c) \/ StartFailed(c)
             \/ PauseBroadcast(c) \/ Paused(c) \/ ResumeBroadcast(c) \/ Resumed(c) \/ ChangeFailed(c)
             \/ StopBroadcast(c) \/ Stopped(c)
      PROVE  QuietInv'
  BY <1>2, CheckRequestQuiet, WriteRequestQuiet, LoseRequestQuiet, StartBroadcastQuiet,
     CheckMicPermissionQuiet,
     CreatedQuiet, OpenMicrophoneQuiet, MicrophoneFailsQuiet, StartedQuiet, StartFailedQuiet,
     PauseBroadcastQuiet, PausedQuiet, ResumeBroadcastQuiet, ResumedQuiet, ChangeFailedQuiet,
     StopBroadcastQuiet, StoppedQuiet
<1>3. ASSUME NEW s \in Streams, AutoEnd(s) PROVE QuietInv'
  BY <1>3, AutoEndQuiet
<1>4. ASSUME NEW ptt \in BOOLEAN, SetMode(ptt) PROVE QuietInv'
  BY <1>4, SetModeQuiet
<1>5. CASE ResetBroadcast \/ PressButton \/ ReleaseButton \/ Unmount
  BY <1>5, ResetBroadcastQuiet, PressButtonQuiet, ReleaseButtonQuiet, UnmountQuiet
<1> QED BY <1>1, <1>2, <1>3, <1>4, <1>5 DEF Next

-----------------------------------------------------------------------------
(* The duration on the page counts seconds: one interval runs while the    *)
(* page is live and none otherwise, whatever requests were lost.           *)
THEOREM TimerRunsCorrect == Spec => []TimerRuns
<1>1. Init => Typed /\ StageInv
  BY TypedInitially, StageInitially
<1>2. Typed /\ StageInv /\ [Next]_vars => (Typed /\ StageInv)'
  BY NextTyped, NextStage
<1>3. Typed /\ StageInv => TimerRuns
  BY DEF StageInv, Apart, NoMishap, AtRest, Counting, TimerRuns, Without
<1> QED BY <1>1, <1>2, <1>3, PTL DEF Spec

(* In continuous mode the sound is sent and recorded while the page is     *)
(* live.                                                                   *)
THEOREM LiveIsCapturedCorrect == Spec => []LiveIsCaptured
<1>1. Init => Typed /\ StageInv
  BY TypedInitially, StageInitially
<1>2. Typed /\ StageInv /\ [Next]_vars => (Typed /\ StageInv)'
  BY NextTyped, NextStage
<1>3. Typed /\ StageInv => LiveIsCaptured
  BY DEF StageInv, Apart, NoMishap, AtRest, Captured, LiveIsCaptured, Without, OnAir
<1> QED BY <1>1, <1>2, <1>3, PTL DEF Spec

(* A page at rest shows the state that its stream has in the backend.      *)
THEOREM PageAgreesCorrect == Spec => []PageAgrees
<1>1. Init => Typed /\ StageInv /\ PageInv
  BY TypedInitially, StageInitially, PageInitially
<1>2. Typed /\ StageInv /\ PageInv /\ [Next]_vars => (Typed /\ StageInv /\ PageInv)'
  BY NextTyped, NextStage, NextPage
<1>3. Typed /\ StageInv /\ PageInv => PageAgrees
  <2> SUFFICES ASSUME Typed, StageInv, PageInv, Without({"two starts", "overlap", "lost", "microphone"}),
                      page.mounted, page.stream # None
               PROVE  LET s == page.stream IN
                      CASE page.status = "live"   -> server[s] \in {"LIVE", "ENDED"} \/ (page.ptt /\ server[s] = "PAUSED")
                        [] page.status = "paused" -> server[s] \in {"PAUSED", "ENDED"}
                        [] OTHER                  -> server[s] \in {"PREPARING", "ENDED"}
    BY DEF PageAgrees
  <2>1. Resting /\ Clean /\ Apart
    BY DEF Without, Clean, Apart, NoMishap
  <2>2. AtRest /\ PageAtRest
    BY <2>1 DEF StageInv, PageInv
  <2>3. page.status \in {"live", "paused", "ended"}
    BY <2>2, PageFields DEF Typed, Statuses, AtRest, PageAtRest
  <2> QED BY <2>2, <2>3 DEF PageAtRest, LiveStatuses
<1> QED BY <1>1, <1>2, <1>3, PTL DEF Spec

(* A broadcast that is over, or whose page was left, keeps no microphone,  *)
(* socket, recorder or interval.                                           *)
THEOREM QuietWhenOverCorrect == Spec => []QuietWhenOver
<1>1. Init => Typed /\ StageInv /\ QuietInv
  BY TypedInitially, StageInitially, QuietInitially
<1>2. Typed /\ StageInv /\ QuietInv /\ [Next]_vars => (Typed /\ StageInv /\ QuietInv)'
  BY NextTyped, NextStage, NextQuiet
<1>3. Typed /\ StageInv /\ QuietInv => QuietWhenOver
  <2> SUFFICES ASSUME Typed, StageInv, QuietInv, Without({"two starts", "left early", "overlap", "lost"}),
                      ~page.mounted \/ page.status = "ended"
               PROVE  mics = {} /\ sockets = {} /\ timers = 0 /\ Unrecorded
    BY DEF QuietWhenOver, Unrecorded
  <2>1. Resting /\ Undisturbed /\ Apart
    BY DEF Without, Undisturbed, Apart, NoMishap
  <2>2. CASE ~page.mounted
    BY <2>1, <2>2 DEF QuietInv, Silent
  <2>3. CASE page.mounted /\ page.status = "ended"
    <3>1. AtRest /\ QuietAtRest
      BY <2>1, <2>3 DEF StageInv, QuietInv
    <3> QED BY <2>3, <3>1 DEF AtRest, Counting, QuietAtRest, Silent
  <2> QED BY <2>2, <2>3
<1> QED BY <1>1, <1>2, <1>3, PTL DEF Spec
===============================================================================
