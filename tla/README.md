# Verification of the podcast platform

This directory models the parts of the platform in which several actors meet: live
streaming from both ends, teacher applications, sign-in, background jobs and push
messages, and the services that read a row in one database call and write it in
another.  The backend (`src/apps/backend`) is NestJS with Prisma on PostgreSQL,
socket.io and BullMQ; the admin application (`src/apps/admin`) is React.  TLC checks the
models on small instances, TLAPS proves the main theorems for all values of the
constants.  Paths below are relative to `src/apps/backend/src/` unless they start with
`src/`; `admin:` stands for `src/apps/admin/src/`.

## 1. The system

### What runs, and what may overlap

The backend is one Node process.  A handler runs without interruption up to its
next `await`; at every `await` on the database, on FFmpeg or on the object store
any other handler, timer or process event may run.  The code takes no locks and,
with few exceptions (the approval of a teacher, the reset of a password, the
publication job), opens no transactions.  So the interesting question of nearly every
service is the same: *a row is read, a decision is made, and something is written one
or more database calls later; what is still true by then?*

The models of the backend therefore take one step per database call.  A request, a
socket event or a timer callback is a *call in flight* with a program counter that
names the database operation it does next; steps of different calls interleave freely.
One database operation (a `create`, an `update`, an `updateMany`, a `$transaction`) is
atomic, and constraints of the schema (`@unique`) hold within it.

A page of the admin application is the same question seen from the browser: its handlers
run up to an `await` on the backend or on the microphone, meanwhile other clicks are
handled or the page is left, and what a handler holds in a React reference may be
replaced before it is used.

### Components

| Component | State | Operations | Interacts with | Correct when |
|---|---|---|---|---|
| Room manager (`modules/live-stream/services/room-manager.service.ts`) | `LiveRoom`, `LiveListener`, `LiveStream.peakViewers/totalViewers` | joinRoom, leaveRoom, closeAllRooms, updatePeakViewers | gateway, lifecycle | at most MAX_ROOMS active rooms; counts match the listeners but for what calls in flight, closing pages and restarts account for |
| Live-stream gateway (`ws/gateways/live-stream.gateway.ts`) | sockets, `client.data.streamId`, channels | join-stream, leave-stream, disconnect, audio relay | room manager; pages | a socket that is gone is no listener, unless it went during its join; sound arrives in order |
| Lifecycle (`modules/live-stream/live-stream.service.ts`) with HLS encoder and recorder | `LiveStream` rows; timers, FFmpeg processes, intervals and recorders in memory | create, start, pause, resume, end, cancel, the auto-end timer, the podcast made of a recording | room manager, podcasts, FFmpeg, object store | status follows the status machine, no more active streams per host than requests overlap, a live stream ends by itself, a recording is published once and kept |
| Broadcast page (`admin:pages/live-stream/LiveBroadcastPage.tsx`) | state of the component; microphone, recorder, socket and interval in references | start, pause, resume, stop, button mode, leaving | lifecycle, gateway | it shows what the backend has, and closes what it opened |
| Listener's page (`admin:pages/live-stream/LivePlayerPage.tsx`) | state of the component; connection, hls.js player and audio schedule in references | load, join, change room, play chunks, leave | gateway | one connection, one player, sound in time |
| Teacher applications (`modules/sms/hoca-application.service.ts`) | `HocaApplication`, `User`, `Hoca` rows, application tokens | apply, approve, reject | codes, accounts | an application is decided once, and approved exactly when its account exists |
| One-time codes (`modules/sms/phone-auth.service.ts`, and the above) | `OtpVerification` rows | send, verify | SMS provider | few codes and few attempts, however requests overlap |
| Accounts (`modules/auth/auth.service.ts`, `admin:api/client.ts`, `admin:store/slices/authSlice.ts`) | `User` with its session, links to reset or verify, tokens that the tabs of a browser share | register, login, refresh, logout, change, forgot, reset, verify | mail queue | links are few and stored, a page that shows a user has tokens unless another tab gave them up |
| Jobs (`jobs/`, `modules/notifications`) | Redis queues, `Notification` rows | enqueue, process with retries | gateway | what is completed was told, and no more often than tried |
| Push (`modules/push`) | devices, settings, logs | register, settings, send | Firebase | owners are reachable, logs tell the truth |
| Response cache (`common/interceptors/cache.interceptor.ts`, `modules/rss`) | entries with a lifetime | read through, expiry | every GET | no answer is older than it may be |
| Podcasts and episodes (`modules/podcasts`, `modules/episodes`) | rows | create, update, delete | - | an episode has the sources its podcast's type demands |
| Moderation (`modules/moderation`), collaboration (`modules/collaboration`), older streaming API (`modules/streaming`) | queue items, invitations, sessions | report, decide; invite, answer; change of status | - | decided and pending no more often than requests overlap, answered once, dated |
| Scheduling, collections, comments, reviews, progress, search, analytics, storage, users, mail settings | rows | single-row operations and queries | - | mostly backed by unique constraints |
| Mobile application, shared packages, deployment | - | clients and configuration | - | - |

### How they interact

* A listener's page emits `join-stream`; the gateway reads the stream's status
  and calls `joinRoom` (up to ten database calls), then remembers the stream in
  `client.data` and joins the socket to a channel.  Closing the page emits
  `leave-stream` and disconnects at once (`admin:pages/live-stream/LivePlayerPage.tsx:137`),
  so that two `leaveRoom` calls of one socket overlap as a matter of course.
* The teacher's page creates the stream, opens the microphone and only then starts the stream.  Its
  samples go over the socket to the gateway and on to the listeners' pages, which schedule them on
  an `AudioContext`; its recorder's chunks go to the backend's FFmpeg.
* The host's `end` stops encoder and recorder, clears the timer, writes `ENDED`,
  lets `closeAllRooms` mark listeners and rooms, and makes a podcast of the
  recording.  The auto-end timer calls the same `endStream`.
* Timers, encoders and recorders live in the memory of the process and are gone
  after a restart; the rows and the queues in Redis stay.
* A teacher's application deletes rejected applications of the same phone before it
  inserts its own, while administrators review what they read earlier.  The same table of
  codes serves applicants and administrators who log in.
* The browser's API client refreshes an expired access token behind the page's back; the session it
  refreshes may have been ended by a logout, a password change or a reset meanwhile.
* Reset and verification links are mailed by a worker, possibly after another request has spent them.

### Behaviours that are hard

Overlapping calls on stale reads (everywhere), the two `leaveRoom` calls of a closing
page, joins that outlive the end of the stream, a timer racing the host, restarts
that lose timers and sockets, jobs that are retried after half of their work, workers that lost
their lock, multi-call operations that fail half-way, tabs that share their tokens and not their stores, an audio
context that stands still, references to devices that a later handler replaced.  `PROJECT.json` lists each of them as a hazard at its line, with the
properties that cover it.

## 2. Modules

| Module | Models | Role |
|---|---|---|
| `RoomAllocation` | how rooms are opened and closed, each in one atomic step | abstract specification |
| `LiveRooms` | room manager, and the gateway's join, leave and disconnect | detailed; implements `RoomAllocation` |
| `Broadcast` | the status machine of a host's streams and the publication; a worker decides on the status it reads and acts on it later, or never | abstract specification |
| `StreamLifecycle` | lifecycle, encoder, recorder, timers | detailed; implements `Broadcast` |
| `LiveConsole` | the teacher's page and the status of his streams | detailed |
| `LivePlayer` | the listener's page: connections, players, changes of room | detailed |
| `LiveAudio` | the sound from the host's buffer to the listener's schedule | detailed |
| `HocaApplications` | teacher applications and their review | detailed |
| `PhoneCodes` | one-time codes of logins and applications | detailed |
| `Accounts` | one account, its session, links, mails, browsers and their tabs | detailed |
| `NotificationJobs` | the notification queue and its worker | detailed |
| `PushDelivery` | devices, settings and push messages | detailed |
| `ResponseCache` | reading through the cache | detailed |
| `Catalogue` | podcasts, episodes and their media | detailed |
| `ModerationQueue`, `Collaboration`, `StreamingSessions` | the three services of that name | detailed |
| `MCLiveRooms`, `MCStreamLifecycle` | symmetry sets for TLC | instances |
| `MCSignIn` | `Accounts` (links with one page, or two tabs without links) and `PhoneCodes` side by side | instance |
| `MCReviews`, `MCStudio` | `HocaApplications` and `ModerationQueue`, `LiveConsole` and `Catalogue` side by side | instances |
| `MCServices` | seven parts side by side | instance |
| `LiveRoomsProofs`, `StreamLifecycleProofs`, `HocaApplicationsProofs`, `SignInProofs`, `LiveConsoleProofs`, `ServicesProofs`, `DeliveryProofs`, `ContentProofs` | theorems | proofs |

`LiveRooms` and `StreamLifecycle` meet at `endStream`: the first has its guard, the write
of `ENDED` and every step of `closeAllRooms`, with listeners and rooms one by one; the
second has everything else `endStream` does and sees the rooms of a stream as open
or closed as a whole.  `LiveConsole` sees of `StreamLifecycle` the guard and the write of
each request, in two steps.  `HocaApplications` takes a verified phone in one step that
`PhoneCodes` spells out.

Parts *side by side* share no state: a behaviour runs one of them, so that their states add and do not multiply.

### LiveRooms

`rooms[st]` is a function from room numbers to rows (the number is unique in a stream),
`listeners` one from session ids to rows (`sessionId` is unique).  `call[c]` is a handler in
flight with its program counter and locals.  The actions follow the code:

| Code | Actions |
|---|---|
| `handleJoinStream` guard | `JoinStream` |
| `joinRoom` 46-57 existing listener | `JoinFindListener` |
| 60-67 room with a free place | `JoinFindRoom` |
| 71-82 last room, count, new room | `JoinLastRoom`, `JoinCountRooms`, `JoinCreateRoom` |
| 89-111 upsert, increment | `JoinUpsert`, `JoinIncrement` |
| `updatePeakViewers`, 117 total | `JoinCountViewers`, `JoinWritePeak`, `JoinAddTotal` |
| rest of the handler | `JoinAck` |
| leave-stream, disconnect, `leaveRoom` | `LeaveStream`, `Disconnect`, `LeaveFind`, `LeaveMark`, `LeaveDecrement` |
| pause, resume, end | `PauseStream`..`WriteEnded` |
| `closeAllRooms` | `CloseFind`, `CloseListener`, `CloseRooms` |
| restart of the process | `ServerRestart` |

A socket may disconnect at any moment (`Disconnect` has no guard but the connection), also while its own join or leave-stream is
in flight; `sockets[s].lost` remembers whether it went during a join, or with the process.  `MaxCallsPerSession` bounds the joins
and, separately, the leave-streams a socket has in flight; its join, its leave-stream and its disconnect overlap in any case.

`JoinCreateRoom` fails, and ends the join, when the number is taken: two joins that read the
same last room insert the same number, and `@@unique([streamId, roomNumber])` refuses one.

### StreamLifecycle

`status`, `isRecorded`, `recordingUrl`, `rooms`, `podcasts`, `episodes` are the rows; `endTimers`,
`hls`, `recorder` the memory.  A timer is the map's entry or an *orphan*, one the map no longer
points to.  `hls` keeps the live FFmpeg processes and intervals apart from what the maps point to,
which is where they can diverge.  Each operation is split at its `await`s: for instance `endStream` is
`EndStream` (guard), `Stop` (encoder, timer), `Convert` (the recorder, seconds of FFmpeg),
`WriteEnded`, `CloseRooms`, `CreatePodcast`, `CreateEpisode`.  `TimerFires` starts the same chain as
the worker `Timeout`.  `Fails` lets a database call of a call in flight throw, `ServerRestart` empties the memory.
The history variable `raced` has the streams that two ends worked on at once, or that a stale write revived; only a property reads it.

### HocaApplications

`applications`, `users` are rows, `tokens` the phones that hold an application token.
A direct application is `SubmitDirect` (no user has phone or email), `FindPhone`, `FindEmail`,
`DeleteRejected`, `CreateApplication`; one with a token is `SubmitVerified` and the last two.  A review is
`ApproveApplication` or `RejectApplication` (the read, with the check that it is pending) and
`Approve` (the transaction) or `Reject` (the update) as a separate step.  A submission or review may fail
at any step.  The phone of an application is unique, its email is not.

### LiveConsole

`page` is the state of the component, `click[c]` a handler in progress with the `await` it is at, `server` the
status the backend has.  `capture` and `socket` are the references, `mics`, `sockets`, `recorder` and `timers` what is open
whether or not a reference leads to it.

| Code | Actions |
|---|---|
| `startBroadcast` | `StartBroadcast`, `CheckMicPermission`, `Created`, `OpenMicrophone` or `MicrophoneFails`, `Started`, `StartFailed` |
| pause, resume | `PauseBroadcast`, `Paused`, `ResumeBroadcast`, `Resumed`, `ChangeFailed` |
| stop, new broadcast | `StopBroadcast`, `Stopped`, `ResetBroadcast` |
| button mode | `SetMode`, `PressButton`, `ReleaseButton` |
| cleanup of the effect | `Unmount` (the `stopBroadcast` of the first rendering, which knows of no stream) |
| the backend, the network | `CheckRequest`, `WriteRequest`, `LoseRequest`, `AutoEnd` |

`mishaps` records what has gone wrong so far (clicks that overlapped, lost answers, a microphone that failed).  Nothing depends
on it; the properties name those under which they hold.

### LivePlayer and LiveAudio

`LivePlayer` has the request for the stream (`StreamIsLive`, `StreamHasEnded`, `StreamUnavailable`), the connection's events
(`Connect`, `Joined`, `JoinRefused`, `LoseConnection`, `StreamEnds`), `HlsFails`, `ChangeRoom` and `Unmount`.  `HasAudio`
says whether the audio element is rendered, on which `initHls` and the source of a recording depend.
`LiveAudio` follows one chunk from `onaudioprocess` (`RecordChunk`) to the schedule of the listener's `audio-stream` handler, on a
clock in ticks.  The handler is two actions: `ReceiveChunk`, up to the `await` of `resume()` on a suspended `AudioContext`, and
`PlayChunk`, the rest.  `ContextSuspends` and `ContextResumes` are the browser's; the context's clock `currentTime` stands still in between,
and the handlers that wait go on one after the other.  `LoseChunk` is a listener without connection.

### Accounts and PhoneCodes

| Code | Actions |
|---|---|
| `register`, `login`, `refresh` | `RegisterAccount`, `Login`, `RefreshTokens`, `SaveRefreshTokenHash`, `ReceiveTokens` |
| the interceptor's failed refresh, `logout`, `useAuth` | `RefreshRefused`, `Logout`, `EndSession`, `ClearAuth` |
| `changePassword` | `ChangePassword`, `WritePassword` |
| `forgotPassword`, `resendVerification` | `ForgotPassword`, `ResendVerification`, `SpendLinks`, `CreateLink`, `QueueMail` |
| mail worker | `ProcessMail` |
| `resetPassword`, `verifyEmail` | `ResetPassword`, `WriteReset`, `VerifyEmail`, `WriteVerified` |
| browser, time, failures | `AccessTokenExpires`, `Reload`, `LinkExpires`, `RequestFails` |
| `sendOtp`, `sendVerificationCode` | `SendOtp`, `FindRecent`, `DeleteOld`, `CreateCode`, `SendSms` |
| `verifyOtpAndLogin`, `verifyCode` | `VerifyOtp`, `FindCode`, `DeleteCode`, `Increment`, `MarkVerified` |
| time, approvals, failures | `Tick`, `AccountChanges`, `CodeCallFails` |

`storage[b]` is the localStorage of a browser, which all its tabs share; `page[p]` is what one tab keeps in memory.  `RefreshRefused` and
`ClearAuth` empty the first for every tab and change the second for their own; nothing in the client listens to the storage.

The stored hash of a refresh token is bcrypt's, of the first 72 bytes, which hold nothing but the header and the account: any
refresh token of the account matches it, and the session is there or not.

### The services

| Module | Code | Actions |
|---|---|---|
| `NotificationJobs` | enqueue; `process`; BullMQ | `Enqueue`; `InsertRow`, `InsertFails`, `EmitNotification`, `EmitFails`, `Fail`; `Take`, `Stall`, `Crash`; `DeleteNotification` |
| `PushDelivery` | devices, `ensurePushSettings`, settings; `sendPush` | `RegisterDevice`, `UnregisterDevice`, `FindSettings`, `CreateSettings`, `UpdatePushSettings`, `WriteSettings`; `SendPush`, `ReadDevices`, `SendToDevices`, `ProviderFails`, `WriteLog`; `CallFails` (any call throws), `PushCrash` |
| `ResponseCache` | interceptor, feeds; the rest | `Hit`, `Miss`, `Handle`, `Respond`, `Store`, `NoResponse`, `Evict`; `ChangeData`, `Tick` |
| `Catalogue` | podcasts; episodes | `CreatePodcast`, `InsertPodcast`, `UpdatePodcast`, `WritePodcast`, `DeletePodcast`, `DeletePodcastRow`; `CreateEpisode`, `FindPodcast`, `FindSlug`, `InsertEpisode`, `UpdateEpisode`, `CheckUpdate`, `WriteEpisode`, `DeleteEpisode`, `DeleteEpisodeRow` |
| `ModerationQueue` | `reportContent`; moderators | `FindReported`, `AddReason`, `CreateItem`; `Moderate`, `Escalate`, `DeleteItem`, `WriteReview` |
| `Collaboration` | owner; guest | `Invite`, `CreateInvitation`, `UpdateCollaborator`, `RemoveCollaborator`, `WriteOwner`; `AnswerInvitation`, `Leave`, `WriteAnswer` |
| `StreamingSessions` | create; `updateStatus`; delete | `CreateSession`; `UpdateStatus`, `WriteStatus`; `DeleteSession`, `DeleteRow` |

## 3. What TLC checks

| Run | Instance | Size | Shows |
|---|---|---|---|
| `rooms_overlap` | 1 stream, 2 sockets, 2 calls of any sockets, capacity 1, 1 room; pause, resume, end, restarts | 3.6M states, 3 min | `RoomsBounded`, `CountBounded`, `NoGhostListeners`, `AllocationInv` (inductive); implements `RoomAllocation` |
| `rooms_count` | 1 stream, 3 sockets with one join and one leave-stream each at a time, 2 calls, capacity 1, 2 rooms; end, restarts | 840k states, 50 s | `RoomCountAccurate`, `OvershootBounded`, `PeakCoversViewers`, `TotalCountsSessions` |
| `life_overlap` | 1 stream, 2 calls and the timer, all operations, failures and restarts | 1.5M states, 2.5 min | `PublishedOnce`, `RecordingKept`; implements `Broadcast` |
| `life_streams` | 3 streams, 2 calls; create, start, pause, end | 1.2M states, 1 min | `ActiveBounded` |
| `life_auto_end` | 1 stream, 2 calls and the timer; create, start, end; fairness | 120k states, 20 s | `AutoEndArmed`, `AutoEnds` (liveness) |
| `reviews` | 3 phones, 1 email, 3 applications, 2 overlapping submissions, 1 administrator, failures; 3 items, 2 reporters, 2 moderators | 580k states, 1 min | `AccountsMatch`, `EmailsBounded`, `DecisionIsFinal`; `PendingBounded`, `DecisionsBounded` |
| `sign_in` | account with 2 requests and 2 links, or 2 tabs of one browser; phone with 2 codes, 2 requests, 1 attempt | 1.5M states, 3 min | `LinksBounded`, `SignedInHasTokens`, `CodesBounded`, `AttemptsBounded` |
| `studio` | 2 streams, 2 overlapping clicks, lost answers, failing microphones, button mode; 1 podcast, 1 episode, 2 video fields, 2 overlapping edits | 2.0M states, 1 min | `PageAgrees`, `TimerRuns`, `QuietWhenOver`, `LiveIsCaptured`; `EpisodesSound` |
| `services` | one instance of each of seven parts, 2 overlapping requests (or 4 executions of a job) each | 310k states, 40 s | `CompletedIsTold`, `RowsBounded`, `JobsEnd` (liveness); `DevicesReachable`, `LogsTruthful`; `StaleBounded`; `SessionDates`; `AnsweredOnce`; `NothingLost`, `SwitchingEnds` (liveness); `HeardInTime` |

The type invariants, `RoomsNumberedInOrder`, `PeakNeverFalls` and `MailedLinksStored` are part of the proofs (section 4) and of no run.

What the less obvious ones say:

* `RoomsBounded`: `joinRoom` counts the active rooms and inserts in another call, with no lock, and is
  still right.  It reads the last room number *before* it counts; if another join opened a room after
  that read, the number it will insert is taken and the insert is refused.  The mutant that takes the
  number at the insert instead breaks it.  `AllocationSpec` says the same as a refinement.
* `CountBounded`: the stored count of a room can exceed its capacity (two joins see the same free place), by fewer than the
  calls in flight.  This says nothing of the listeners: the count may have been decremented twice for one of them.
* `OvershootBounded` is the bound on the listeners: the capacity, the joins that overlap, and one more for each departure that
  may have been counted twice or was cut off by a restart.  The plain statement *no room holds more than
  ROOM_CAPACITY* is false of the code.  Three sockets are what it takes to see the double decrement let one more in.
* `RoomCountAccurate`: how far a count and the present listeners are apart.  A page that closes sends leave-stream and disconnects at once;
  both may pass the check of `leftAt` and decrement, so that the count falls short by one for each such departure.  After a restart
  it is too high by the sockets that were cut off.  Otherwise they differ by the calls between a row and its count only.  It holds while
  a socket sends no join during its own join (and no leave-stream during its leave-stream), which the page never does; two joins of one
  session at a time upsert one row and increment two rooms.
* `NoGhostListeners`: whatever calls of a socket overlap, it leaves a present listener behind only if it went during its own join, when
  `client.data.streamId` is not set yet, or with the process.  In these two cases the code does leave one.
* `LifeSpec`: with overlapping requests, a timer, failures and restarts, a status is written by nobody but a worker that read a status that
  allows it, and only a worker that wrote `ENDED` publishes.  `Broadcast` lets the read and the write lie apart, as they do; what it
  rules out is a write without the guard, a transition the guards do not have, a second publication.
* `ActiveBounded`: `createStream` refuses a second active stream and inserts in another call.  Overlapping creations leave several; never more
  than requests overlap, although stale starts, pauses and resumptions bring ended streams back to life.
* `RecordingKept`: of two `endStream` calls, the later one writes null over the URL of the recording; the streams this may have happened
  to, and those a stale write revived after their end, are `raced`.  All others keep the URL through every overlap,
  failure and restart.
* `PublishedOnce`: however many `endStream` calls overlap, the unique slug lets one podcast through, with
  one episode.
* `AutoEndArmed`: an `endStream` clears the timer before it writes `ENDED`; this never leaves a stream
  live without a timer when starts overlap.  It is checked with creations, starts and ends only, and without failing writes and restarts.
  A resume that overlaps an end writes `LIVE` after the timer was cleared, and the stream has none then.
* `AccountsMatch`, `DecisionIsFinal`: submissions delete rejected applications under an administrator's
  feet; a review still decides a row that is pending, as long as there is one review at a time.  The one thing that
  ends a decision is the deletion of a rejected application by a new submission.
* `CodesBounded`, `AttemptsBounded`, `LinksBounded`, `EmailsBounded`, `PendingBounded`: five places look for a row, or delete
  rows, and insert in another call.  None of them is exclusive, and the limit each has in mind is exceeded by
  fewer than the requests that overlap; without overlap it is kept.  `DecisionsBounded` is the same for the decisions on an item: two
  moderators may both decide it, the later write wins, and it takes their overlap, even if the item was escalated in between.
* `SignedInHasTokens`: the interceptor clears the tokens of a refused refresh but not the store, and relies on the
  login page it loads; a refresh that is answered after a logout puts tokens back.  Still a page that shows a user has tokens, unless
  another tab of the browser signed out or is being sent away: it took the tokens of all tabs, and no tab hears of it.
* `PageAgrees`, `TimerRuns`, `QuietWhenOver`, `LiveIsCaptured` each name the mishaps that break them.
  For instance the timer survives lost answers and failing microphones, but two overlapping resumptions leave an
  interval that nothing can stop; a page that is left during a start leaves the microphone open.
* `QuietWhenOver` holds although a start that fails for its microphone closes nothing: the stream it leaves in
  PREPARING makes the backend refuse the next start, so that the references still lead to its devices when the page is left.
* `CompletedIsTold`, `RowsBounded`: the worker inserts and emits in one try, so that a retry inserts again; the copies
  are bounded by the attempts and by the executions that lost their lock and went on.
* `DevicesReachable`: two registrations of one user may both miss the settings, and one of them fails at the unique
  row.  The row is there then.  A call that fails by itself does leave a device without settings, until a later request of its owner.
* `LogsTruthful`: `sendPush` has no `try`; a query or an update of the log that throws leaves the log `PENDING` with the server up.
* `StaleBounded`: nothing invalidates an entry and a slow handler may store what it read long before: the
  bound is the lifetime plus the duration of a request, not the lifetime.
* `SessionDates`: overlapping updates go past the table of transitions (a session can be live after it ended); its
  dates still fit its status, as every write adds its own and takes none away.
* `EpisodesSound`: the exceptions it names are real.  Changing the type of a podcast checks none of its
  episodes, and two updates of one episode each keep the video field that the other one empties, in a podcast of type
  `VIDEO` or `BOTH`.  An episode of an `AUDIO` podcast never loses its audio.
* `NothingLost`: a connection that is restored joins again and attaches another player over the first, which
  the page then cannot destroy; this costs at most one player for each loss, and changing rooms costs none.
* `HeardInTime`: a schedule that ran dry restarts behind the clock; delays of the network never add up on the clock of the context.  The time
  the context was suspended does: the chunks that waited are all played, and nothing ever catches up.

### Where code and its comments disagree

Three runs each check one statement that a page or a comment of the repository makes, and TLC
finds a behaviour that breaks it (`findings` in `PROJECT.json` quotes the lines):

| Run | Statement | What happens |
|---|---|---|
| `life_restart` | the stream is closed when its time is over (`admin:pages/live-stream/LiveBroadcastPage.tsx:701`) | a restart loses the timer and nothing sets it again |
| `console_ptt` | let go of the button and the sound is cut (`LiveBroadcastPage.tsx:697`) | the button pauses the recorder only; the script processor (247-270) sends every buffer to the listeners |
| `player_vod` | a recording is set as the source of the audio element (`LivePlayerPage.tsx:105`) | the page is still loading when the answer arrives, its skeleton (539-547) has no audio element, and nothing repeats the assignment.  React's StrictMode runs the effect twice in development and hides it |

The models also have, and properties make exceptions for: a listener that comes back keeps its `leftAt`, because the
early return of `joinRoom` precedes the upsert; a join that read LIVE adds a listener after
`closeAllRooms`; the second of two overlapping ends writes null over the recording's URL; starting a paused
stream forgets its first encoder; two administrators decide one application, the later write wins; a socket that goes during its join stays
a listener.

### Bounds, and why they suffice

* Capacity 1 makes every room full after one listener, so that two sockets meet each case: free place,
  full room, new room, refused room; the third sees the place that a double decrement made.  `MaxRooms` 1 and 2 separate *limit reached* from
  *another room*.  A socket that joins a second stream is not in the runs (one stream); the theorems hold for any number.
* Two requests show every pairwise race; the guards and constraints concern a pair of calls each.  The theorems
  remove the bound for the invariants that depend on it most.
* Ids are never used again, as in the code.  Three applications allow a rejection, a second application and a third
  while the second is reviewed; two links or codes allow one to be replaced by another; three items of the
  moderation queue allow two at a time and one more after a decision; three streams allow two active ones beside an ended one.
* `MaxEncoders` 2 bounds the encoders started per stream; in `life_auto_end` no more than two starts can pass the
  guard, so that the bound cuts nothing there; in `life_overlap` a third start, and in `life_streams` a second, waits at `Encode` for good.  `MaxTimers` 2 allows one interval more than there should be.
* 2 attempts, 1 stall and 4 executions let a job be retried, lose its lock and be retried again.
* Clocks end at 2 (codes), 5 (cache) and 10 (sound): a code expires, an entry is stored at the latest moment, expires
  and is read again, and the sound of a delayed chunk is followed by a burst.  `Lead` 1 and `Chunk` 2 stand for the 50 ms and
  the 4096 samples of the code.
* An update of an episode names at most two of its three fields (`FewFields` in `MCStudio`): one it keeps or gives, one it empties.
* Of `Accounts`, `MCSignIn` runs links with one page whose tokens do not expire, or tabs without links, which the links' properties and
  the tokens' tell nothing apart from; the theorems have them together.
* `MaxDrops` 2 loses the connection twice.
* Symmetry is used in the runs without liveness only; the refinements checked under symmetry are
  symmetric in the same sets.
* Deadlock is checked where no such state can be meant (`sign_in`) and not elsewhere: a platform whose sockets are gone
  and whose streams have ended rightly stops.

### Fairness

* `life_auto_end`, `life_restart` (`FairSpec`): weak fairness of each step of a call in flight (the
  database and FFmpeg answer, and the event loop resumes the handler) and of a timer that is due
  (`setTimeout` of a running process).
* `JobsEnd` (`JobsFairness`): workers take what waits and go on with what they took, and a lock that its worker
  does not renew expires, which is BullMQ's stalled check.
* `SwitchingEnds` (`PlayerFairness`): Socket.IO tries again until it connects, and the server answers a join.

No fairness is assumed of requests, clicks, failures or restarts.

## 4. What is proved

All theorems hold for every finite set of sessions, calls, applications, codes, links and so on, and for every limit
that the modules' `ASSUME`s admit.

**`LiveRoomsProofs`.** `TypeCorrect`; `RoomsBoundedCorrect`, `RoomsNumberedCorrect` and `AllocationInvariant`;
`AllocationRefined` (implements `RoomAllocation`); `PeakNeverFallsCorrect`; `CountBoundedCorrect`; `NoGhostListenersCorrect`.  These assume nothing of
the clients or the host.
`RoomsBounded` is not inductive: nothing in it says that the count a join read is still good at its insert.
`AllocationInv` adds that rooms are numbered without gap, that the last number a join read exists, and
`CountStillValid`: *if the number a join is about to insert is free, then the active rooms are fewer than
the limit*.  A step that opens a room takes exactly the number every waiting join would insert, a step
that closes rooms lowers the count.  The refinement follows: `JoinCreateRoom` is `OpenRoom`, `CloseRooms` is
itself, every other step stutters (the lemmas named `Quiet...`).  For `CountBounded` the
invariant counts the joins that chose a room together with its count; choosing needs a count
below the capacity and no more joins can choose than there are calls.  For `NoGhostListeners` (`GhostInv`) a present listener of a
connected socket has the stream in `client.data` or a call that is about to put it there, and one of a socket that went has a call about to
mark it, unless a join was cut off.

Four theorems assume `InSequence` (`MaxCallsPerSession = 1`): a socket sends no join while its join is in flight, and no
leave-stream while its leave-stream is.  Its join, its leave-stream and its disconnect overlap, restarts happen, the calls of different sockets
overlap as they like, and the host may do anything.  With two joins of one session at a time the statements are false, as section 3
says.  `SequenceInv` is what the assumption gives: two joins never work on one session (`OneJoinEach`), a listener's room
exists (`ListenersHoused`), and a call still finds the listener where it read him (`CallsSound`).  `LostSockets` says that a socket of a process that
is gone has no calls.  On top of them:

* `TotalCountsSessionsCorrect`: `TotalCountsSessions` itself (as `TotalsCounted`) is then inductive.  An upsert adds a
  listener exactly when it adds a call that will count him.
* `PeakCoversViewersCorrect`: `PeakFollows` says that a viewer count above the stored peak is about to be noticed, by a join
  that still has to count or by one that has counted at least as many.  A later join may write over the peak only with
  what it counted, after it compared.
* `RoomCountAccurateCorrect`: a socket has at most two leaves, and two only once it is gone (`LeavesPaired`).  `RoomsCounted` adds to the count the
  joins about to increment and to the listeners the leaves about to decrement, and says how far the two sums may be apart.  The
  second leave to mark one listener makes the count fall short, which its departure pays for: until then the leave counts as
  late (`Late`), and each socket has at most one late leave.
* `OvershootBoundedCorrect`: a join chooses a room whose count is below the capacity; by `RoomsCounted` its listeners
  are then below the capacity and the departures, and the joins that chose it before are among the calls.

**`StreamLifecycleProofs`.** `TypeCorrect`; `PublishedOnceCorrect` (counting the calls between podcast and episode);
`AutoEndArmedCorrect`, for hosts that create, start and end, without failures and restarts.  Its
strengthening is `LiveIsBound`: a live stream without a timer in the map has a call about to arm one or
about to end it.

Three more hold without any assumption, with overlapping requests, timers, failures and restarts:

* `ActiveBoundedCorrect`.  The active streams alone do not make an inductive bound: a stale start, pause or resumption may bring an ended stream back.
  `ActiveInv` counts them together with the streams such a call may bring back, and with the creations that passed the check; a call that
  begins on an active stream adds nothing to the count, and a creation begins only when there is no active stream, so that the others in the count are other calls.
* `RecordingKeptCorrect`.  `KeptInv`: of a stream that is not `raced` one call at the most is between the guard and the write of `ENDED`, nothing
  publishes it before that write, and what does so afterwards has the URL that is stored.
* `LifeRefined`.  A call's plan follows from its program counter (`Plan`); the beginning of a request decides, its write operates, `CreatePodcast` of the first
  call publishes, and every other step leaves the plan as it is or drops it.

**`LiveConsoleProofs`.** `TimerRunsCorrect`, `LiveIsCapturedCorrect`, `PageAgreesCorrect` and `QuietWhenOverCorrect`, for any number of clicks, streams
and intervals and with no further assumption: each property itself says which mishaps end its claim, and mishaps are never forgotten.
As long as no overlap was noted at most one handler is in progress (`Alone`); the guards of the
buttons alone do not give this, the status and `During` are needed to see that a start cannot meet a pause or an end.
The properties speak of a page at rest and say nothing of the long handlers between two rests; so each invariant has
two halves, what holds at rest and what holds while a handler of a given kind waits:

* `StageInv` (`AtRest`, `During`): what the page shows, the interval, the microphone, the socket and the recorder.  `TimerRuns` and
  `LiveIsCaptured` follow.
* `PageInv` (`PageAtRest`, `PageDuring`): what the backend has for the stream, before and after the write of a request.
* `QuietInv` (`QuietAtRest`, `QuietDuring`): everything open is held by a reference (`Held`).  The hard case is a start that
  failed for its microphone and leaves a socket: `LeftOver` says that the stream it left in `PREPARING` is still there, so that a
  later create that the backend accepts finds no socket to forget.

**`HocaApplicationsProofs`.** `TypeCorrect` for any number of overlapping submissions and reviews.
With one review at a time (`OneReview`, an assumption of each theorem; with two administrators the
statements are false) `AccountsMatchCorrect`, `DecisionIsFinalCorrect` and `EmailsBoundedCorrect`.  The strengthening
is `ReviewsPending`: the application under review is still pending, since a submission deletes rejected rows
only (`SubmitKeepsLive`).  `EmailsBounded` counts live applications together with the submissions that passed the
search; a submission that passes it found no application (`BoundAfterSearch`), an insert moves one
from one count to the other (`BoundMoves`).

**`SignInProofs`.** `CodesTypeCorrect`, `CodesBoundedCorrect`, `AttemptsBoundedCorrect`; `LinksBoundedCorrect`,
`MailedLinksStoredCorrect` (every mail that is queued or was delivered is about a stored link), `SignedInHasTokensCorrect` (for any number of browsers and tabs).  The bounds count rows together with the requests about to add one:
the deletion leaves no row (`BoundAfterDelete`), an insert moves one from the requests to the rows
(`BoundMoves`), other steps only shrink both (`BoundShrinks`).  A try of a code is let through below the limit
by a request that does not count as trying yet, which leaves `CodeCalls` less one for the others.  `AccountInv` adds that a request about to mail a link has one
that is stored (`MailingStored`) and that nothing happens before the account exists (`NobodyYet`), without which
a registration could add to links that are there.

**`ServicesProofs`.** `SessionDatesCorrect`: a request in flight names a row that was inserted, and one that ends a session found it started
(`CallsFound`); both stay true, as no write takes a date away (`Lasting`).  `AnsweredOnceCorrect`: an answer about to be written finds its invitation still
pending or removed (`AnswersOpen`), as the owner's writes do not touch the status.  `DecisionsBoundedCorrect`: a pending item
was never decided (`Undecided`), as no write makes one pending again; so the decisions written and about to be written are by requests that
overlapped from the first on, and each of them is counted once.
`PendingBoundedCorrect` counts as above.

**`DeliveryProofs`.** `CompletedIsToldCorrect`, `RowsBoundedCorrect`: every execution of a job ended in a counted try or a counted stall, but for the one that
holds the job or has completed it (`RunsCounted`), and both are limited (`JobLimits`).  `DevicesReachableCorrect`: whoever
looks for settings of a user goes on until they are there (`SettingsSought`) or fails, which is noted.  `LogsTruthfulCorrect`: a push is
sent by one request (`SendsOnce`) which holds exactly what was received and acknowledged until it writes the log.

**`ContentProofs`.** `StaleBoundedCorrect`: a request holds a version that was current when it began (`ReadersInTime`), and an
entry expires before what it holds is older than a request and the lifetime (`EntriesInTime`).
`EpisodesSoundCorrect`, for any set of video fields: what an update checked is what it will write unless the episode is contested
(`ChecksLast`, `ReadsLast`), since the podcast's type changes only into the exception.
`NothingLostCorrect`: the references are the latest (`References`), and each player that was replaced pays for
itself with a loss of the connection and the join that followed (`ReplacedByDrops`).
`HeardInTimeCorrect`: the schedule never ends later after the last chunk was recorded than a chunk, the
longest way and the reserve on the context's clock (`ScheduleShort`), which never runs ahead of the time; the chunks on the wire and those that
wait are a chunk apart (`ChunksApart`), and those on the wire no older than the longest way (`ChunksYoung`).

Every invariant and every step property that a passing run checks is proved, and both refinements.

**Only model-checked:** `AutoEnds`, `JobsEnd` and `SwitchingEnds`: liveness under fairness is out of the prover's reach.  So are
the three statements of the pages that the code does not keep, which are refuted by a behaviour and need no proof.

## 5. Abstractions

* `startStream` starts the recorder and sets the timer without waiting for anything in between: one step (`Arm`).
  `maxDuration` is at least 60 or defaulted, so that there is always a timer.
* At most one `endStream` called by a timer is in flight at a time (`Timeout`); other due timers fire later.
* A failing write between `Stop` and `WriteEnded` leaves a LIVE stream without timer, and so does a resume that overlaps an end; `AutoEndArmed`
  is claimed with neither.
* `deleteStream` uses two delegates that the Prisma client does not have (`streamListener`, `streamRoom`), so that it
  always throws before it deletes; it is not an action.
* `saveStatsSnapshot`, listings and getters only append measurements or read.
* Applications: the expiry of tokens only disables submissions; sending and checking a one-time code is one
  step that gives the token, taken when the phone was found free; rows of one tenant; a deleted row
  loses phone and email.  Deleting a user is not modelled, see the hazards.
* A one-time code is its row's id: who types the right code types the id.  Hashing and formatting of phones are left out.
* The phone login hands out tokens without storing the hash of the refresh token; of the session it is left out.
  `admin:`'s reset page sends `password` where the backend expects `newPassword`; `ResetPassword` is the backend's operation.
* Samples are chunks of equal length; the two audio clocks run at the same rate (apart from suspensions).  Volume, mute, waveform and the
  play button of the pages have no effect on what is modelled.
* Firebase, BullMQ and Socket.IO are modelled from how the code uses them and marked external.
* Reasons and priorities of the moderation queue, publication dates, tags and progress of rows guard nothing and are left out.
  A podcast whose initial episode could not be inserted stays without one, as in the code.

## 6. Not modelled

* `host-join`, `host-leave` and `stream-status` of the gateway: `WsAuthGuard` reads the header, the page sends its token in
  the handshake's `auth`, so that the guard refuses them and the statistics interval never starts.
* `broadcastStreamStatus`, `RssService.invalidateCache` and the older API's `RoomService` and `ChatService` have no caller.
* `SchedulingService.scheduleEpisode` inserts without the `tenantId` the schema requires, so that no row
  ever comes from it, and the publication job has nothing to publish but seeded rows.  A push that is
  scheduled stays `QUEUED`, which `PushDelivery` shows; no job sends it.
* Single-row operations and queries, in which nothing depends on an order: users, profiles, categories, comments, reviews,
  collections, analytics, audit, search, recommendations, most pages of the admin application.
* I/O: uploads, FFmpeg's files, the mail, SMS and push providers; configuration and deployment.
* The mobile application and the shared packages, which only call the interface.

What would come next, in this order: two reviewers of one application, and two devices of one guest, with bounds in place of the
assumption that there is one; a socket that joins a second stream in a run of its own; the progress of a listener with several devices; the collections, whose inserts the unique constraints decide.
