------------------------------- MODULE LiveAudio -------------------------------
(***************************************************************************)
(* The voice of the host on its way to one listener.  The host's page      *)
(* sends a chunk of samples whenever its buffer is full, the gateway       *)
(* relays it, and the listener's page schedules it on its AudioContext     *)
(* behind the chunk before.  Chunks arrive in order, none later than       *)
(* MaxDelay, or not at all.  A chunk is named by the time it was recorded, *)
(* and the clocks of both sides run at the same rate, but the one of the   *)
(* AudioContext stands still while the browser keeps it suspended.         *)
(***************************************************************************)
EXTENDS Naturals

CONSTANTS
  Chunk,     \* how long a chunk sounds
  Lead,      \* the reserve for a chunk that comes too late, 50 ms in the code
  MaxDelay,  \* the longest way of a chunk
  MaxTime    \* bounds the currentTime

ASSUME LiveAudioAssumption ==
  Chunk \in Nat \ {0} /\ Lead \in Nat /\ MaxDelay \in Nat /\ MaxTime \in Nat

VARIABLES
  now,           \* the time
  due,           \* when the next chunk is full
  wire,          \* the chunks on their way
  context,       \* the state of the AudioContext
  currentTime,   \* its clock, as far behind now as it was suspended
  waiting,       \* the chunks whose handler awaits its resume, or goes on after it
  nextPlayTime,  \* where the schedule ends
  isFirstChunk,
  last,          \* the chunk that was scheduled last
  played         \* the chunks that were scheduled, with their start

audioVars == <<now, due, wire, context, currentTime, waiting, nextPlayTime, isFirstChunk, last, played>>
scheduleVars == <<nextPlayTime, isFirstChunk, last, played>>

-----------------------------------------------------------------------------
(* Mutation: every chunk gets the reserve. *)
StartTimeBehind == IF isFirstChunk THEN currentTime + Lead ELSE nextPlayTime + Lead

(* onaudioprocess; nothing is sent while the host is not connected. *)
RecordChunk ==
  /\ now = due
  /\ due' = due + Chunk
  /\ wire' = wire \cup {due} \/ UNCHANGED wire
  /\ UNCHANGED <<now, context, currentTime, waiting, scheduleVars>>

(* Once the context runs, the handlers that waited go on one after the     *)
(* other before anything else happens on the page.                         *)
Settled == context = "running" => waiting = {}

(* audio-stream: the first chunk creates the context, and the browser may  *)
(* not let it run before the user does something; the handler of a chunk   *)
(* that finds it suspended awaits its resume.                              *)
ReceiveChunk(c) ==
  /\ Settled
  /\ c \in wire /\ \A d \in wire : c <= d
  /\ wire' = wire \ {c}
  /\ waiting' = waiting \cup {c}
  /\ context' \in IF context = "none" THEN {"suspended", "running"} ELSE {context}
  /\ UNCHANGED <<now, due, currentTime, scheduleVars>>

ContextResumes ==
  /\ context = "suspended" /\ waiting # {}
  /\ context' = "running"
  /\ UNCHANGED <<now, due, wire, currentTime, waiting, scheduleVars>>

ContextSuspends ==
  /\ context = "running" /\ waiting = {}
  /\ context' = "suspended"
  /\ UNCHANGED <<now, due, wire, currentTime, waiting, scheduleVars>>

(* A schedule that has run dry starts again. *)
StartTime == IF isFirstChunk \/ nextPlayTime < currentTime THEN currentTime + Lead ELSE nextPlayTime

(* The rest of the handler. *)
PlayChunk(c) ==
  /\ context = "running"
  /\ c \in waiting /\ \A d \in waiting : c <= d
  /\ waiting' = waiting \ {c}
  /\ played' = played \cup {[said |-> c, start |-> StartTime]}
  /\ nextPlayTime' = StartTime + Chunk
  /\ isFirstChunk' = FALSE
  /\ last' = c
  /\ UNCHANGED <<now, due, wire, context, currentTime>>

(* The listener is not connected. *)
LoseChunk(c) ==
  /\ c \in wire
  /\ wire' = wire \ {c}
  /\ UNCHANGED <<now, due, context, currentTime, waiting, scheduleVars>>

PassTime ==
  /\ now < due /\ now < MaxTime /\ Settled
  /\ \A c \in wire : now < c + MaxDelay
  /\ now' = now + 1
  /\ currentTime' = IF context = "suspended" THEN currentTime ELSE currentTime + 1
  /\ UNCHANGED <<due, wire, context, waiting, scheduleVars>>

AudioNext ==
  \/ RecordChunk \/ PassTime \/ ContextResumes \/ ContextSuspends
  \/ \E c \in wire : ReceiveChunk(c) \/ LoseChunk(c)
  \/ \E c \in waiting : PlayChunk(c)

AudioInit ==
  /\ now = 0 /\ due = Chunk /\ wire = {}
  /\ context = "none" /\ currentTime = 0 /\ waiting = {}
  /\ nextPlayTime = 0 /\ isFirstChunk = TRUE /\ last = 0 /\ played = {}

AudioSpec == AudioInit /\ [][AudioNext]_audioVars

-----------------------------------------------------------------------------
(* The state keeps its shape. *)
AudioTypeOK ==
  /\ now \in Nat /\ due \in Nat /\ wire \subseteq Nat
  /\ context \in {"none", "suspended", "running"} /\ currentTime \in Nat /\ waiting \subseteq Nat
  /\ nextPlayTime \in Nat /\ isFirstChunk \in BOOLEAN /\ last \in Nat
  /\ played \subseteq [said : Nat, start : Nat]

(* Whatever stalls and bursts the network makes, and however often the     *)
(* context was suspended, chunks sound in the order they were spoken, one  *)
(* does not start before the one before has ended, and the delays of the   *)
(* network do not add up: on the clock of the context a chunk starts at    *)
(* most MaxDelay and the reserve after it was recorded, so that it is      *)
(* heard later than that only by the time the context was suspended.  That *)
(* time is never made up for: the chunks that waited are all played.       *)
HeardInTime ==
  /\ \A p \in played : p.said <= p.start + (now - currentTime) /\ p.start <= p.said + MaxDelay + Lead
  /\ \A p, q \in played : p.said < q.said => p.start + Chunk <= q.start
===============================================================================
