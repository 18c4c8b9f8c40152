------------------------------ MODULE Broadcast ------------------------------
(***************************************************************************)
(* The life of a host's live streams as the guards of LiveStreamService    *)
(* describe it.  A worker - a request, or the endStream of a timer -       *)
(* decides on the status it reads and carries its plan out at some later   *)
(* time, whatever the other workers did meanwhile, or never.  A recording  *)
(* is published by a worker that has ended its stream, and only once.      *)
(***************************************************************************)
CONSTANTS Streams,   \* the streams one host ever creates
          Workers,   \* whoever may carry out an operation
          NoPlan

VARIABLES status,    \* status of each stream, "NONE" before it exists
          published, \* the streams that have become a podcast
          plan       \* what each worker is about to do

vars == <<status, published, plan>>

Active == {"SCHEDULED", "PREPARING", "LIVE", "PAUSED"}

(* The statuses an operation may lead to from each status. *)
Allowed == [NONE |-> {},
            SCHEDULED |-> {"LIVE", "CANCELLED"},
            PREPARING |-> {"LIVE", "CANCELLED"},
            LIVE |-> {"PAUSED", "ENDED"},
            PAUSED |-> {"LIVE", "ENDED"},
            ENDED |-> {},
            CANCELLED |-> {}]

Plan(to, st) == [to |-> to, stream |-> st]
Creation == Plan("NEW", NoPlan)

Init ==
  /\ status = [st \in Streams |-> "NONE"]
  /\ published = {}
  /\ plan = [w \in Workers |-> NoPlan]

Adopt(w, new) == plan' = [plan EXCEPT ![w] = new]

(* A host without an active stream may create one. *)
DecideCreation(w) ==
  /\ plan[w] = NoPlan
  /\ \A st \in Streams : status[st] \notin Active
  /\ Adopt(w, Creation)
  /\ UNCHANGED <<status, published>>

Decide(w, st, to) ==
  /\ plan[w] = NoPlan
  /\ to \in Allowed[status[st]]
  /\ Adopt(w, Plan(to, st))
  /\ UNCHANGED <<status, published>>

Create(w, st) ==
  /\ plan[w] = Creation
  /\ status[st] = "NONE"
  /\ \E new \in {"SCHEDULED", "PREPARING"} : status' = [status EXCEPT ![st] = new]
  /\ Adopt(w, NoPlan)
  /\ UNCHANGED published

(* Who has ended a stream may go on to publish it. *)
Operate(w, st, to) ==
  /\ plan[w] = Plan(to, st)
  /\ status' = [status EXCEPT ![st] = to]
  /\ Adopt(w, NoPlan) \/ (to = "ENDED" /\ Adopt(w, Plan("PODCAST", st)))
  /\ UNCHANGED published

Publish(w, st) ==
  /\ plan[w] = Plan("PODCAST", st)
  /\ st \notin published
  /\ published' = published \cup {st}
  /\ Adopt(w, NoPlan)
  /\ UNCHANGED status

(* Plans come to nothing, one or all. *)
Drop(w) == UNCHANGED <<status, published>> /\ Adopt(w, NoPlan)
DropAll == UNCHANGED <<status, published>> /\ plan' = [w \in Workers |-> NoPlan]

Next ==
  \/ \E w \in Workers : Drop(w) \/ DecideCreation(w)
  \/ \E w \in Workers, st \in Streams :
       \/ Create(w, st) \/ Publish(w, st)
       \/ \E to \in {"LIVE", "PAUSED", "ENDED", "CANCELLED"} : Decide(w, st, to) \/ Operate(w, st, to)
  \/ DropAll

Spec == Init /\ [][Next]_vars
==============================================================================
