--------------------------- MODULE StreamingSessions ---------------------------
(***************************************************************************)
(* The sessions of the older streaming API (StreamingService).  A request  *)
(* reads its session in one database call and writes it by its id in       *)
(* another; requests of the host and of administrators overlap.            *)
(***************************************************************************)
CONSTANTS
  Sessions,      \* ids of StreamingSession rows, never used twice
  SessionCalls,  \* identities for the requests in flight (bounds them)
  NoSession

ASSUME StreamingSessionsAssumption == NoSession \notin Sessions

VARIABLES
  session,      \* the rows
  sessionCall   \* updateStatus and delete, in flight

sessionVars == <<session, sessionCall>>

Session == [status : {"none", "SCHEDULED", "LIVE", "ENDED", "CANCELLED", "deleted"},
            started : BOOLEAN, ended : BOOLEAN]
SessionCall == [pc : {"idle", "write", "delete"}, session : Sessions \cup {NoSession},
                to : {"LIVE", "ENDED", "CANCELLED"}]

NewSession == [status |-> "none", started |-> FALSE, ended |-> FALSE]
NoSessionCall == [pc |-> "idle", session |-> NoSession, to |-> "LIVE"]

AllowedTransitions ==
  {<<"SCHEDULED", "LIVE">>, <<"SCHEDULED", "CANCELLED">>, <<"LIVE", "ENDED">>, <<"LIVE", "CANCELLED">>}

SessionExists(s) == session[s].status \notin {"none", "deleted"}

-----------------------------------------------------------------------------
(* Mutation: the start is not dated when a session is created live. *)
CreateUndated(s, status) ==
  /\ session[s].status = "none"
  /\ session' = [session EXCEPT ![s].status = status]
  /\ UNCHANGED sessionCall

CreateSession(s, status) ==
  /\ session[s].status = "none"
  /\ session' = [session EXCEPT ![s] = [status |-> status, started |-> status = "LIVE", ended |-> FALSE]]
  /\ UNCHANGED sessionCall

(* The same status is an answer without a write. *)
UpdateStatus(c, s, to) ==
  /\ sessionCall[c].pc = "idle" /\ SessionExists(s)
  /\ <<session[s].status, to>> \in AllowedTransitions
  /\ sessionCall' = [sessionCall EXCEPT ![c] = [pc |-> "write", session |-> s, to |-> to]]
  /\ UNCHANGED session

DeleteSession(c, s) ==
  /\ sessionCall[c].pc = "idle" /\ SessionExists(s)
  /\ sessionCall' = [sessionCall EXCEPT ![c] = [NoSessionCall EXCEPT !.pc = "delete", !.session = s]]
  /\ UNCHANGED session

(* The write sets one date and leaves the other alone.  A row that was     *)
(* deleted meanwhile is an error.                                          *)
WriteStatus(c) ==
  LET s == sessionCall[c].session
      to == sessionCall[c].to IN
  /\ sessionCall[c].pc = "write"
  /\ session' = IF SessionExists(s)
       THEN [session EXCEPT ![s] = [status |-> to, started |-> @.started \/ to = "LIVE", ended |-> @.ended \/ to # "LIVE"]]
       ELSE session
  /\ sessionCall' = [sessionCall EXCEPT ![c] = NoSessionCall]

DeleteRow(c) ==
  LET s == sessionCall[c].session IN
  /\ sessionCall[c].pc = "delete"
  /\ session' = IF SessionExists(s) THEN [session EXCEPT ![s].status = "deleted"] ELSE session
  /\ sessionCall' = [sessionCall EXCEPT ![c] = NoSessionCall]

SessionsNext ==
  \/ \E s \in Sessions, status \in {"SCHEDULED", "LIVE"} : CreateSession(s, status)
  \/ \E c \in SessionCalls, s \in Sessions :
       \/ \E to \in {"LIVE", "ENDED", "CANCELLED"} : UpdateStatus(c, s, to)
       \/ DeleteSession(c, s)
  \/ \E c \in SessionCalls : WriteStatus(c) \/ DeleteRow(c)

SessionsInit ==
  /\ session = [s \in Sessions |-> NewSession]
  /\ sessionCall = [c \in SessionCalls |-> NoSessionCall]

SessionsSpec == SessionsInit /\ [][SessionsNext]_sessionVars

-----------------------------------------------------------------------------
(* Rows and requests keep their shape. *)
SessionsTypeOK ==
  /\ session \in [Sessions -> Session]
  /\ sessionCall \in [SessionCalls -> SessionCall]

(* Overlapping requests may take a session from any status to any other,   *)
(* past the table of transitions; yet a session that is live or ended was  *)
(* given the date of its start, one that is over that of its end, and one  *)
(* that is scheduled neither.                                              *)
SessionDates ==
  \A s \in Sessions :
    /\ session[s].status \in {"LIVE", "ENDED"} => session[s].started
    /\ session[s].status \in {"ENDED", "CANCELLED"} => session[s].ended
    /\ session[s].status = "SCHEDULED" => ~session[s].started /\ ~session[s].ended
===============================================================================
