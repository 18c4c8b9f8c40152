---------------------------- MODULE ServicesProofs ----------------------------
(***************************************************************************)
(* Proofs about the smaller services: what holds of their rows although    *)
(* every request decides on a row it read in an earlier call.              *)
(***************************************************************************)
EXTENDS StreamingSessions, Collaboration, ModerationQueue, FiniteSetTheorems, TLAPS

-----------------------------------------------------------------------------
(* StreamingSessions.  A request in flight names a row that was inserted,  *)
(* and one that ends a session found it started: both stay true.           *)
CallsFound ==
  \A c \in SessionCalls : sessionCall[c].pc # "idle" =>
    LET s == sessionCall[c].session IN
    /\ s \in Sessions /\ session[s].status # "none"
    /\ sessionCall[c].pc = "write" /\ sessionCall[c].to = "ENDED" => session[s].started

SessionsInv == SessionsTypeOK /\ SessionDates /\ CallsFound

(* A session is only ever added to: dates are not taken back. *)
Lasting ==
  \A s \in Sessions :
    /\ session[s].status # "none" => session'[s].status # "none"
    /\ session[s].status # "none" /\ session[s].started => session'[s].started

LEMMA SessionsInitial == SessionsInit => SessionsInv
BY DEF SessionsInit, SessionsInv, SessionsTypeOK, SessionDates, CallsFound, Session, SessionCall,
       NewSession, NoSessionCall

(* Requests that were in flight are still sound after a step that ends     *)
(* some of them and starts none.                                           *)
LEMMA CallsStayFound ==
  ASSUME SessionsInv, Lasting, SessionsTypeOK',
         \A c \in SessionCalls : sessionCall'[c] = sessionCall[c] \/ sessionCall'[c].pc = "idle"
  PROVE  CallsFound'
BY DEF SessionsInv, SessionsTypeOK, Lasting, CallsFound, Session, SessionCall

LEMMA CreateSessionKeeps ==
  ASSUME SessionsInv, NEW s \in Sessions, NEW status \in {"SCHEDULED", "LIVE"}, CreateSession(s, status)
  PROVE  SessionsInv'
<1> USE DEF SessionsInv, CreateSession
<1>1. PICK row \in Session :
        row.status = status /\ row.started = (status = "LIVE") /\ row.ended = FALSE
        /\ session' = [session EXCEPT ![s] = row]
  <2>1. [status |-> status, started |-> status = "LIVE", ended |-> FALSE] \in Session
    BY DEF Session
  <2> QED BY <2>1
<1>2. SessionsTypeOK'
  BY <1>1 DEF SessionsTypeOK
<1>3. SessionDates'
  BY <1>1 DEF SessionsTypeOK, SessionDates
<1>4. Lasting
  BY <1>1 DEF SessionsTypeOK, Lasting
<1> QED BY <1>2, <1>3, <1>4, CallsStayFound

LEMMA UpdateStatusKeeps ==
  ASSUME SessionsInv, NEW c \in SessionCalls, NEW s \in Sessions, NEW to \in {"LIVE", "ENDED", "CANCELLED"},
         UpdateStatus(c, s, to)
  PROVE  SessionsInv'
<1> USE DEF SessionsInv, UpdateStatus
<1>1. PICK call \in SessionCall :
        call.pc = "write" /\ call.session = s /\ call.to = to
        /\ sessionCall' = [sessionCall EXCEPT ![c] = call]
  <2>1. [pc |-> "write", session |-> s, to |-> to] \in SessionCall
    BY DEF SessionCall
  <2> QED BY <2>1
<1>2. SessionsTypeOK' /\ SessionDates'
  BY <1>1 DEF SessionsTypeOK, SessionDates
<1>3. to = "ENDED" => session[s].status = "LIVE"
  BY DEF AllowedTransitions
<1>4. session[s].status # "none" /\ (to = "ENDED" => session[s].started)
  BY <1>3 DEF SessionDates, SessionExists
<1>5. CallsFound'
  BY <1>1, <1>4 DEF SessionsTypeOK, CallsFound
<1> QED BY <1>2, <1>5

LEMMA DeleteSessionKeeps ==
  ASSUME SessionsInv, NEW c \in SessionCalls, NEW s \in Sessions, DeleteSession(c, s)
  PROVE  SessionsInv'
<1> USE DEF SessionsInv, DeleteSession
<1>1. PICK call \in SessionCall :
        call.pc = "delete" /\ call.session = s
        /\ sessionCall' = [sessionCall EXCEPT ![c] = call]
  <2>1. [NoSessionCall EXCEPT !.pc = "delete", !.session = s] \in SessionCall
    BY DEF SessionCall, NoSessionCall
  <2> QED BY <2>1 DEF NoSessionCall
<1>2. SessionsTypeOK' /\ SessionDates'
  BY <1>1 DEF SessionsTypeOK, SessionDates
<1>3. CallsFound'
  BY <1>1 DEF SessionsTypeOK, CallsFound, SessionExists
<1> QED BY <1>2, <1>3

LEMMA WriteStatusKeeps == ASSUME SessionsInv, NEW c \in SessionCalls, WriteStatus(c) PROVE SessionsInv'
<1> USE DEF SessionsInv, WriteStatus
<1>1. PICK s \in Sessions : s = sessionCall[c].session
  BY DEF CallsFound
<1>2. PICK to \in {"LIVE", "ENDED", "CANCELLED"} : to = sessionCall[c].to
  BY DEF SessionsTypeOK, SessionCall
<1>3. PICK row \in Session :
        /\ row.status = to
        /\ row.started = (session[s].started \/ to = "LIVE") /\ row.ended = (session[s].ended \/ to # "LIVE")
        /\ session' = [session EXCEPT ![s] = row] \/ session' = session
  <2>1. [status |-> to, started |-> session[s].started \/ to = "LIVE",
         ended |-> session[s].ended \/ to # "LIVE"] \in Session
    BY DEF Session
  <2> QED BY <1>1, <1>2, <2>1 DEF SessionsTypeOK
<1>4. to = "ENDED" => session[s].started
  BY <1>1, <1>2 DEF CallsFound
<1>5. \A d \in SessionCalls : sessionCall'[d] = sessionCall[d] \/ sessionCall'[d].pc = "idle"
  BY DEF SessionsTypeOK, NoSessionCall
<1>6. SessionsTypeOK'
  <2>1. NoSessionCall \in SessionCall
    BY DEF SessionCall, NoSessionCall
  <2> QED BY <1>3, <2>1 DEF SessionsTypeOK
<1>7. SessionDates'
  <2>1. row.status \in {"LIVE", "ENDED"} => row.started
    BY <1>3, <1>4
  <2>2. row.status # "LIVE" => row.ended
    BY <1>3
  <2>3. \A t \in Sessions : session'[t] = session[t] \/ session'[t] = row
    BY <1>3 DEF SessionsTypeOK
  <2>4. row.status \in {"LIVE", "ENDED", "CANCELLED"}
    BY <1>3
  <2> HIDE DEF WriteStatus
  <2> QED BY <2>1, <2>2, <2>3, <2>4 DEF SessionDates
<1>8. Lasting
  BY <1>3 DEF SessionsTypeOK, Lasting
<1> QED BY <1>5, <1>6, <1>7, <1>8, CallsStayFound

LEMMA DeleteRowKeeps == ASSUME SessionsInv, NEW c \in SessionCalls, DeleteRow(c) PROVE SessionsInv'
<1> USE DEF SessionsInv, DeleteRow
<1>1. PICK s \in Sessions : s = sessionCall[c].session
  BY DEF CallsFound
<1>2. PICK row \in Session :
        /\ row.status = "deleted" /\ row.started = session[s].started
        /\ session' = [session EXCEPT ![s] = row] \/ session' = session
  <2>1. [session[s] EXCEPT !.status = "deleted"] \in Session
    BY DEF SessionsTypeOK, Session
  <2>2. session' = [session EXCEPT ![s] = [session[s] EXCEPT !.status = "deleted"]] \/ session' = session
    BY <1>1
  <2> QED BY <2>1, <2>2 DEF SessionsTypeOK, Session
<1>3. \A d \in SessionCalls : sessionCall'[d] = sessionCall[d] \/ sessionCall'[d].pc = "idle"
  BY DEF SessionsTypeOK, NoSessionCall
<1>4. SessionsTypeOK'
  <2>1. NoSessionCall \in SessionCall
    BY DEF SessionCall, NoSessionCall
  <2> QED BY <1>2, <2>1 DEF SessionsTypeOK
<1>5. SessionDates'
  BY <1>2 DEF SessionsTypeOK, SessionDates
<1>6. Lasting
  BY <1>2 DEF SessionsTypeOK, Lasting
<1> QED BY <1>3, <1>4, <1>5, <1>6, CallsStayFound

(* However updates and deletions of a session overlap, a session that is   *)
(* live or ended has the date of its start, one that is over that of its   *)
(* end (StreamingService.updateStatus).                                    *)
THEOREM SessionDatesCorrect == SessionsSpec => []SessionDates
<1>1. SessionsInv /\ [SessionsNext]_sessionVars => SessionsInv'
  <2> SUFFICES ASSUME SessionsInv, [SessionsNext]_sessionVars PROVE SessionsInv'
    OBVIOUS
  <2>1. CASE \E s \in Sessions, status \in {"SCHEDULED", "LIVE"} : CreateSession(s, status)
    BY <2>1, CreateSessionKeeps
  <2>2. CASE \E c \in SessionCalls, s \in Sessions :
               \E to \in {"LIVE", "ENDED", "CANCELLED"} : UpdateStatus(c, s, to)
    BY <2>2, UpdateStatusKeeps
  <2>3. CASE \E c \in SessionCalls, s \in Sessions : DeleteSession(c, s)
    BY <2>3, DeleteSessionKeeps
  <2>4. CASE \E c \in SessionCalls : WriteStatus(c)
    BY <2>4, WriteStatusKeeps
  <2>5. CASE \E c \in SessionCalls : DeleteRow(c)
    BY <2>5, DeleteRowKeeps
  <2>6. CASE UNCHANGED sessionVars
    BY <2>6 DEF sessionVars, SessionsInv, SessionsTypeOK, SessionDates, CallsFound
  <2> QED BY <2>1, <2>2, <2>3, <2>4, <2>5, <2>6 DEF SessionsNext
<1>2. SessionsInv => SessionDates
  BY DEF SessionsInv
<1> QED BY <1>1, <1>2, SessionsInitial, PTL DEF SessionsSpec
-----------------------------------------------------------------------------
(* Collaboration.  While the answer of a guest is in flight the invitation *)
(* it is about is his, and not answered yet: nobody else answers it.       *)
AnswersOpen ==
  /\ \A g \in Guests : answer[g].pc = "write" =>
       LET i == answer[g].row IN
       /\ i \in Invitations /\ invitation[i].guest = g /\ invitation[i].status # "none"
       /\ answer[g].to # "deleted" => invitation[i].status \in {"PENDING", "deleted"}
  /\ \A c \in OwnerCalls :
       /\ owner[c].pc \in {"update", "remove"} => owner[c].row \in Invitations
       /\ owner[c].pc = "invite" => owner[c].guest \in Guests

CollaborationInv == CollaborationTypeOK /\ AnswersOpen

LEMMA CollaborationInitial == CollaborationInit => CollaborationInv
BY DEF CollaborationInit, CollaborationInv, CollaborationTypeOK, AnswersOpen, Invitation, OwnerCall, Answer,
       NoInvitation, NoOwnerCall, NoAnswer

(* A step leaves answered invitations alone or removes them. *)
AnswerFinal ==
  \A i \in Invitations :
    invitation[i].status \in {"ACCEPTED", "REJECTED"} =>
      invitation'[i].status \in {invitation[i].status, "deleted"}

(* What a step of the owner may do to a row. *)
OwnerMay(i) ==
  \/ invitation'[i] = invitation[i]
  \/ invitation[i].status = "none" /\ invitation'[i].status = "PENDING"
  \/ /\ invitation'[i].guest = invitation[i].guest
     /\ invitation'[i].status \in {invitation[i].status, "deleted"}
     /\ invitation[i].status # "none"

(* The answers in flight survive every step of the owner. *)
LEMMA OwnerKeepsAnswers ==
  ASSUME CollaborationInv, answer' = answer, \A i \in Invitations : OwnerMay(i), CollaborationTypeOK',
         \A c \in OwnerCalls : owner'[c] = owner[c] \/ owner'[c].pc = "idle"
  PROVE  CollaborationInv' /\ AnswerFinal
<1>1. AnswersOpen'
  BY DEF CollaborationInv, AnswersOpen, OwnerMay
<1>2. AnswerFinal
  BY DEF OwnerMay, AnswerFinal
<1> QED BY <1>1, <1>2 DEF CollaborationInv

LEMMA OwnerBeginsKeeps ==
  ASSUME CollaborationInv, NEW c \in OwnerCalls, NEW call \in OwnerCall,
         call.pc \in {"update", "remove"} => call.row \in Invitations,
         call.pc = "invite" => call.guest \in Guests,
         owner' = [owner EXCEPT ![c] = call], UNCHANGED <<invitation, answer>>
  PROVE  CollaborationInv' /\ AnswerFinal
<1>1. CollaborationTypeOK'
  BY DEF CollaborationInv, CollaborationTypeOK
<1>2. AnswersOpen'
  BY DEF CollaborationInv, CollaborationTypeOK, AnswersOpen
<1> QED BY <1>1, <1>2 DEF CollaborationInv, AnswerFinal

LEMMA InviteKeeps ==
  ASSUME CollaborationInv, NEW c \in OwnerCalls, NEW g \in Guests, NEW role \in {"CONTRIBUTOR", "EDITOR"},
         Invite(c, g, role)
  PROVE  CollaborationInv' /\ AnswerFinal
<1> DEFINE call == [pc |-> "invite", row |-> NoOne, guest |-> g, role |-> role]
<1>1. call \in OwnerCall
  BY DEF OwnerCall
<1> QED BY <1>1, OwnerBeginsKeeps DEF Invite

LEMMA UpdateCollaboratorKeeps ==
  ASSUME CollaborationInv, NEW c \in OwnerCalls, NEW i \in Invitations, NEW role \in {"CONTRIBUTOR", "EDITOR"},
         UpdateCollaborator(c, i, role)
  PROVE  CollaborationInv' /\ AnswerFinal
<1> DEFINE call == [pc |-> "update", row |-> i, guest |-> NoOne, role |-> role]
<1>1. call \in OwnerCall
  BY DEF OwnerCall
<1> QED BY <1>1, OwnerBeginsKeeps DEF UpdateCollaborator

LEMMA RemoveCollaboratorKeeps ==
  ASSUME CollaborationInv, NEW c \in OwnerCalls, NEW i \in Invitations, RemoveCollaborator(c, i)
  PROVE  CollaborationInv' /\ AnswerFinal
<1> DEFINE call == [NoOwnerCall EXCEPT !.pc = "remove", !.row = i]
<1>1. call \in OwnerCall /\ call.pc = "remove" /\ call.row = i
  BY DEF OwnerCall, NoOwnerCall
<1> QED BY <1>1, OwnerBeginsKeeps DEF RemoveCollaborator

LEMMA CreateInvitationKeeps ==
  ASSUME CollaborationInv, NEW c \in OwnerCalls, CreateInvitation(c)
  PROVE  CollaborationInv' /\ AnswerFinal
<1> USE DEF CreateInvitation
<1>1. PICK call \in OwnerCall : call = owner[c] /\ call.pc = "invite" /\ call.guest \in Guests
  BY DEF CollaborationInv, CollaborationTypeOK, AnswersOpen
<1>2. [status |-> "PENDING", guest |-> call.guest, role |-> call.role] \in Invitation
  BY <1>1 DEF OwnerCall, Invitation
<1>3. NoOwnerCall \in OwnerCall
  BY DEF OwnerCall, NoOwnerCall
<1>4. \/ invitation' = invitation
      \/ \E i \in Invitations :
           /\ invitation[i].status = "none"
           /\ invitation' = [invitation EXCEPT ![i] =
                [status |-> "PENDING", guest |-> call.guest, role |-> call.role]]
  BY <1>1
<1>5. CollaborationTypeOK'
  BY <1>2, <1>3, <1>4 DEF CollaborationInv, CollaborationTypeOK
<1>6. \A i \in Invitations : OwnerMay(i)
  BY <1>4 DEF CollaborationInv, CollaborationTypeOK, OwnerMay
<1>7. \A d \in OwnerCalls : owner'[d] = owner[d] \/ owner'[d].pc = "idle"
  BY DEF CollaborationInv, CollaborationTypeOK, NoOwnerCall
<1> QED BY <1>5, <1>6, <1>7, OwnerKeepsAnswers

LEMMA WriteOwnerKeeps ==
  ASSUME CollaborationInv, NEW c \in OwnerCalls, WriteOwner(c)
  PROVE  CollaborationInv' /\ AnswerFinal
<1> USE DEF WriteOwner
<1>1. PICK call \in OwnerCall : call = owner[c] /\ call.pc \in {"update", "remove"} /\ call.row \in Invitations
  BY DEF CollaborationInv, CollaborationTypeOK, AnswersOpen
<1>2. PICK i \in Invitations : i = call.row
  BY <1>1
<1>3. PICK row \in Invitation :
        /\ row.guest = invitation[i].guest /\ row.status \in {invitation[i].status, "deleted"}
        /\ invitation' = invitation \/ (Present(i) /\ invitation' = [invitation EXCEPT ![i] = row])
  <2>0. invitation[i] \in Invitation
    BY DEF CollaborationInv, CollaborationTypeOK
  <2>1. CASE ~Present(i)
    BY <1>1, <1>2, <2>0, <2>1
  <2>2. CASE Present(i) /\ call.pc = "remove"
    <3>1. [invitation[i] EXCEPT !.status = "deleted"] \in Invitation
      BY <2>0 DEF Invitation
    <3>2. invitation' = [invitation EXCEPT ![i] = [invitation[i] EXCEPT !.status = "deleted"]]
      BY <1>1, <1>2, <2>2
    <3> QED BY <2>0, <2>2, <3>1, <3>2 DEF Invitation
  <2>3. CASE Present(i) /\ call.pc = "update"
    <3>1. [invitation[i] EXCEPT !.role = call.role] \in Invitation
      BY <1>1, <2>0 DEF Invitation, OwnerCall
    <3>2. invitation' = [invitation EXCEPT ![i] = [invitation[i] EXCEPT !.role = call.role]]
      BY <1>1, <1>2, <2>3
    <3> QED BY <2>0, <2>3, <3>1, <3>2 DEF Invitation
  <2> QED BY <1>1, <2>1, <2>2, <2>3
<1>4. CollaborationTypeOK'
  <2>1. NoOwnerCall \in OwnerCall
    BY DEF OwnerCall, NoOwnerCall
  <2> QED BY <1>3, <2>1 DEF CollaborationInv, CollaborationTypeOK
<1>5. \A j \in Invitations : OwnerMay(j)
  BY <1>3 DEF CollaborationInv, CollaborationTypeOK, OwnerMay, Present
<1>6. \A d \in OwnerCalls : owner'[d] = owner[d] \/ owner'[d].pc = "idle"
  BY DEF CollaborationInv, CollaborationTypeOK, NoOwnerCall
<1> QED BY <1>4, <1>5, <1>6, OwnerKeepsAnswers

(* A guest answers an invitation that is pending and leaves one that is    *)
(* there.                                                                  *)
LEMMA GuestBeginsKeeps ==
  ASSUME CollaborationInv, NEW g \in Guests, NEW i \in Invitations, NEW to \in {"ACCEPTED", "REJECTED", "deleted"},
         invitation[i].guest = g, invitation[i].status # "none",
         to # "deleted" => invitation[i].status = "PENDING",
         answer' = [answer EXCEPT ![g] = [pc |-> "write", row |-> i, to |-> to]], UNCHANGED <<invitation, owner>>
  PROVE  CollaborationInv' /\ AnswerFinal
<1>1. [pc |-> "write", row |-> i, to |-> to] \in Answer
  BY DEF Answer
<1>2. CollaborationTypeOK'
  BY <1>1 DEF CollaborationInv, CollaborationTypeOK
<1>3. AnswersOpen'
  BY DEF CollaborationInv, CollaborationTypeOK, AnswersOpen
<1> QED BY <1>2, <1>3 DEF CollaborationInv, AnswerFinal

LEMMA WriteAnswerKeeps ==
  ASSUME CollaborationInv, NEW g \in Guests, WriteAnswer(g)
  PROVE  CollaborationInv' /\ AnswerFinal
<1> USE DEF WriteAnswer
<1>1. PICK i \in Invitations : i = answer[g].row /\ invitation[i].guest = g
  BY DEF CollaborationInv, AnswersOpen
<1>2. PICK to \in {"ACCEPTED", "REJECTED", "deleted"} : to = answer[g].to
  BY DEF CollaborationInv, CollaborationTypeOK, Answer
<1>3. to # "deleted" => invitation[i].status \in {"PENDING", "deleted"}
  BY <1>1, <1>2 DEF CollaborationInv, AnswersOpen
<1>4. PICK row \in Invitation :
        /\ row.guest = g /\ row.status = to
        /\ invitation' = invitation \/ (Present(i) /\ invitation' = [invitation EXCEPT ![i] = row])
  <2>1. invitation[i] \in Invitation
    BY DEF CollaborationInv, CollaborationTypeOK
  <2>2. [invitation[i] EXCEPT !.status = to] \in Invitation
    BY <2>1 DEF Invitation
  <2>3. invitation' = invitation
          \/ (Present(i) /\ invitation' = [invitation EXCEPT ![i] = [invitation[i] EXCEPT !.status = to]])
    BY <1>1, <1>2
  <2> QED BY <1>1, <2>1, <2>2, <2>3 DEF Invitation
<1>5. CollaborationTypeOK'
  <2>1. NoAnswer \in Answer
    BY DEF Answer, NoAnswer
  <2> QED BY <1>4, <2>1 DEF CollaborationInv, CollaborationTypeOK
<1>6. AnswerFinal
  BY <1>3, <1>4 DEF CollaborationInv, CollaborationTypeOK, AnswerFinal, Present
<1>7. AnswersOpen'
  <2>1. \A h \in Guests : answer'[h] = answer[h] \/ answer'[h].pc = "idle"
    BY DEF CollaborationInv, CollaborationTypeOK, NoAnswer
  <2>2. answer'[g].pc = "idle"
    BY DEF CollaborationInv, CollaborationTypeOK, NoAnswer
  <2>3. \A j \in Invitations : invitation'[j] = invitation[j] \/ (j = i /\ invitation'[j] = row)
    BY <1>4 DEF CollaborationInv, CollaborationTypeOK
  <2>4. \A h \in Guests : answer'[h].pc = "write" =>
          answer[h].pc = "write" /\ answer'[h] = answer[h] /\ answer[h].row # i
    BY <1>1, <2>1, <2>2 DEF CollaborationInv, AnswersOpen
  <2>5. owner' = owner
    OBVIOUS
  <2> HIDE DEF WriteAnswer
  <2>6. ASSUME NEW h \in Guests, answer'[h].pc = "write"
        PROVE  invitation'[answer[h].row] = invitation[answer[h].row]
    BY <2>3, <2>4, <2>6 DEF CollaborationInv, AnswersOpen
  <2> QED BY <2>4, <2>5, <2>6 DEF CollaborationInv, AnswersOpen
<1> QED BY <1>5, <1>6, <1>7 DEF CollaborationInv

LEMMA CollaborationStep ==
  ASSUME CollaborationInv, [CollaborationNext]_collaborationVars
  PROVE  CollaborationInv' /\ AnswerFinal
<1>1. CASE \E c \in OwnerCalls, g \in Guests, role \in {"CONTRIBUTOR", "EDITOR"} : Invite(c, g, role)
  BY <1>1, InviteKeeps
<1>2. CASE \E c \in OwnerCalls : CreateInvitation(c) \/ WriteOwner(c)
  BY <1>2, CreateInvitationKeeps, WriteOwnerKeeps
<1>3. CASE \E c \in OwnerCalls, i \in Invitations :
             (\E role \in {"CONTRIBUTOR", "EDITOR"} : UpdateCollaborator(c, i, role)) \/ RemoveCollaborator(c, i)
  BY <1>3, UpdateCollaboratorKeeps, RemoveCollaboratorKeeps
<1>4. CASE \E g \in Guests, i \in Invitations, to \in {"ACCEPTED", "REJECTED"} : AnswerInvitation(g, i, to)
  BY <1>4, GuestBeginsKeeps DEF AnswerInvitation
<1>5. CASE \E g \in Guests, i \in Invitations : Leave(g, i)
  BY <1>5, GuestBeginsKeeps DEF Leave, Present
<1>6. CASE \E g \in Guests : WriteAnswer(g)
  BY <1>6, WriteAnswerKeeps
<1>7. CASE UNCHANGED collaborationVars
  BY <1>7 DEF collaborationVars, CollaborationInv, CollaborationTypeOK, AnswersOpen, AnswerFinal
<1> QED BY <1>1, <1>2, <1>3, <1>4, <1>5, <1>6, <1>7 DEF CollaborationNext

(* Whatever the owner does to an invitation, the answer of a guest who     *)
(* sends one request at a time is final until the row is removed           *)
(* (CollaborationService.accept and reject).                               *)
THEOREM AnsweredOnceCorrect == CollaborationSpec => AnsweredOnce
<1>1. CollaborationInv /\ [CollaborationNext]_collaborationVars => CollaborationInv'
  BY CollaborationStep
<1>2. CollaborationInv /\ [CollaborationNext]_collaborationVars => [AnswerFinal]_collaborationVars
  BY CollaborationStep
<1>3. CollaborationSpec => [][AnswerFinal]_collaborationVars
  BY <1>1, <1>2, CollaborationInitial, PTL DEF CollaborationSpec
<1> QED BY <1>3 DEF AnsweredOnce, AnswerFinal

-----------------------------------------------------------------------------
(* ModerationQueue.  A request of a moderator names a row that was         *)
(* inserted.                                                               *)
ReviewsFound ==
  \A m \in Moderators : reviewing[m].pc = "write" => reviewing[m].item \in Items /\ item[reviewing[m].item] # "none"

(* No row that was decided is pending again. *)
Undecided == \A i \in Items : item[i] \in {"none", "PENDING"} => decided[i] = 0

ModerationInv == ModerationTypeOK /\ ReviewsFound
DecisionInv == ModerationInv /\ Undecided /\ DecisionsBounded

LEMMA ModerationInitial == ModerationInit => ModerationInv /\ Undecided
BY DEF ModerationInit, ModerationInv, ModerationTypeOK, ReviewsFound, Undecided, Found, Reviewing, ItemStatus,
       NotReporting, NotReviewing

(* The steps of a report leave the moderators' requests and every row that *)
(* is there alone.                                                         *)
LEMMA ReportKeeps ==
  ASSUME ModerationInv, NEW r \in Reporters, FindReported(r) \/ AddReason(r) \/ CreateItem(r)
  PROVE  /\ ModerationInv' /\ UNCHANGED <<reviewing, decided>>
         /\ \A i \in Items : item'[i] = item[i] \/ (item[i] = "none" /\ item'[i] = "PENDING")
<1> USE DEF ModerationInv, ModerationTypeOK
<1>1. NotReporting \in Found /\ \A i \in Items \cup {NoItem} : [pc |-> "create", item |-> NoItem] \in Found
                                    /\ [pc |-> "update", item |-> i] \in Found
  BY DEF Found, NotReporting
<1>2. UNCHANGED <<reviewing, decided>> /\ found' \in [Reporters -> Found]
  <2>1. UNCHANGED <<reviewing, decided>>
    BY DEF FindReported, AddReason, CreateItem
  <2>2. found' \in [Reporters -> Found]
    BY <1>1 DEF FindReported, AddReason, CreateItem, Pending
  <2> QED BY <2>1, <2>2
<1>3. \/ item' = item
      \/ \E i \in Items : item[i] = "none" /\ item' = [item EXCEPT ![i] = "PENDING"]
  BY DEF FindReported, AddReason, CreateItem
<1>4. item' \in [Items -> ItemStatus]
  BY <1>3 DEF ItemStatus
<1>5. \A i \in Items : item'[i] = item[i] \/ (item[i] = "none" /\ item'[i] = "PENDING")
  BY <1>3
<1>6. ReviewsFound'
  BY <1>2, <1>5 DEF ReviewsFound
<1> QED BY <1>2, <1>4, <1>5, <1>6

LEMMA ReviewBegins ==
  ASSUME ModerationInv, NEW m \in Moderators, NEW i \in Items,
         \/ \E to \in Decisions : Moderate(m, i, to)
         \/ Escalate(m, i) \/ DeleteItem(m, i)
  PROVE  /\ ModerationInv' /\ UNCHANGED <<item, found, decided>> /\ reviewing[m].pc = "idle"
         /\ \E to \in {"ESCALATED", "deleted"} \cup Decisions :
              /\ reviewing' = [reviewing EXCEPT ![m] = [pc |-> "write", item |-> i, to |-> to]]
              /\ to \in Decisions => item[i] = "PENDING"
<1> USE DEF ModerationInv, ModerationTypeOK
<1>1. PICK to \in {"ESCALATED", "deleted"} \cup Decisions :
        /\ reviewing' = [reviewing EXCEPT ![m] = [pc |-> "write", item |-> i, to |-> to]]
        /\ to \in Decisions => item[i] = "PENDING"
        /\ item[i] # "none" /\ reviewing[m].pc = "idle" /\ UNCHANGED <<item, found, decided>>
  BY DEF Moderate, Escalate, DeleteItem, Exists, Decisions
<1>2. [pc |-> "write", item |-> i, to |-> to] \in Reviewing
  BY DEF Reviewing
<1>3. ModerationTypeOK'
  BY <1>1, <1>2
<1>4. ReviewsFound'
  BY <1>1 DEF ReviewsFound
<1> QED BY <1>1, <1>3, <1>4

LEMMA ReviewEnds ==
  ASSUME ModerationInv, NEW m \in Moderators, WriteReview(m)
  PROVE  /\ ModerationInv' /\ found' = found /\ reviewing' = [reviewing EXCEPT ![m] = NotReviewing]
         /\ \A i \in Items : item'[i] = item[i] \/ (i = reviewing[m].item /\ Exists(i) /\ item'[i] = reviewing[m].to)
<1> USE DEF ModerationInv, ModerationTypeOK, WriteReview
<1>1. PICK i \in Items : i = reviewing[m].item
  BY DEF ReviewsFound
<1>2. PICK to \in {"ESCALATED", "deleted"} \cup Decisions : to = reviewing[m].to
  BY DEF Reviewing
<1>3. item' = item \/ (Exists(i) /\ item' = [item EXCEPT ![i] = to])
  BY <1>1, <1>2
<1>4. NotReviewing \in Reviewing
  BY DEF NotReviewing, Reviewing
<1>5. ModerationTypeOK'
  <2>1. item' \in [Items -> ItemStatus]
    BY <1>3 DEF ItemStatus
  <2>2. decided' \in [Items -> Nat]
    <3>1. decided \in [Items -> Nat] /\ decided[i] + 1 \in Nat
      OBVIOUS
    <3> HIDE DEF ModerationInv
    <3>2. decided' = decided \/ decided' = [decided EXCEPT ![i] = decided[i] + 1]
      BY <1>1, <3>1
    <3> QED BY <3>1, <3>2
  <2> QED BY <1>4, <2>1, <2>2
<1>6. \A j \in Items : item'[j] = item[j] \/ (j = i /\ Exists(j) /\ item'[j] = to)
  BY <1>3
<1>7. \A n \in Moderators : reviewing'[n] = reviewing[n] \/ reviewing'[n].pc = "idle"
  BY DEF NotReviewing
<1>9. ReviewsFound'
  <2>1. to # "none"
    BY DEF Decisions
  <2> HIDE DEF WriteReview
  <2> QED BY <1>6, <1>7, <2>1 DEF ReviewsFound
<1> QED BY <1>1, <1>2, <1>5, <1>6, <1>9

LEMMA DecidingFinite ==
  /\ Cardinality(Moderators) \in Nat
  /\ \A i \in Items : /\ IsFiniteSet(Deciding(i)) /\ Cardinality(Deciding(i)) \in Nat
                      /\ Cardinality(Deciding(i)) <= Cardinality(Moderators)
                      /\ \A m \in Deciding(i) :
                           /\ Cardinality(Deciding(i) \ {m}) = Cardinality(Deciding(i)) - 1
                           /\ Cardinality(Deciding(i) \ {m}) \in Nat
BY ModerationQueueAssumption, FS_Subset, FS_CardinalityType, FS_RemoveElement DEF Deciding

LEMMA ReportDecides ==
  ASSUME DecisionInv, NEW r \in Reporters, FindReported(r) \/ AddReason(r) \/ CreateItem(r)
  PROVE  DecisionInv'
<1>1. /\ ModerationInv' /\ UNCHANGED <<reviewing, decided>>
      /\ \A i \in Items : item'[i] = item[i] \/ (item[i] = "none" /\ item'[i] = "PENDING")
  BY ReportKeeps DEF DecisionInv
<1>2. Undecided'
  BY <1>1 DEF DecisionInv, Undecided
<1>3. DecisionsBounded'
  BY <1>1 DEF DecisionInv, DecisionsBounded, Deciding
<1> QED BY <1>1, <1>2, <1>3 DEF DecisionInv

(* Whoever is about to decide an item found it pending: if that is now, it *)
(* was never decided, and only the requests in flight count.               *)
LEMMA ReviewDecides ==
  ASSUME DecisionInv, NEW m \in Moderators, NEW i \in Items,
         \/ \E to \in Decisions : Moderate(m, i, to)
         \/ Escalate(m, i) \/ DeleteItem(m, i)
  PROVE  DecisionInv'
<1>1. PICK to \in {"ESCALATED", "deleted"} \cup Decisions :
        /\ ModerationInv' /\ UNCHANGED <<item, found, decided>> /\ reviewing[m].pc = "idle"
        /\ reviewing' = [reviewing EXCEPT ![m] = [pc |-> "write", item |-> i, to |-> to]]
        /\ to \in Decisions => item[i] = "PENDING"
  BY ReviewBegins DEF DecisionInv
<1>2. Undecided'
  BY <1>1 DEF DecisionInv, Undecided
<1>3. /\ reviewing \in [Moderators -> Reviewing]
      /\ \A n \in Moderators \ {m} : reviewing'[n] = reviewing[n]
      /\ reviewing'[m] = [pc |-> "write", item |-> i, to |-> to]
  BY <1>1 DEF DecisionInv, ModerationInv, ModerationTypeOK
<1>4. ASSUME NEW j \in Items PROVE decided'[j] + Cardinality(Deciding(j)') <= Cardinality(Moderators)
  <2>1. CASE j = i /\ to \in Decisions
    <3>1. decided'[j] = 0
      BY <1>1, <2>1 DEF DecisionInv, Undecided
    <3>2. Deciding(j)' \subseteq Moderators
      BY DEF Deciding
    <3>3. Cardinality(Deciding(j)') <= Cardinality(Moderators) /\ Cardinality(Deciding(j)') \in Nat
      BY <3>2, ModerationQueueAssumption, FS_Subset, FS_CardinalityType
    <3> QED BY <3>1, <3>3
  <2>2. CASE ~(j = i /\ to \in Decisions)
    <3>1. Deciding(j)' = Deciding(j)
      BY <1>1, <1>3, <2>2 DEF Deciding
    <3> QED BY <1>1, <3>1 DEF DecisionInv, DecisionsBounded
  <2> QED BY <2>1, <2>2
<1>5. DecisionsBounded'
  BY <1>4 DEF DecisionsBounded
<1> QED BY <1>1, <1>2, <1>5 DEF DecisionInv

LEMMA WriteDecides ==
  ASSUME DecisionInv, NEW m \in Moderators, WriteReview(m) PROVE DecisionInv'
<1>1. /\ ModerationInv' /\ reviewing' = [reviewing EXCEPT ![m] = NotReviewing]
      /\ \A i \in Items : \/ item'[i] = item[i]
                          \/ i = reviewing[m].item /\ Exists(i) /\ item'[i] = reviewing[m].to
  BY ReviewEnds DEF DecisionInv
<1>2. /\ reviewing \in [Moderators -> Reviewing] /\ decided \in [Items -> Nat]
      /\ reviewing[m].pc = "write" /\ reviewing[m].to \in {"ESCALATED", "deleted"} \cup Decisions
  BY DEF DecisionInv, ModerationInv, ModerationTypeOK, Reviewing, WriteReview
<1>3. PICK i \in Items : i = reviewing[m].item
  BY <1>2 DEF DecisionInv, ModerationInv, ReviewsFound
<1>4. /\ \A j \in Items : decided'[j] = decided[j]
                            \/ (j = i /\ Exists(i) /\ reviewing[m].to \in Decisions /\ decided'[i] = decided[i] + 1)
      /\ Exists(i) => item'[i] = reviewing[m].to
  BY <1>2, <1>3 DEF WriteReview, DecisionInv, ModerationInv, ModerationTypeOK
<1>5. Undecided'
  <2> SUFFICES ASSUME NEW j \in Items, item'[j] \in {"none", "PENDING"} PROVE decided'[j] = 0
    BY DEF Undecided
  <2>1. reviewing[m].to \notin {"none", "PENDING"}
    BY <1>2 DEF Decisions
  <2>2. item'[j] = item[j] /\ decided[j] = 0
    BY <1>1, <2>1 DEF DecisionInv, Undecided
  <2>3. decided'[j] = decided[j]
    BY <1>3, <1>4, <2>1
  <2> QED BY <2>2, <2>3
<1>6. /\ \A n \in Moderators \ {m} : reviewing'[n] = reviewing[n]
      /\ reviewing'[m].pc = "idle"
  BY <1>1, <1>2 DEF NotReviewing
<1>7. ASSUME NEW j \in Items PROVE decided'[j] + Cardinality(Deciding(j)') <= Cardinality(Moderators)
  <2>1. decided[j] + Cardinality(Deciding(j)) <= Cardinality(Moderators)
    BY DEF DecisionInv, DecisionsBounded
  <2>2. Deciding(j)' = Deciding(j) \ {m}
    BY <1>6 DEF Deciding
  <2>3. decided[j] \in Nat /\ Cardinality(Deciding(j)) \in Nat /\ Cardinality(Moderators) \in Nat
    BY <1>2, DecidingFinite
  <2>4. CASE m \in Deciding(j)
    <3>1. Cardinality(Deciding(j)') = Cardinality(Deciding(j)) - 1
      BY <2>2, <2>4, DecidingFinite
    <3>2. decided'[j] <= decided[j] + 1 /\ decided'[j] \in Nat
      BY <1>4, <2>3
    <3> QED BY <2>1, <2>3, <3>1, <3>2
  <2>5. CASE m \notin Deciding(j)
    <3>1. Deciding(j)' = Deciding(j)
      BY <2>2, <2>5
    <3>2. decided'[j] = decided[j]
      BY <1>2, <1>3, <1>4, <2>5 DEF Deciding
    <3> QED BY <2>1, <3>1, <3>2
  <2> QED BY <2>4, <2>5
<1>8. DecisionsBounded'
  BY <1>7 DEF DecisionsBounded
<1> QED BY <1>1, <1>5, <1>8 DEF DecisionInv

(* Moderators who overlap decide an item at most as often as requests      *)
(* overlap, whatever the number of moderators, reports and items, and      *)
(* although items are escalated and deleted meanwhile                      *)
(* (ModerationService.moderate).                                           *)
THEOREM DecisionsBoundedCorrect == ModerationSpec => []DecisionsBounded
<1>1. ModerationInit => DecisionInv
  <2> SUFFICES ASSUME ModerationInit PROVE DecisionsBounded
    BY ModerationInitial DEF DecisionInv
  <2>1. \A i \in Items : decided[i] = 0
    BY DEF ModerationInit
  <2> QED BY <2>1, DecidingFinite DEF DecisionsBounded
<1>2. DecisionInv /\ [ModerationNext]_moderationVars => DecisionInv'
  <2> SUFFICES ASSUME DecisionInv, [ModerationNext]_moderationVars PROVE DecisionInv'
    OBVIOUS
  <2>1. CASE UNCHANGED moderationVars
    BY <2>1 DEF moderationVars, DecisionInv, ModerationInv, ModerationTypeOK, ReviewsFound, Undecided,
                DecisionsBounded, Deciding
  <2> QED BY <2>1, ReportDecides, ReviewDecides, WriteDecides DEF ModerationNext
<1>3. DecisionInv => DecisionsBounded
  BY DEF DecisionInv
<1> QED BY <1>1, <1>2, <1>3, PTL DEF ModerationSpec

(* A report that finds nothing pending may insert: there are never more    *)
(* pending items and reports about to insert than reports in flight.       *)
LEMMA PendingStep ==
  ASSUME ModerationInv, PendingBounded, [ModerationNext]_moderationVars
  PROVE  PendingBounded'
<1> USE ModerationQueueAssumption
<1>1. /\ IsFiniteSet(Pending) /\ IsFiniteSet(Creating)
      /\ Cardinality(Pending) \in Nat /\ Cardinality(Creating) \in Nat /\ Cardinality(Reporters) \in Nat
  BY FS_Subset, FS_CardinalityType DEF Pending, Creating
<1>2. CASE \E r \in Reporters : FindReported(r)
  <2>1. item' = item
    BY <1>2 DEF FindReported
  <2>2. CASE Pending = {}
    <3>1. Pending' = {}
      BY <2>1, <2>2 DEF Pending
    <3>2. Creating' \subseteq Reporters
      BY DEF Creating
    <3>3. Cardinality(Creating') <= Cardinality(Reporters) /\ Cardinality(Creating') \in Nat
      BY <3>2, FS_Subset, FS_CardinalityType
    <3>4. Cardinality(Pending') = 0
      BY <3>1, FS_EmptySet
    <3> QED BY <1>1, <3>3, <3>4 DEF PendingBounded
  <2>3. CASE Pending # {}
    <3>1. Creating' = Creating
      BY <1>2, <2>3 DEF FindReported, Creating, ModerationInv, ModerationTypeOK
    <3>2. Pending' = Pending
      BY <2>1 DEF Pending
    <3> QED BY <3>1, <3>2 DEF PendingBounded
  <2> QED BY <2>2, <2>3
<1>3. CASE \E r \in Reporters : AddReason(r)
  <2>1. Pending' = Pending /\ Creating' = Creating
    BY <1>3 DEF AddReason, Pending, Creating, NotReporting, ModerationInv, ModerationTypeOK
  <2> QED BY <2>1 DEF PendingBounded
<1>4. CASE \E r \in Reporters : CreateItem(r)
  <2>1. PICK r \in Reporters, i \in Items :
          /\ found[r].pc = "create" /\ found' = [found EXCEPT ![r] = NotReporting]
          /\ item[i] = "none" /\ item' = [item EXCEPT ![i] = "PENDING"]
    BY <1>4 DEF CreateItem
  <2>2. Pending' = Pending \cup {i} /\ i \notin Pending
    BY <2>1 DEF Pending, ModerationInv, ModerationTypeOK
  <2>3. Creating' = Creating \ {r} /\ r \in Creating
    BY <2>1 DEF Creating, NotReporting, ModerationInv, ModerationTypeOK
  <2>4. Cardinality(Pending') = Cardinality(Pending) + 1
    BY <1>1, <2>2, FS_AddElement
  <2>5. Cardinality(Creating') = Cardinality(Creating) - 1
    BY <1>1, <2>3, FS_RemoveElement
  <2> QED BY <1>1, <2>4, <2>5 DEF PendingBounded
<1>5. CASE \E m \in Moderators, i \in Items :
             \/ \E to \in Decisions : Moderate(m, i, to)
             \/ Escalate(m, i) \/ DeleteItem(m, i)
  <2>1. UNCHANGED <<item, found>>
    BY <1>5 DEF Moderate, Escalate, DeleteItem
  <2>2. Pending' = Pending /\ Creating' = Creating
    BY <2>1 DEF Pending, Creating
  <2> QED BY <2>2 DEF PendingBounded
<1>6. CASE \E m \in Moderators : WriteReview(m)
  <2>1. PICK m \in Moderators :
          /\ found' = found
          /\ \A i \in Items : item'[i] = item[i] \/ item'[i] = reviewing[m].to
    BY <1>6, ReviewEnds
  <2>2. reviewing[m].to # "PENDING"
    BY DEF ModerationInv, ModerationTypeOK, Reviewing, Decisions
  <2>3. Pending' \subseteq Pending /\ Creating' = Creating
    BY <2>1, <2>2 DEF Pending, Creating
  <2>4. Cardinality(Pending') <= Cardinality(Pending) /\ Cardinality(Pending') \in Nat
    BY <1>1, <2>3, FS_Subset, FS_CardinalityType
  <2> QED BY <1>1, <2>3, <2>4 DEF PendingBounded
<1>7. CASE UNCHANGED moderationVars
  BY <1>7 DEF moderationVars, PendingBounded, Pending, Creating
<1> QED BY <1>2, <1>3, <1>4, <1>5, <1>6, <1>7 DEF ModerationNext

(* Reports that overlap may leave several pending items of one content,    *)
(* never more than there are such reports (ModerationService.reportContent,*)
(* which looks for a pending item and inserts one in two calls).           *)
THEOREM PendingBoundedCorrect == ModerationSpec => []PendingBounded
<1>1. ModerationInv /\ [ModerationNext]_moderationVars => ModerationInv'
  <2> SUFFICES ASSUME ModerationInv, [ModerationNext]_moderationVars PROVE ModerationInv'
    OBVIOUS
  <2>1. CASE UNCHANGED moderationVars
    BY <2>1 DEF moderationVars, ModerationInv, ModerationTypeOK, ReviewsFound
  <2> QED BY <2>1, ReportKeeps, ReviewBegins, ReviewEnds DEF ModerationNext
<1>2. ModerationInit => PendingBounded
  <2> SUFFICES ASSUME ModerationInit PROVE PendingBounded
    OBVIOUS
  <2>1. Pending = {} /\ Creating = {}
    BY DEF ModerationInit, Pending, Creating, NotReporting
  <2> QED BY <2>1, ModerationQueueAssumption, FS_EmptySet, FS_CardinalityType DEF PendingBounded
<1>3. ModerationInv /\ PendingBounded /\ [ModerationNext]_moderationVars => PendingBounded'
  BY PendingStep
<1> QED BY <1>1, <1>2, <1>3, ModerationInitial, PTL DEF ModerationSpec
===============================================================================
