----------------------------- MODULE Collaboration -----------------------------
(***************************************************************************)
(* Invitations of collaborators to a podcast (CollaborationService).  The  *)
(* owner invites, changes roles and removes; the invited user accepts,     *)
(* rejects or leaves.  A request reads the row in one database call and    *)
(* writes it by its id in another; requests overlap.                       *)
(***************************************************************************)
CONSTANTS
  Invitations,  \* ids of PodcastCollaborator rows, never used twice (bounds them)
  Guests,       \* users that are invited to the podcast
  OwnerCalls,   \* identities for the owner's requests in flight
  NoOne

ASSUME CollaborationAssumption == NoOne \notin Guests \cup Invitations

VARIABLES
  invitation,  \* the rows
  owner,       \* the owner's requests in flight
  answer       \* the request of each guest that is in flight

collaborationVars == <<invitation, owner, answer>>

Invitation == [status : {"none", "PENDING", "ACCEPTED", "REJECTED", "deleted"},
               guest : Guests \cup {NoOne}, role : {"CONTRIBUTOR", "EDITOR"}]
OwnerCall == [pc : {"idle", "invite", "update", "remove"}, row : Invitations \cup {NoOne},
              guest : Guests \cup {NoOne}, role : {"CONTRIBUTOR", "EDITOR"}]
Answer == [pc : {"idle", "write"}, row : Invitations \cup {NoOne}, to : {"ACCEPTED", "REJECTED", "deleted"}]

NoInvitation == [status |-> "none", guest |-> NoOne, role |-> "CONTRIBUTOR"]
NoOwnerCall == [pc |-> "idle", row |-> NoOne, guest |-> NoOne, role |-> "CONTRIBUTOR"]
NoAnswer == [pc |-> "idle", row |-> NoOne, to |-> "ACCEPTED"]

Present(i) == invitation[i].status \notin {"none", "deleted"}
Invited(g) == \E i \in Invitations : Present(i) /\ invitation[i].guest = g

-----------------------------------------------------------------------------
(* Mutation: the row as it was read is written back with the new role. *)
WriteOwnerRow(c) ==
  LET call == owner[c] IN
  /\ call.pc \in {"update", "remove"}
  /\ invitation' = IF ~Present(call.row) THEN invitation
       ELSE IF call.pc = "remove" THEN [invitation EXCEPT ![call.row].status = "deleted"]
       ELSE [invitation EXCEPT ![call.row].status = "PENDING", ![call.row].role = call.role]
  /\ owner' = [owner EXCEPT ![c] = NoOwnerCall]
  /\ UNCHANGED answer

-----------------------------------------------------------------------------
Invite(c, g, role) ==
  /\ owner[c].pc = "idle" /\ ~Invited(g)
  /\ owner' = [owner EXCEPT ![c] = [pc |-> "invite", row |-> NoOne, guest |-> g, role |-> role]]
  /\ UNCHANGED <<invitation, answer>>

(* Podcast and user are unique together: a second row is an error. *)
CreateInvitation(c) ==
  LET call == owner[c] IN
  /\ call.pc = "invite"
  /\ IF Invited(call.guest) THEN UNCHANGED invitation
     ELSE \E i \in Invitations :
            /\ invitation[i].status = "none"
            /\ invitation' = [invitation EXCEPT ![i] = [status |-> "PENDING", guest |-> call.guest, role |-> call.role]]
  /\ owner' = [owner EXCEPT ![c] = NoOwnerCall]
  /\ UNCHANGED answer

UpdateCollaborator(c, i, role) ==
  /\ owner[c].pc = "idle" /\ Present(i)
  /\ owner' = [owner EXCEPT ![c] = [pc |-> "update", row |-> i, guest |-> NoOne, role |-> role]]
  /\ UNCHANGED <<invitation, answer>>

RemoveCollaborator(c, i) ==
  /\ owner[c].pc = "idle" /\ Present(i)
  /\ owner' = [owner EXCEPT ![c] = [NoOwnerCall EXCEPT !.pc = "remove", !.row = i]]
  /\ UNCHANGED <<invitation, answer>>

(* A row that was removed meanwhile is an error. *)
WriteOwner(c) ==
  LET call == owner[c] IN
  /\ call.pc \in {"update", "remove"}
  /\ invitation' = IF ~Present(call.row) THEN invitation
       ELSE IF call.pc = "remove" THEN [invitation EXCEPT ![call.row].status = "deleted"]
       ELSE [invitation EXCEPT ![call.row].role = call.role]
  /\ owner' = [owner EXCEPT ![c] = NoOwnerCall]
  /\ UNCHANGED answer

(* accept and reject. *)
AnswerInvitation(g, i, to) ==
  /\ answer[g].pc = "idle" /\ invitation[i].guest = g /\ invitation[i].status = "PENDING"
  /\ answer' = [answer EXCEPT ![g] = [pc |-> "write", row |-> i, to |-> to]]
  /\ UNCHANGED <<invitation, owner>>

(* remove, by the collaborator. *)
Leave(g, i) ==
  /\ answer[g].pc = "idle" /\ invitation[i].guest = g /\ Present(i)
  /\ answer' = [answer EXCEPT ![g] = [pc |-> "write", row |-> i, to |-> "deleted"]]
  /\ UNCHANGED <<invitation, owner>>

WriteAnswer(g) ==
  LET i == answer[g].row IN
  /\ answer[g].pc = "write"
  /\ invitation' = IF Present(i) THEN [invitation EXCEPT ![i].status = answer[g].to] ELSE invitation
  /\ answer' = [answer EXCEPT ![g] = NoAnswer]
  /\ UNCHANGED owner

CollaborationNext ==
  \/ \E c \in OwnerCalls, g \in Guests, role \in {"CONTRIBUTOR", "EDITOR"} : Invite(c, g, role)
  \/ \E c \in OwnerCalls : CreateInvitation(c) \/ WriteOwner(c)
  \/ \E c \in OwnerCalls, i \in Invitations :
       \/ \E role \in {"CONTRIBUTOR", "EDITOR"} : UpdateCollaborator(c, i, role)
       \/ RemoveCollaborator(c, i)
  \/ \E g \in Guests, i \in Invitations :
       \/ \E to \in {"ACCEPTED", "REJECTED"} : AnswerInvitation(g, i, to)
       \/ Leave(g, i)
  \/ \E g \in Guests : WriteAnswer(g)

CollaborationInit ==
  /\ invitation = [i \in Invitations |-> NoInvitation]
  /\ owner = [c \in OwnerCalls |-> NoOwnerCall]
  /\ answer = [g \in Guests |-> NoAnswer]

CollaborationSpec == CollaborationInit /\ [][CollaborationNext]_collaborationVars

-----------------------------------------------------------------------------
(* Rows and requests keep their shape. *)
CollaborationTypeOK ==
  /\ invitation \in [Invitations -> Invitation]
  /\ owner \in [OwnerCalls -> OwnerCall]
  /\ answer \in [Guests -> Answer]

(* "This invitation has already been processed": whatever the owner does   *)
(* at the same time, the answer of a guest who sends one request at a time *)
(* is final until the row is removed.                                      *)
AnsweredOnce ==
  [][\A i \in Invitations :
       invitation[i].status \in {"ACCEPTED", "REJECTED"} =>
         invitation'[i].status \in {invitation[i].status, "deleted"}]_collaborationVars
===============================================================================
