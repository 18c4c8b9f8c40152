--------------------------- MODULE HocaApplications ---------------------------
(***************************************************************************)
(* How a teacher (hoca) applies for an account: HocaApplicationService,    *)
(* with the direct application, the application of a verified phone, and   *)
(* the review of both by administrators.                                   *)
(*                                                                         *)
(* Each service call reads the rows it decides on and writes one or more   *)
(* database operations later; submissions and reviews overlap.  Only       *)
(* approveApplication writes in a transaction.  The one-time codes that    *)
(* verify a phone are left out: a verified phone has an application token. *)
(***************************************************************************)
EXTENDS Naturals, FiniteSets

CONSTANTS
  Phones,        \* phone numbers
  Emails,        \* email addresses
  Applications,  \* ids of applications, never used twice (bounds them)
  Submitters,    \* identities for the submissions in flight (bounds them)
  Admins,        \* identities for the reviews in flight (bounds them)
  None           \* no phone, no email, no application

ASSUME HocaApplicationsAssumption ==
  /\ IsFiniteSet(Submitters)
  /\ IsFiniteSet(Applications)
  /\ Submitters # {}
  /\ None \notin Phones \cup Emails \cup Applications
  /\ Phones \cap Emails = {}

VARIABLES
  applications,  \* the HocaApplication rows by their id
  users,         \* the User rows
  tokens,        \* phones with a valid application token
  submission,    \* the submissions in flight
  review         \* the reviews in flight

vars == <<applications, users, tokens, submission, review>>

(* A row that does not exist (any more) has status "NONE" ("DELETED"). *)
Statuses == {"NONE", "PENDING", "APPROVED", "REJECTED", "DELETED"}
Live == {"PENDING", "APPROVED"}
Stored == {"PENDING", "APPROVED", "REJECTED"}

Application == [status : Statuses, phone : Phones \cup {None},
                email : Emails \cup {None}, direct : BOOLEAN]

(* A user without an application registered by himself and has no phone.   *)
User == [phone : Phones \cup {None}, email : Emails \cup Phones, application : Applications \cup {None}]

Submission == [pc : {"idle", "find_phone", "find_email", "delete_rejected", "create"},
               phone : Phones \cup {None}, email : Emails \cup {None}, direct : BOOLEAN]
Review == [pc : {"idle", "approve", "reject"}, application : Applications \cup {None}]

NoApplication == [status |-> "NONE", phone |-> None, email |-> None, direct |-> FALSE]
Deleted == [NoApplication EXCEPT !.status = "DELETED"]
NoSubmission == [pc |-> "idle", phone |-> None, email |-> None, direct |-> FALSE]
NoReview == [pc |-> "idle", application |-> None]

-----------------------------------------------------------------------------
(* Queries of the database. *)

HasStatus(a, statuses) == applications[a].status \in statuses

(* findFirst with status PENDING or APPROVED. *)
LiveWithPhone(p) == \E a \in Applications : HasStatus(a, Live) /\ applications[a].phone = p
LiveWithEmail(e) == \E a \in Applications : HasStatus(a, Live) /\ applications[a].email = e

PhoneTaken(p) == \E u \in users : u.phone = p
EmailTaken(e) == \E u \in users : u.email = e

(* The email of the account: an address made of the phone stands in for a  *)
(* missing one.                                                            *)
AccountEmail(a) == IF applications[a].email = None THEN applications[a].phone ELSE applications[a].email

SetApplicationStatus(a, new) == applications' = [applications EXCEPT ![a].status = new]

-----------------------------------------------------------------------------
(* How a call moves on. *)

Goto(c, pc) == submission' = [submission EXCEPT ![c].pc = pc]

Return(c) == submission' = [submission EXCEPT ![c] = NoSubmission]

Begin(c, pc, p, e, direct) ==
  /\ submission[c].pc = "idle"
  /\ submission' = [submission EXCEPT ![c] = [pc |-> pc, phone |-> p, email |-> e, direct |-> direct]]

ReturnReview(r) == review' = [review EXCEPT ![r] = NoReview]

-----------------------------------------------------------------------------
(* Mutations: bugs the runs must notice.  Each replaces the definition it  *)
(* is named after; none is part of the specification.                      *)

(* Only pending applications are looked for. *)
FindEmailPending(c) ==
  LET e == submission[c].email IN
  /\ submission[c].pc = "find_email"
  /\ IF \E a \in Applications : HasStatus(a, {"PENDING"}) /\ applications[a].email = e
       THEN Return(c)
       ELSE Goto(c, "delete_rejected")
  /\ UNCHANGED <<applications, users, tokens, review>>

(* deleteMany without the status in its filter. *)
DeleteRejectedAny(c) ==
  LET s == submission[c] IN
  /\ s.pc = "delete_rejected"
  /\ applications' = [a \in Applications |->
        IF HasStatus(a, Stored) /\ applications[a].phone = s.phone
          THEN Deleted
          ELSE applications[a]]
  /\ Goto(c, "create")
  /\ UNCHANGED <<users, tokens, review>>

(* Whether the application is pending is not asked. *)
RejectAnything(r, a) ==
  /\ review[r].pc = "idle"
  /\ HasStatus(a, Stored)
  /\ review' = [review EXCEPT ![r] = [pc |-> "reject", application |-> a]]
  /\ UNCHANGED <<applications, users, tokens, submission>>

-----------------------------------------------------------------------------
(* submitDirectApplication: a phone and an email that nobody has. *)

SubmitDirect(c, p, e) ==
  /\ ~PhoneTaken(p)
  /\ ~EmailTaken(e)
  /\ Begin(c, "find_phone", p, e, TRUE)
  /\ UNCHANGED <<applications, users, tokens, review>>

FindPhone(c) ==
  /\ submission[c].pc = "find_phone"
  /\ IF LiveWithPhone(submission[c].phone) THEN Return(c) ELSE Goto(c, "find_email")
  /\ UNCHANGED <<applications, users, tokens, review>>

FindEmail(c) ==
  /\ submission[c].pc = "find_email"
  /\ IF LiveWithEmail(submission[c].email) THEN Return(c) ELSE Goto(c, "delete_rejected")
  /\ UNCHANGED <<applications, users, tokens, review>>

(* submitApplication, with a token: nobody asks for the email or the users. *)
SubmitVerified(c, p, e) ==
  /\ p \in tokens
  /\ ~LiveWithPhone(p)
  /\ Begin(c, "delete_rejected", p, e, FALSE)
  /\ UNCHANGED <<applications, users, tokens, review>>

(* The rejected applications of the phone and, in the direct application,  *)
(* of the email too are deleted.                                           *)
DeleteRejected(c) ==
  LET s == submission[c] IN
  /\ s.pc = "delete_rejected"
  /\ applications' = [a \in Applications |->
        IF /\ HasStatus(a, {"REJECTED"})
           /\ \/ applications[a].phone = s.phone
              \/ s.direct /\ applications[a].email = s.email
          THEN Deleted
          ELSE applications[a]]
  /\ Goto(c, "create")
  /\ UNCHANGED <<users, tokens, review>>

(* The phone is unique: a second row of one phone is refused. *)
CreateApplication(c) ==
  LET s == submission[c] IN
  /\ s.pc = "create"
  /\ \/ /\ \A a \in Applications : HasStatus(a, Stored) => applications[a].phone # s.phone
        /\ \E a \in Applications :
             /\ HasStatus(a, {"NONE"})
             /\ applications' = [applications EXCEPT ![a] =
                   [status |-> "PENDING", phone |-> s.phone, email |-> s.email, direct |-> s.direct]]
     \/ /\ \E a \in Applications : HasStatus(a, Stored) /\ applications[a].phone = s.phone
        /\ UNCHANGED applications
  /\ Return(c)
  /\ UNCHANGED <<users, tokens, review>>

(* sendVerificationCode and verifyCode give a token to a phone that has    *)
(* neither an account nor an application.  What follows does not depend on *)
(* its expiry, after 30 minutes.                                           *)
VerifyPhone(p) ==
  /\ ~PhoneTaken(p)
  /\ ~LiveWithPhone(p)
  /\ tokens' = tokens \cup {p}
  /\ UNCHANGED <<applications, users, submission, review>>

-----------------------------------------------------------------------------
(* The review. *)

ApproveApplication(r, a) ==
  /\ review[r].pc = "idle"
  /\ HasStatus(a, {"PENDING"})
  /\ review' = [review EXCEPT ![r] = [pc |-> "approve", application |-> a]]
  /\ UNCHANGED <<applications, users, tokens, submission>>

(* The transaction: the account, the hoca profile and the status, or, when *)
(* the phone or the email is taken or the application deleted, nothing.    *)
Approve(r) ==
  LET a == review[r].application IN
  /\ review[r].pc = "approve"
  /\ IF HasStatus(a, Stored) /\ ~PhoneTaken(applications[a].phone) /\ ~EmailTaken(AccountEmail(a))
       THEN /\ users' = users \cup
                 {[phone |-> applications[a].phone, email |-> AccountEmail(a), application |-> a]}
            /\ SetApplicationStatus(a, "APPROVED")
       ELSE UNCHANGED <<users, applications>>
  /\ ReturnReview(r)
  /\ UNCHANGED <<tokens, submission>>

RejectApplication(r, a) ==
  /\ review[r].pc = "idle"
  /\ HasStatus(a, {"PENDING"})
  /\ review' = [review EXCEPT ![r] = [pc |-> "reject", application |-> a]]
  /\ UNCHANGED <<applications, users, tokens, submission>>

Reject(r) ==
  LET a == review[r].application IN
  /\ review[r].pc = "reject"
  /\ IF HasStatus(a, Stored) THEN SetApplicationStatus(a, "REJECTED") ELSE UNCHANGED applications
  /\ ReturnReview(r)
  /\ UNCHANGED <<users, tokens, submission>>

-----------------------------------------------------------------------------
(* AuthService.register: a listener's account, with an email of its own. *)
Register(e) ==
  /\ ~EmailTaken(e)
  /\ users' = users \cup {[phone |-> None, email |-> e, application |-> None]}
  /\ UNCHANGED <<applications, tokens, submission, review>>

(* The process stops, or a database operation fails: a call ends there. *)
SubmissionFails(c) ==
  /\ submission[c].pc # "idle"
  /\ Return(c)
  /\ UNCHANGED <<applications, users, tokens, review>>

ReviewFails(r) ==
  /\ review[r].pc # "idle"
  /\ ReturnReview(r)
  /\ UNCHANGED <<applications, users, tokens, submission>>

Submit(c) ==
  \/ \E p \in Phones, e \in Emails : SubmitDirect(c, p, e)
  \/ \E p \in Phones, e \in Emails \cup {None} : SubmitVerified(c, p, e)
  \/ FindPhone(c) \/ FindEmail(c) \/ DeleteRejected(c) \/ CreateApplication(c)
  \/ SubmissionFails(c)

Decide(r) ==
  \/ \E a \in Applications : ApproveApplication(r, a) \/ RejectApplication(r, a)
  \/ Approve(r) \/ Reject(r) \/ ReviewFails(r)

Next ==
  \/ \E c \in Submitters : Submit(c)
  \/ \E r \in Admins : Decide(r)
  \/ \E p \in Phones : VerifyPhone(p)
  \/ \E e \in Emails : Register(e)

Init ==
  /\ applications = [a \in Applications |-> NoApplication]
  /\ users = {}
  /\ tokens = {}
  /\ submission = [c \in Submitters |-> NoSubmission]
  /\ review = [r \in Admins |-> NoReview]

Spec == Init /\ [][Next]_vars

-----------------------------------------------------------------------------
(* Properties.                                                             *)

(* Type invariant; a stored application has a phone, and the account made  *)
(* of one has an email.                                                    *)
TypeOK ==
  /\ applications \in [Applications -> Application]
  /\ \A a \in Applications : HasStatus(a, Stored) => applications[a].phone \in Phones
  /\ users \subseteq User
  /\ tokens \subseteq Phones
  /\ submission \in [Submitters -> Submission]
  /\ review \in [Admins -> Review]

(* An application is approved exactly when it has its account, and only    *)
(* one: a rejected or deleted application has none.  It needs that no two  *)
(* reviews overlap; submissions may.                                       *)
AccountsMatch ==
  /\ \A u \in users : u.application # None =>
       HasStatus(u.application, {"APPROVED"}) /\ u.phone = applications[u.application].phone
  /\ \A a \in Applications : HasStatus(a, {"APPROVED"}) => \E u \in users : u.application = a
  /\ \A u, v \in users : u.application = v.application /\ u.application # None => u = v

(* The direct applications of one email that are pending or approved. *)
LiveDirect(e) == {a \in Applications : HasStatus(a, Live) /\ applications[a].direct /\ applications[a].email = e}

(* The direct applications of an email that have passed the search for it. *)
Submitting(e) ==
  {c \in Submitters : /\ submission[c].pc \in {"delete_rejected", "create"}
                      /\ submission[c].direct
                      /\ submission[c].email = e}

(* submitDirectApplication looks for another application of the email and  *)
(* inserts its own two calls later, with no constraint on the email: there *)
(* are never more applications of an email than submissions can overlap,   *)
(* and exactly one if they do not.  It needs that no two reviews overlap.  *)
EmailsBounded ==
  \A e \in Emails : Cardinality(LiveDirect(e)) + Cardinality(Submitting(e)) <= Cardinality(Submitters)

(* approveApplication, line 536, and rejectApplication, line 642: an       *)
(* application that was decided is not decided again.  The exception is    *)
(* submitDirectApplication, which deletes the rejected applications of the *)
(* phone that applies again.  It needs that no two reviews overlap.        *)
DecisionIsFinal ==
  [][\A a \in Applications :
       /\ HasStatus(a, {"APPROVED"}) => applications'[a] = applications[a]
       /\ HasStatus(a, {"REJECTED"}) => applications'[a].status \in {"REJECTED", "DELETED"}]_vars

(* A call in flight works for a phone, a review on an application. *)
CallsAddressed ==
  /\ \A c \in Submitters : submission[c].pc # "idle" => submission[c].phone \in Phones
  /\ \A r \in Admins : review[r].pc # "idle" => review[r].application \in Applications

(* Why a decision is final as long as no two reviews overlap: the          *)
(* application under review is still the pending one that was read, since  *)
(* submissions delete rejected applications only.                          *)
ReviewsPending ==
  \A r \in Admins : review[r].pc # "idle" =>
    review[r].application \in Applications /\ HasStatus(review[r].application, {"PENDING"})
===============================================================================
