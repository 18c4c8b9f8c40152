------------------------ MODULE HocaApplicationsProofs ------------------------
(***************************************************************************)
(* Theorems about HocaApplications.  The type invariant holds however      *)
(* submissions and reviews overlap; the theorems about decisions assume    *)
(* that one administrator reviews at a time, as many submissions as there  *)
(* may be in the meantime.                                                 *)
(***************************************************************************)
EXTENDS HocaApplications, FiniteSetTheorems, TLAPS

(* One review is in flight at a time. *)
OneReview == \A r1, r2 \in Admins : r1 = r2

TypeInv == TypeOK /\ CallsAddressed

LEMMA InitTypeInv == Init => TypeInv
BY HocaApplicationsAssumption
   DEF Init, TypeInv, TypeOK, CallsAddressed, NoApplication, NoSubmission, NoReview,
       Application, Submission, Review, Statuses, HasStatus, Stored, User

(* TypeInv by the variables its parts are about. *)
ApplicationsTyped ==
  /\ applications \in [Applications -> Application]
  /\ \A a \in Applications : HasStatus(a, Stored) => applications[a].phone \in Phones
UsersTyped == users \subseteq User /\ tokens \subseteq Phones
SubmissionsTyped ==
  /\ submission \in [Submitters -> Submission]
  /\ \A c \in Submitters : submission[c].pc # "idle" => submission[c].phone \in Phones
ReviewsTyped ==
  /\ review \in [Admins -> Review]
  /\ \A r \in Admins : review[r].pc # "idle" => review[r].application \in Applications

LEMMA TypeParts == TypeInv <=> ApplicationsTyped /\ UsersTyped /\ SubmissionsTyped /\ ReviewsTyped
BY DEF TypeInv, TypeOK, CallsAddressed, ApplicationsTyped, UsersTyped, SubmissionsTyped, ReviewsTyped

LEMMA TypePartsNext ==
  TypeInv' <=> ApplicationsTyped' /\ UsersTyped' /\ SubmissionsTyped' /\ ReviewsTyped'
BY DEF TypeInv, TypeOK, CallsAddressed, ApplicationsTyped, UsersTyped, SubmissionsTyped, ReviewsTyped

LEMMA UnchangedParts ==
  ASSUME TypeInv
  PROVE  /\ UNCHANGED applications => ApplicationsTyped'
         /\ UNCHANGED <<users, tokens>> => UsersTyped'
         /\ UNCHANGED submission => SubmissionsTyped'
         /\ UNCHANGED review => ReviewsTyped'
<1>1. ApplicationsTyped /\ UsersTyped /\ SubmissionsTyped /\ ReviewsTyped
  BY TypeParts
<1>2. UNCHANGED applications => ApplicationsTyped'
  BY <1>1 DEF ApplicationsTyped, HasStatus
<1>3. UNCHANGED <<users, tokens>> => UsersTyped'
  BY <1>1 DEF UsersTyped
<1>4. UNCHANGED submission => SubmissionsTyped'
  BY <1>1 DEF SubmissionsTyped
<1>5. UNCHANGED review => ReviewsTyped'
  BY <1>1 DEF ReviewsTyped
<1> QED BY <1>2, <1>3, <1>4, <1>5

(* A submission that begins, goes on or returns stays well-formed. *)
LEMMA SubmissionSteps ==
  ASSUME SubmissionsTyped, NEW c \in Submitters
  PROVE  /\ Return(c) => SubmissionsTyped'
         /\ \A pc \in {"find_email", "delete_rejected", "create"} :
              submission[c].pc # "idle" /\ Goto(c, pc) => SubmissionsTyped'
         /\ \A pc \in {"find_phone", "delete_rejected"}, p \in Phones,
               e \in Emails \cup {None}, d \in BOOLEAN :
              Begin(c, pc, p, e, d) => SubmissionsTyped'
<1>1. Return(c) => SubmissionsTyped'
  BY DEF Return, NoSubmission, SubmissionsTyped, Submission
<1>2. ASSUME NEW pc \in {"find_email", "delete_rejected", "create"},
             submission[c].pc # "idle", Goto(c, pc)
      PROVE  SubmissionsTyped'
  BY <1>2 DEF Goto, SubmissionsTyped, Submission
<1>3. ASSUME NEW pc \in {"find_phone", "delete_rejected"}, NEW p \in Phones,
             NEW e \in Emails \cup {None}, NEW d \in BOOLEAN, Begin(c, pc, p, e, d)
      PROVE  SubmissionsTyped'
  BY <1>3 DEF Begin, SubmissionsTyped, Submission
<1> QED BY <1>1, <1>2, <1>3

(* The steps of a submission. *)
LEMMA SubmitKeepsTypes ==
  ASSUME TypeInv, NEW c \in Submitters, Submit(c)
  PROVE  TypeInv'
<1>0. ApplicationsTyped /\ UsersTyped /\ SubmissionsTyped /\ ReviewsTyped
  BY TypeParts
<1>1. ASSUME NEW p \in Phones, NEW e \in Emails, SubmitDirect(c, p, e)
      PROVE  TypeInv'
  BY <1>0, <1>1, TypePartsNext, UnchangedParts, SubmissionSteps DEF SubmitDirect
<1>2. ASSUME NEW p \in Phones, NEW e \in Emails \cup {None}, SubmitVerified(c, p, e)
      PROVE  TypeInv'
  BY <1>0, <1>2, TypePartsNext, UnchangedParts, SubmissionSteps DEF SubmitVerified
<1>3. CASE FindPhone(c)
  BY <1>0, <1>3, TypePartsNext, UnchangedParts, SubmissionSteps DEF FindPhone
<1>4. CASE FindEmail(c)
  BY <1>0, <1>4, TypePartsNext, UnchangedParts, SubmissionSteps DEF FindEmail
<1>5. CASE DeleteRejected(c)
  <2>1. ApplicationsTyped'
    <3>1. Deleted \in Application /\ Deleted.status \notin Stored
      BY DEF Deleted, NoApplication, Application, Statuses, Stored
    <3> QED BY <1>0, <1>5, <3>1 DEF DeleteRejected, ApplicationsTyped, HasStatus
  <2> QED BY <1>0, <1>5, <2>1, TypePartsNext, UnchangedParts, SubmissionSteps DEF DeleteRejected
<1>6. CASE CreateApplication(c)
  <2>1. ApplicationsTyped'
    <3>1. /\ submission[c].phone \in Phones
          /\ submission[c].email \in Emails \cup {None}
          /\ submission[c].direct \in BOOLEAN
      BY <1>0, <1>6 DEF SubmissionsTyped, Submission, CreateApplication
    <3>2. CASE UNCHANGED applications
      BY <3>2, UnchangedParts
    <3>3. ASSUME NEW a \in Applications,
                 applications' = [applications EXCEPT ![a] =
                   [status |-> "PENDING", phone |-> submission[c].phone,
                    email |-> submission[c].email, direct |-> submission[c].direct]]
          PROVE  ApplicationsTyped'
      BY <1>0, <3>1, <3>3 DEF ApplicationsTyped, Application, Statuses, HasStatus
    <3> QED BY <1>6, <3>2, <3>3 DEF CreateApplication
  <2> QED BY <1>0, <1>6, <2>1, TypePartsNext, UnchangedParts, SubmissionSteps DEF CreateApplication
<1>7. CASE SubmissionFails(c)
  BY <1>0, <1>7, TypePartsNext, UnchangedParts, SubmissionSteps DEF SubmissionFails
<1> QED BY <1>1, <1>2, <1>3, <1>4, <1>5, <1>6, <1>7 DEF Submit

(* The steps of a review. *)
LEMMA DecideKeepsTypes ==
  ASSUME TypeInv, NEW r \in Admins, Decide(r)
  PROVE  TypeInv'
<1>0. ApplicationsTyped /\ UsersTyped /\ SubmissionsTyped /\ ReviewsTyped
  BY TypeParts
<1>1. ReturnReview(r) => ReviewsTyped'
  BY <1>0 DEF ReturnReview, NoReview, ReviewsTyped, Review
<1>2. ASSUME NEW a \in Applications, HasStatus(a, Stored),
             NEW new \in {"APPROVED", "REJECTED"}, SetApplicationStatus(a, new)
      PROVE  ApplicationsTyped'
  BY <1>0, <1>2 DEF ApplicationsTyped, SetApplicationStatus, Application, Statuses, Stored, HasStatus
<1>3. ASSUME NEW a \in Applications, ApproveApplication(r, a)
      PROVE  TypeInv'
  <2>1. ReviewsTyped'
    BY <1>0, <1>3 DEF ApproveApplication, ReviewsTyped, Review
  <2> QED BY <1>3, <2>1, TypePartsNext, UnchangedParts DEF ApproveApplication
<1>4. ASSUME NEW a \in Applications, RejectApplication(r, a)
      PROVE  TypeInv'
  <2>1. ReviewsTyped'
    BY <1>0, <1>4 DEF RejectApplication, ReviewsTyped, Review
  <2> QED BY <1>4, <2>1, TypePartsNext, UnchangedParts DEF RejectApplication
<1>5. CASE Approve(r)
  <2> DEFINE a == review[r].application
  <2>1. a \in Applications
    BY <1>0, <1>5 DEF Approve, ReviewsTyped
  <2>2. ApplicationsTyped'
    BY <1>2, <1>5, <2>1, UnchangedParts DEF Approve
  <2>3. UsersTyped'
    <3>1. CASE UNCHANGED users
      BY <1>5, <3>1, UnchangedParts DEF Approve
    <3>2. CASE /\ HasStatus(a, Stored)
               /\ users' = users \cup {[phone |-> applications[a].phone,
                                        email |-> AccountEmail(a), application |-> a]}
      <4>1. applications[a].phone \in Phones /\ applications[a].email \in Emails \cup {None}
        BY <1>0, <2>1, <3>2 DEF ApplicationsTyped, Application
      <4>2. AccountEmail(a) \in Emails \cup Phones
        BY <4>1 DEF AccountEmail
      <4>3. UNCHANGED tokens
        BY <1>5 DEF Approve
      <4> QED BY <1>0, <2>1, <3>2, <4>1, <4>2, <4>3 DEF UsersTyped, User
    <3> QED BY <1>5, <3>1, <3>2 DEF Approve
  <2> QED BY <1>0, <1>1, <1>5, <2>2, <2>3, TypePartsNext, UnchangedParts DEF Approve
<1>6. CASE Reject(r)
  <2>1. review[r].application \in Applications
    BY <1>0, <1>6 DEF Reject, ReviewsTyped
  <2>2. ApplicationsTyped'
    BY <1>2, <1>6, <2>1, UnchangedParts DEF Reject
  <2> QED BY <1>1, <1>6, <2>2, TypePartsNext, UnchangedParts DEF Reject
<1>7. CASE ReviewFails(r)
  BY <1>1, <1>7, TypePartsNext, UnchangedParts DEF ReviewFails
<1> QED BY <1>3, <1>4, <1>5, <1>6, <1>7 DEF Decide

LEMMA NextKeepsTypes ==
  ASSUME TypeInv, [Next]_vars
  PROVE  TypeInv'
<1>1. ASSUME NEW p \in Phones, VerifyPhone(p)
      PROVE  TypeInv'
  BY <1>1 DEF VerifyPhone, TypeInv, TypeOK, CallsAddressed, HasStatus
<1>2. ASSUME NEW e \in Emails, Register(e)
      PROVE  TypeInv'
  BY <1>2 DEF Register, TypeInv, TypeOK, CallsAddressed, HasStatus, User
<1>3. CASE UNCHANGED vars
  BY <1>3 DEF vars, TypeInv, TypeOK, CallsAddressed, HasStatus
<1> QED BY <1>1, <1>2, <1>3, SubmitKeepsTypes, DecideKeepsTypes DEF Next

LEMMA TypeInvariant == Spec => []TypeInv
BY InitTypeInv, NextKeepsTypes, PTL DEF Spec

(* Rows, tokens and calls keep their shape, and a stored application has   *)
(* its phone, for any number of overlapping submissions and reviews.       *)
THEOREM TypeCorrect == Spec => []TypeOK
BY TypeInvariant, PTL DEF TypeInv

-----------------------------------------------------------------------------
(* Decisions, with one review at a time.                                   *)

(* The inductive invariant of the review. *)
ReviewInv == TypeInv /\ ReviewsPending /\ AccountsMatch

LEMMA InitReviewInv == Init => ReviewInv
BY InitTypeInv DEF Init, ReviewInv, ReviewsPending, AccountsMatch, NoReview, NoApplication, HasStatus

(* What a submission leaves alone: applications that are pending or        *)
(* approved stay as they are, and none becomes approved.                   *)
LEMMA SubmitKeepsLive ==
  ASSUME TypeInv, NEW c \in Submitters, Submit(c), NEW a \in Applications
  PROVE  /\ HasStatus(a, Live) => applications'[a] = applications[a]
         /\ HasStatus(a, {"APPROVED"})' => applications'[a] = applications[a]
         /\ HasStatus(a, {"REJECTED"}) => applications'[a].status \in {"REJECTED", "DELETED"}
         /\ UNCHANGED <<users, review>>
<1>0. ApplicationsTyped
  BY TypeParts
<1>1. CASE UNCHANGED applications /\ UNCHANGED <<users, review>>
  BY <1>1 DEF HasStatus
<1>2. CASE DeleteRejected(c)
  BY <1>0, <1>2 DEF DeleteRejected, HasStatus, Live, Deleted, NoApplication, ApplicationsTyped
<1>3. CASE CreateApplication(c)
  <2>1. UNCHANGED <<users, review>>
    BY <1>3 DEF CreateApplication
  <2>2. CASE UNCHANGED applications
    BY <1>1, <2>1, <2>2
  <2>3. ASSUME NEW b \in Applications, HasStatus(b, {"NONE"}),
               applications' = [applications EXCEPT ![b] =
                 [status |-> "PENDING", phone |-> submission[c].phone,
                  email |-> submission[c].email, direct |-> submission[c].direct]]
        PROVE  /\ HasStatus(a, Live) => applications'[a] = applications[a]
               /\ HasStatus(a, {"APPROVED"})' => applications'[a] = applications[a]
               /\ HasStatus(a, {"REJECTED"}) => applications'[a].status \in {"REJECTED", "DELETED"}
    BY <1>0, <2>3 DEF HasStatus, Live, ApplicationsTyped
  <2> QED BY <1>3, <2>1, <2>2, <2>3 DEF CreateApplication
<1> QED BY <1>1, <1>2, <1>3
        DEF Submit, SubmitDirect, SubmitVerified, FindPhone, FindEmail, SubmissionFails

LEMMA SubmitKeepsReviewInv ==
  ASSUME ReviewInv, NEW c \in Submitters, Submit(c)
  PROVE  ReviewInv'
<1>0. TypeInv /\ TypeInv'
  BY SubmitKeepsTypes DEF ReviewInv
<1>1. \A a \in Applications :
        /\ HasStatus(a, Live) => applications'[a] = applications[a]
        /\ HasStatus(a, {"APPROVED"})' => applications'[a] = applications[a]
  BY <1>0, SubmitKeepsLive
<1>2. UNCHANGED <<users, review>>
  BY <1>0, SubmitKeepsLive, HocaApplicationsAssumption
     DEF Submit, SubmitDirect, SubmitVerified, FindPhone, FindEmail, DeleteRejected,
         CreateApplication, SubmissionFails
<1>3. ReviewsPending'
  BY <1>1, <1>2 DEF ReviewInv, ReviewsPending, HasStatus, Live
<1>4. \A u \in users : u.application # None => u.application \in Applications
  BY <1>0 DEF TypeInv, TypeOK, User
<1>5. AccountsMatch'
  BY <1>1, <1>2, <1>4 DEF ReviewInv, AccountsMatch, HasStatus, Live
<1> QED BY <1>0, <1>3, <1>5 DEF ReviewInv

(* The transaction of an approval. *)
LEMMA ApproveKeepsReviewInv ==
  ASSUME ReviewInv, OneReview, NEW r \in Admins, Approve(r)
  PROVE  ReviewInv'
<1> DEFINE a == review[r].application
<1>0. TypeInv /\ TypeInv'
  BY DecideKeepsTypes DEF Decide, ReviewInv
<1>1. a \in Applications /\ HasStatus(a, {"PENDING"})
  BY DEF Approve, ReviewInv, ReviewsPending
<1>2. ReviewsPending'
  BY <1>0 DEF Approve, OneReview, ReturnReview, NoReview, ReviewsPending, TypeInv, TypeOK
<1>3. AccountsMatch'
  <2>1. CASE UNCHANGED <<users, applications>>
    BY <2>1 DEF ReviewInv, AccountsMatch, HasStatus
  <2>2. CASE /\ users' = users \cup {[phone |-> applications[a].phone,
                                      email |-> AccountEmail(a), application |-> a]}
             /\ SetApplicationStatus(a, "APPROVED")
    <3> DEFINE new == [phone |-> applications[a].phone, email |-> AccountEmail(a), application |-> a]
    <3>1. \A u \in users : u.application # a
      BY <1>1, HocaApplicationsAssumption DEF ReviewInv, AccountsMatch, HasStatus
    <3>2. /\ applications'[a].status = "APPROVED"
          /\ applications'[a].phone = applications[a].phone
          /\ \A b \in Applications \ {a} : applications'[b] = applications[b]
      BY <1>0, <1>1, <2>2 DEF SetApplicationStatus, TypeInv, TypeOK, Application
    <3>3. \A u \in users : u.application # None => u.application \in Applications
      BY <1>0 DEF TypeInv, TypeOK, User
    <3>4. \A u \in users' : u \in users \/ u = new
      BY <2>2
    <3>5. new \in users' /\ new.application = a /\ new.phone = applications[a].phone
      BY <2>2
    <3>6. \A u \in users' : u.application # None =>
             HasStatus(u.application, {"APPROVED"})' /\ u.phone = applications'[u.application].phone
      <4> SUFFICES ASSUME NEW u \in users', u.application # None
                   PROVE  HasStatus(u.application, {"APPROVED"})'
                          /\ u.phone = applications'[u.application].phone
        OBVIOUS
      <4>1. CASE u \in users
        BY <3>1, <3>2, <3>3, <4>1 DEF ReviewInv, AccountsMatch, HasStatus
      <4>2. CASE u = new
        BY <3>2, <3>5, <4>2 DEF HasStatus
      <4> QED BY <3>4, <4>1, <4>2
    <3>7. \A b \in Applications : HasStatus(b, {"APPROVED"})' => \E u \in users' : u.application = b
      <4> SUFFICES ASSUME NEW b \in Applications, HasStatus(b, {"APPROVED"})'
                   PROVE  \E u \in users' : u.application = b
        OBVIOUS
      <4>1. CASE b = a
        BY <3>5, <4>1
      <4>2. CASE b # a
        <5>1. HasStatus(b, {"APPROVED"})
          BY <3>2, <4>2 DEF HasStatus
        <5> QED BY <2>2, <5>1 DEF ReviewInv, AccountsMatch
      <4> QED BY <4>1, <4>2
    <3>8. \A u, v \in users' : u.application = v.application /\ u.application # None => u = v
      BY <3>1, <3>4, <3>5 DEF ReviewInv, AccountsMatch
    <3> QED BY <3>6, <3>7, <3>8 DEF AccountsMatch
  <2> QED BY <2>1, <2>2 DEF Approve
<1> QED BY <1>0, <1>2, <1>3 DEF ReviewInv

LEMMA RejectKeepsReviewInv ==
  ASSUME ReviewInv, OneReview, NEW r \in Admins, Reject(r)
  PROVE  ReviewInv'
<1> DEFINE a == review[r].application
<1>0. TypeInv /\ TypeInv'
  BY DecideKeepsTypes DEF Decide, ReviewInv
<1>1. a \in Applications /\ HasStatus(a, {"PENDING"})
  BY DEF Reject, ReviewInv, ReviewsPending
<1>2. ReviewsPending'
  BY <1>0 DEF Reject, OneReview, ReturnReview, NoReview, ReviewsPending, TypeInv, TypeOK
<1>3. AccountsMatch'
  <2>1. applications' = [applications EXCEPT ![a].status = "REJECTED"] /\ UNCHANGED users
    BY <1>1 DEF Reject, SetApplicationStatus, HasStatus, Stored
  <2>2. /\ applications'[a].status = "REJECTED"
        /\ \A b \in Applications \ {a} : applications'[b] = applications[b]
    BY <1>0, <1>1, <2>1 DEF TypeInv, TypeOK, Application
  <2>3. \A u \in users : u.application # None => u.application \in Applications \ {a}
    BY <1>0, <1>1 DEF ReviewInv, AccountsMatch, HasStatus, TypeInv, TypeOK, User
  <2> QED BY <2>1, <2>2, <2>3 DEF ReviewInv, AccountsMatch, HasStatus
<1> QED BY <1>0, <1>2, <1>3 DEF ReviewInv

LEMMA NextKeepsReviewInv ==
  ASSUME ReviewInv, OneReview, [Next]_vars
  PROVE  ReviewInv'
<1>0. TypeInv /\ TypeInv'
  BY NextKeepsTypes DEF ReviewInv
<1>1. ASSUME NEW r \in Admins, Decide(r)
      PROVE  ReviewInv'
  <2>1. ASSUME NEW a \in Applications, ApproveApplication(r, a) \/ RejectApplication(r, a)
        PROVE  ReviewInv'
    <3>1. ReviewsPending'
      BY <1>0, <2>1 DEF ReviewInv, ReviewsPending, ApproveApplication, RejectApplication, HasStatus,
                        TypeInv, TypeOK, Review
    <3>2. AccountsMatch'
      BY <2>1 DEF ReviewInv, AccountsMatch, ApproveApplication, RejectApplication, HasStatus
    <3> QED BY <1>0, <3>1, <3>2 DEF ReviewInv
  <2>2. CASE ReviewFails(r)
    <3>1. ReviewsPending'
      BY <1>0, <2>2 DEF ReviewInv, ReviewsPending, ReviewFails, ReturnReview, NoReview, HasStatus,
                        TypeInv, TypeOK
    <3>2. AccountsMatch'
      BY <2>2 DEF ReviewInv, AccountsMatch, ReviewFails, HasStatus
    <3> QED BY <1>0, <3>1, <3>2 DEF ReviewInv
  <2> QED BY <1>1, <2>1, <2>2, ApproveKeepsReviewInv, RejectKeepsReviewInv DEF Decide
<1>2. ASSUME NEW p \in Phones, VerifyPhone(p)
      PROVE  ReviewInv'
  BY <1>0, <1>2 DEF VerifyPhone, ReviewInv, ReviewsPending, AccountsMatch, HasStatus
<1>3. ASSUME NEW e \in Emails, Register(e)
      PROVE  ReviewInv'
  <2>1. ReviewsPending' /\ UNCHANGED applications
    BY <1>3 DEF Register, ReviewInv, ReviewsPending, HasStatus
  <2>2. AccountsMatch'
    BY <1>3, <2>1 DEF Register, ReviewInv, AccountsMatch, HasStatus
  <2> QED BY <1>0, <2>1, <2>2 DEF ReviewInv
<1>4. CASE UNCHANGED vars
  BY <1>0, <1>4 DEF vars, ReviewInv, ReviewsPending, AccountsMatch, HasStatus
<1> QED BY <1>1, <1>2, <1>3, <1>4, SubmitKeepsReviewInv DEF Next

LEMMA ReviewInvariant == ASSUME OneReview PROVE Spec => []ReviewInv
<1>1. ReviewInv /\ [Next]_vars => ReviewInv'
  BY NextKeepsReviewInv
<1> QED BY <1>1, InitReviewInv, PTL DEF Spec

(* An application is approved exactly when it has its account, and only    *)
(* one, whatever submissions overlap with the review.                      *)
THEOREM AccountsMatchCorrect == ASSUME OneReview PROVE Spec => []AccountsMatch
BY ReviewInvariant, PTL DEF ReviewInv

(* The step property behind DecisionIsFinal. *)
DecisionKept ==
  \A a \in Applications :
    /\ HasStatus(a, {"APPROVED"}) => applications'[a] = applications[a]
    /\ HasStatus(a, {"REJECTED"}) => applications'[a].status \in {"REJECTED", "DELETED"}

LEMMA NextKeepsDecisions ==
  ASSUME ReviewInv, [Next]_vars
  PROVE  DecisionKept
<1>0. TypeInv
  BY DEF ReviewInv
<1>1. ASSUME NEW c \in Submitters, Submit(c)
      PROVE  DecisionKept
  BY <1>0, <1>1, SubmitKeepsLive DEF DecisionKept, HasStatus, Live
<1>2. CASE UNCHANGED applications
  BY <1>2 DEF DecisionKept, HasStatus
<1>3. ASSUME NEW r \in Admins, review[r].pc # "idle",
             NEW new, SetApplicationStatus(review[r].application, new)
      PROVE  DecisionKept
  <2>1. review[r].application \in Applications /\ HasStatus(review[r].application, {"PENDING"})
    BY <1>3 DEF ReviewInv, ReviewsPending
  <2> QED BY <1>0, <1>3, <2>1 DEF DecisionKept, SetApplicationStatus, HasStatus, TypeInv, TypeOK, Application
<1>4. ASSUME NEW r \in Admins, Decide(r)
      PROVE  DecisionKept
  BY <1>2, <1>3, <1>4
     DEF Decide, ApproveApplication, RejectApplication, Approve, Reject, ReviewFails
<1> QED BY <1>1, <1>2, <1>4 DEF Next, VerifyPhone, Register, vars

(* While no two reviews overlap, a decision is never taken back: an        *)
(* approval stays as it is, and a rejected application is only deleted, by *)
(* a new submission.                                                       *)
THEOREM DecisionIsFinalCorrect == ASSUME OneReview PROVE Spec => DecisionIsFinal
<1>1. ReviewInv /\ [Next]_vars => [DecisionKept]_vars
  BY NextKeepsDecisions
<1>2. Spec => [][DecisionKept]_vars
  BY <1>1, ReviewInvariant, PTL DEF Spec
<1> QED BY <1>2 DEF DecisionIsFinal, DecisionKept

-----------------------------------------------------------------------------
(* The applications of one email.                                          *)

LEMMA EmailSetsFinite ==
  ASSUME NEW e
  PROVE  /\ IsFiniteSet(LiveDirect(e)) /\ Cardinality(LiveDirect(e)) \in Nat
         /\ IsFiniteSet(Submitting(e)) /\ Cardinality(Submitting(e)) \in Nat
         /\ Submitting(e) \subseteq Submitters
         /\ Cardinality(Submitting(e)) <= Cardinality(Submitters)
<1>1. LiveDirect(e) \subseteq Applications /\ Submitting(e) \subseteq Submitters
  BY DEF LiveDirect, Submitting
<1> QED BY <1>1, HocaApplicationsAssumption, FS_Subset, FS_CardinalityType

LEMMA EmailSetsFiniteNext ==
  ASSUME NEW e
  PROVE  /\ IsFiniteSet(LiveDirect(e)') /\ Cardinality(LiveDirect(e)') \in Nat
         /\ IsFiniteSet(Submitting(e)') /\ Cardinality(Submitting(e)') \in Nat
         /\ Submitting(e)' \subseteq Submitters
         /\ Cardinality(Submitting(e)') <= Cardinality(Submitters)
<1>1. LiveDirect(e)' \subseteq Applications /\ Submitting(e)' \subseteq Submitters
  BY DEF LiveDirect, Submitting
<1> QED BY <1>1, HocaApplicationsAssumption, FS_Subset, FS_CardinalityType

WithinBound(e) == Cardinality(LiveDirect(e)) + Cardinality(Submitting(e)) <= Cardinality(Submitters)

(* Neither set grows. *)
LEMMA BoundShrinks ==
  ASSUME NEW e, WithinBound(e), LiveDirect(e)' \subseteq LiveDirect(e), Submitting(e)' \subseteq Submitting(e)
  PROVE  WithinBound(e)'
<1>1. /\ Cardinality(LiveDirect(e)') <= Cardinality(LiveDirect(e))
      /\ Cardinality(Submitting(e)') <= Cardinality(Submitting(e))
  BY EmailSetsFinite, FS_Subset
<1>2. Cardinality(Submitters) \in Nat
  BY HocaApplicationsAssumption, FS_CardinalityType
<1> QED BY <1>1, <1>2, EmailSetsFinite, EmailSetsFiniteNext DEF WithinBound

(* The search found no application of the email: only submissions count. *)
LEMMA BoundAfterSearch ==
  ASSUME NEW e, LiveDirect(e)' = {}
  PROVE  WithinBound(e)'
<1>1. Cardinality(LiveDirect(e)') = 0
  BY FS_EmptySet
<1>2. Cardinality(Submitters) \in Nat
  BY HocaApplicationsAssumption, FS_CardinalityType
<1> QED BY <1>1, <1>2, EmailSetsFiniteNext DEF WithinBound

(* A submission becomes an application. *)
LEMMA BoundMoves ==
  ASSUME NEW e, WithinBound(e), NEW c \in Submitting(e), NEW a,
         LiveDirect(e)' = LiveDirect(e) \cup {a}, Submitting(e)' = Submitting(e) \ {c}
  PROVE  WithinBound(e)'
<1>1. Cardinality(Submitting(e)') = Cardinality(Submitting(e)) - 1
  BY EmailSetsFinite, FS_RemoveElement
<1>2. Cardinality(LiveDirect(e)') <= Cardinality(LiveDirect(e)) + 1
  <2>1. IsFiniteSet(LiveDirect(e)) /\ Cardinality(LiveDirect(e)) \in Nat
    BY EmailSetsFinite
  <2> HIDE DEF LiveDirect
  <2>2. Cardinality(LiveDirect(e) \cup {a}) \in {Cardinality(LiveDirect(e)), Cardinality(LiveDirect(e)) + 1}
    BY <2>1, FS_AddElement
  <2> QED BY <2>1, <2>2
<1>3. Cardinality(Submitters) \in Nat
  BY HocaApplicationsAssumption, FS_CardinalityType
<1>4. /\ Cardinality(LiveDirect(e)) \in Nat /\ Cardinality(LiveDirect(e)') \in Nat
      /\ Cardinality(Submitting(e)) \in Nat /\ Cardinality(Submitting(e)') \in Nat
  BY EmailSetsFinite, EmailSetsFiniteNext
<1> QED BY <1>1, <1>2, <1>3, <1>4 DEF WithinBound

LEMMA SubmitKeepsBound ==
  ASSUME TypeInv, NEW c \in Submitters, Submit(c), NEW e \in Emails, WithinBound(e)
  PROVE  WithinBound(e)'
<1>0. ApplicationsTyped /\ SubmissionsTyped
  BY TypeParts
<1>1. UNCHANGED applications => LiveDirect(e)' = LiveDirect(e)
  BY DEF LiveDirect, HasStatus
<1>2. ASSUME Return(c) PROVE Submitting(e)' = Submitting(e) \ {c}
  BY <1>0, <1>2 DEF Return, NoSubmission, Submitting, SubmissionsTyped
<1>3. ASSUME NEW p, NEW d \in Emails, SubmitDirect(c, p, d)
      PROVE  WithinBound(e)'
  <2>1. Submitting(e)' \subseteq Submitting(e)
    BY <1>0, <1>3 DEF SubmitDirect, Begin, Submitting, SubmissionsTyped
  <2> QED BY <1>1, <1>3, <2>1, BoundShrinks DEF SubmitDirect
<1>4. ASSUME NEW p, NEW d, SubmitVerified(c, p, d)
      PROVE  WithinBound(e)'
  <2>1. Submitting(e)' \subseteq Submitting(e)
    BY <1>0, <1>4 DEF SubmitVerified, Begin, Submitting, SubmissionsTyped
  <2> QED BY <1>1, <1>4, <2>1, BoundShrinks DEF SubmitVerified
<1>5. CASE FindPhone(c)
  <2>1. CASE Return(c)
    BY <1>1, <1>2, <1>5, <2>1, BoundShrinks DEF FindPhone
  <2>2. CASE Goto(c, "find_email")
    <3>1. Submitting(e)' \subseteq Submitting(e)
      BY <1>0, <2>2 DEF Goto, Submitting, SubmissionsTyped, Submission
    <3> QED BY <1>1, <1>5, <3>1, BoundShrinks DEF FindPhone
  <2> QED BY <1>5, <2>1, <2>2 DEF FindPhone
<1>6. CASE FindEmail(c)
  <2>1. CASE Return(c)
    BY <1>1, <1>2, <1>6, <2>1, BoundShrinks DEF FindEmail
  <2>2. CASE ~LiveWithEmail(submission[c].email) /\ Goto(c, "delete_rejected")
    <3>1. CASE submission[c].email = e
      <4>1. LiveDirect(e) = {}
        BY <2>2, <3>1 DEF LiveWithEmail, LiveDirect
      <4> QED BY <1>1, <1>6, <4>1, BoundAfterSearch DEF FindEmail
    <3>2. CASE submission[c].email # e
      <4>1. Submitting(e)' \subseteq Submitting(e)
        BY <1>0, <2>2, <3>2 DEF Goto, Submitting, SubmissionsTyped, Submission
      <4> QED BY <1>1, <1>6, <4>1, BoundShrinks DEF FindEmail
    <3> QED BY <3>1, <3>2
  <2> QED BY <1>6, <2>1, <2>2 DEF FindEmail
<1>7. CASE DeleteRejected(c)
  <2>1. Submitting(e)' \subseteq Submitting(e)
    BY <1>0, <1>7 DEF DeleteRejected, Goto, Submitting, SubmissionsTyped, Submission
  <2>2. Deleted.status \notin Live
    BY DEF Deleted, NoApplication, Live
  <2>3. LiveDirect(e)' \subseteq LiveDirect(e)
    BY <1>0, <1>7, <2>2 DEF DeleteRejected, LiveDirect, HasStatus, ApplicationsTyped
  <2> QED BY <2>1, <2>3, BoundShrinks
<1>8. CASE CreateApplication(c)
  <2>1. Submitting(e)' = Submitting(e) \ {c}
    BY <1>2, <1>8 DEF CreateApplication
  <2>2. CASE UNCHANGED applications
    BY <1>1, <2>1, <2>2, BoundShrinks
  <2>3. ASSUME NEW a \in Applications,
               applications' = [applications EXCEPT ![a] =
                 [status |-> "PENDING", phone |-> submission[c].phone,
                  email |-> submission[c].email, direct |-> submission[c].direct]],
               HasStatus(a, {"NONE"})
        PROVE  WithinBound(e)'
    <3>1. /\ applications'[a].status = "PENDING"
          /\ applications'[a].email = submission[c].email
          /\ applications'[a].direct = submission[c].direct
          /\ \A b \in Applications \ {a} : applications'[b] = applications[b]
      BY <1>0, <2>3 DEF ApplicationsTyped
    <3>2. CASE c \in Submitting(e)
      <4>1. LiveDirect(e)' = LiveDirect(e) \cup {a}
        BY <3>1, <3>2 DEF LiveDirect, Submitting, HasStatus, Live
      <4> QED BY <2>1, <3>2, <4>1, BoundMoves
    <3>3. CASE c \notin Submitting(e)
      <4>1. submission[c].direct => submission[c].email # e
        BY <1>8, <3>3 DEF CreateApplication, Submitting
      <4>2. LiveDirect(e)' \subseteq LiveDirect(e)
        BY <3>1, <4>1 DEF LiveDirect, HasStatus
      <4> QED BY <2>1, <4>2, BoundShrinks
    <3> QED BY <3>2, <3>3
  <2> QED BY <1>8, <2>2, <2>3 DEF CreateApplication
<1>9. CASE SubmissionFails(c)
  BY <1>1, <1>2, <1>9, BoundShrinks DEF SubmissionFails
<1> QED BY <1>3, <1>4, <1>5, <1>6, <1>7, <1>8, <1>9 DEF Submit

LEMMA NextKeepsBound ==
  ASSUME ReviewInv, [Next]_vars, NEW e \in Emails, WithinBound(e)
  PROVE  WithinBound(e)'
<1>0. TypeInv
  BY DEF ReviewInv
<1>1. UNCHANGED submission => Submitting(e)' \subseteq Submitting(e)
  BY DEF Submitting
<1>2. CASE UNCHANGED <<applications, submission>>
  <2>1. LiveDirect(e)' \subseteq LiveDirect(e)
    BY <1>2 DEF LiveDirect, HasStatus
  <2> QED BY <1>1, <1>2, <2>1, BoundShrinks
<1>3. ASSUME NEW r \in Admins, review[r].pc # "idle", UNCHANGED submission,
             NEW new, SetApplicationStatus(review[r].application, new)
      PROVE  WithinBound(e)'
  <2> DEFINE a == review[r].application
  <2>1. a \in Applications /\ HasStatus(a, {"PENDING"})
    BY <1>3 DEF ReviewInv, ReviewsPending
  <2>2. /\ applications'[a].email = applications[a].email
        /\ applications'[a].direct = applications[a].direct
        /\ \A b \in Applications \ {a} : applications'[b] = applications[b]
    BY <1>0, <1>3, <2>1 DEF SetApplicationStatus, TypeInv, TypeOK, Application
  <2>3. LiveDirect(e)' \subseteq LiveDirect(e)
    BY <2>1, <2>2 DEF LiveDirect, HasStatus, Live
  <2> QED BY <1>1, <1>3, <2>3, BoundShrinks
<1>4. ASSUME NEW r \in Admins, Decide(r)
      PROVE  WithinBound(e)'
  BY <1>2, <1>3, <1>4
     DEF Decide, ApproveApplication, RejectApplication, Approve, Reject, ReviewFails
<1> QED BY <1>0, <1>2, <1>4, SubmitKeepsBound DEF Next, VerifyPhone, Register, vars

(* There are never more pending or approved direct applications of one     *)
(* email than submissions can overlap.                                     *)
THEOREM EmailsBoundedCorrect == ASSUME OneReview PROVE Spec => []EmailsBounded
<1>1. Init => EmailsBounded
  <2> SUFFICES ASSUME Init, NEW e \in Emails PROVE WithinBound(e)
    BY DEF EmailsBounded, WithinBound
  <2>1. LiveDirect(e) = {} /\ Submitting(e) = {}
    BY DEF Init, LiveDirect, Submitting, NoApplication, NoSubmission, HasStatus, Live
  <2>2. Cardinality(Submitters) \in Nat
    BY HocaApplicationsAssumption, FS_CardinalityType
  <2> QED BY <2>1, <2>2, FS_EmptySet DEF WithinBound
<1>2. ReviewInv /\ EmailsBounded /\ [Next]_vars => EmailsBounded'
  BY NextKeepsBound DEF EmailsBounded, WithinBound
<1> QED BY <1>1, <1>2, ReviewInvariant, PTL DEF Spec
===============================================================================
