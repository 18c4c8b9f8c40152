---------------------------- MODULE ModerationQueue ----------------------------
(***************************************************************************)
(* Reports of one piece of content and what moderators do with them        *)
(* (ModerationService).  Every request reads an item in one database call  *)
(* and writes it by its id in another; requests overlap.                   *)
(***************************************************************************)
EXTENDS Naturals, FiniteSets

CONSTANTS
  Items,       \* ids of ModerationQueue rows, never used twice (bounds them)
  Reporters,   \* identities for the reports in flight (bounds them)
  Moderators,  \* identities for the moderators' requests in flight (bounds them)
  NoItem

ASSUME ModerationQueueAssumption ==
  /\ IsFiniteSet(Items) /\ IsFiniteSet(Reporters) /\ Reporters # {} /\ IsFiniteSet(Moderators)
  /\ NoItem \notin Items

VARIABLES
  item,       \* the status of the rows
  found,      \* the reports in flight: the row each found
  reviewing,  \* the moderators' requests in flight
  decided     \* history: how often a decision was written to a row

moderationVars == <<item, found, reviewing, decided>>

Decisions == {"APPROVED", "REJECTED"}
ItemStatus == {"none", "PENDING", "ESCALATED", "deleted"} \cup Decisions
Found == [pc : {"idle", "update", "create"}, item : Items \cup {NoItem}]
Reviewing == [pc : {"idle", "write"}, item : Items \cup {NoItem}, to : {"ESCALATED", "deleted"} \cup Decisions]

NotReporting == [pc |-> "idle", item |-> NoItem]
NotReviewing == [pc |-> "idle", item |-> NoItem, to |-> "ESCALATED"]

Pending == {i \in Items : item[i] = "PENDING"}
Exists(i) == item[i] \notin {"none", "deleted"}
Creating == {r \in Reporters : found[r].pc = "create"}
Deciding(i) == {m \in Moderators : reviewing[m].pc = "write" /\ reviewing[m].item = i /\ reviewing[m].to \in Decisions}

-----------------------------------------------------------------------------
(* Mutation: an escalated item may be decided, and a decided one as well.  *)
ModerateAny(m, i, to) ==
  /\ reviewing[m].pc = "idle" /\ Exists(i)
  /\ reviewing' = [reviewing EXCEPT ![m] = [pc |-> "write", item |-> i, to |-> to]]
  /\ UNCHANGED <<item, found, decided>>

(* Mutation: a report does not look for a pending item. *)
FindNothing(r) ==
  /\ found[r].pc = "idle"
  /\ found' = [found EXCEPT ![r] = [pc |-> "create", item |-> NoItem]]
  /\ UNCHANGED <<item, reviewing, decided>>

-----------------------------------------------------------------------------
(* reportContent. *)
FindReported(r) ==
  /\ found[r].pc = "idle"
  /\ \/ Pending = {} /\ found' = [found EXCEPT ![r] = [pc |-> "create", item |-> NoItem]]
     \/ \E i \in Pending : found' = [found EXCEPT ![r] = [pc |-> "update", item |-> i]]
  /\ UNCHANGED <<item, reviewing, decided>>

(* The reason becomes the one that was read and the new one; a row that was *)
(* deleted meanwhile is an error.  Reasons are not modelled.               *)
AddReason(r) ==
  /\ found[r].pc = "update"
  /\ found' = [found EXCEPT ![r] = NotReporting]
  /\ UNCHANGED <<item, reviewing, decided>>

CreateItem(r) ==
  /\ found[r].pc = "create"
  /\ \E i \in Items :
       /\ item[i] = "none"
       /\ item' = [item EXCEPT ![i] = "PENDING"]
  /\ found' = [found EXCEPT ![r] = NotReporting]
  /\ UNCHANGED <<reviewing, decided>>

-----------------------------------------------------------------------------
(* moderate. *)
Moderate(m, i, to) ==
  /\ reviewing[m].pc = "idle" /\ item[i] = "PENDING"
  /\ reviewing' = [reviewing EXCEPT ![m] = [pc |-> "write", item |-> i, to |-> to]]
  /\ UNCHANGED <<item, found, decided>>

(* escalate and delete, whatever the status. *)
Escalate(m, i) ==
  /\ reviewing[m].pc = "idle" /\ Exists(i)
  /\ reviewing' = [reviewing EXCEPT ![m] = [pc |-> "write", item |-> i, to |-> "ESCALATED"]]
  /\ UNCHANGED <<item, found, decided>>

DeleteItem(m, i) ==
  /\ reviewing[m].pc = "idle" /\ Exists(i)
  /\ reviewing' = [reviewing EXCEPT ![m] = [pc |-> "write", item |-> i, to |-> "deleted"]]
  /\ UNCHANGED <<item, found, decided>>

WriteReview(m) ==
  LET i == reviewing[m].item IN
  /\ reviewing[m].pc = "write"
  /\ item' = IF Exists(i) THEN [item EXCEPT ![i] = reviewing[m].to] ELSE item
  /\ decided' = IF Exists(i) /\ reviewing[m].to \in Decisions THEN [decided EXCEPT ![i] = @ + 1] ELSE decided
  /\ reviewing' = [reviewing EXCEPT ![m] = NotReviewing]
  /\ UNCHANGED found

ModerationNext ==
  \/ \E r \in Reporters : FindReported(r) \/ AddReason(r) \/ CreateItem(r)
  \/ \E m \in Moderators, i \in Items :
       \/ \E to \in Decisions : Moderate(m, i, to)
       \/ Escalate(m, i) \/ DeleteItem(m, i)
  \/ \E m \in Moderators : WriteReview(m)

ModerationInit ==
  /\ item = [i \in Items |-> "none"]
  /\ found = [r \in Reporters |-> NotReporting]
  /\ reviewing = [m \in Moderators |-> NotReviewing]
  /\ decided = [i \in Items |-> 0]

ModerationSpec == ModerationInit /\ [][ModerationNext]_moderationVars

-----------------------------------------------------------------------------
(* Rows and requests keep their shape. *)
ModerationTypeOK ==
  /\ item \in [Items -> ItemStatus]
  /\ found \in [Reporters -> Found]
  /\ reviewing \in [Moderators -> Reviewing]
  /\ decided \in [Items -> Nat]

(* Reports of the same content are merged into one pending item.  No       *)
(* transaction or constraint keeps a second one out: it takes reports that *)
(* overlap, and there are never more items than such reports.              *)
PendingBounded == Cardinality(Pending) + Cardinality(Creating) <= Cardinality(Reporters)

(* "This item has already been moderated" (moderate, line 106): the status *)
(* is compared one call before it is written, so that moderators who       *)
(* overlap may decide one item several times, each overwriting the other;  *)
(* but never more often than requests overlap, even if it was escalated in *)
(* between, as no row is ever pending again.                               *)
DecisionsBounded == \A i \in Items : decided[i] + Cardinality(Deciding(i)) <= Cardinality(Moderators)
===============================================================================
