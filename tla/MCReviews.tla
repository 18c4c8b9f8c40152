------------------------------ MODULE MCReviews ------------------------------
(* Applications and the moderation queue for TLC, one instance of each.     *)
(* They share no state: a behaviour runs the one whose name is in running.  *)
(* Their sets share their members, which keeps the group of symmetries      *)
(* small: x1, x2, x3 and so on are interchangeable in either part.          *)
EXTENDS HocaApplications, ModerationQueue, TLC

VARIABLE running

Symmetry == Permutations(Phones) \cup Permutations(Applications) \cup Permutations(Submitters)

ReviewsInit == running \in {"applications", "moderation"} /\ Init /\ ModerationInit

ReviewsNext ==
  \/ running = "applications" /\ Next /\ UNCHANGED <<running, moderationVars>>
  \/ running = "moderation" /\ ModerationNext /\ UNCHANGED <<running, vars>>

ReviewsSpec == ReviewsInit /\ [][ReviewsNext]_<<running, vars, moderationVars>>
==============================================================================
