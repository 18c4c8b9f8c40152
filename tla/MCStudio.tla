------------------------------- MODULE MCStudio -------------------------------
(* What a teacher works with, for TLC: the page he broadcasts from and the  *)
(* catalogue of podcasts and episodes.  They share no state: a behaviour    *)
(* runs the one whose name is in running.  Streams and Videos share their   *)
(* members, and so do Clicks and Editors: they are interchangeable.         *)
EXTENDS LiveConsole, Catalogue, FiniteSets, TLC

VARIABLE running

Symmetry == Permutations(Streams) \cup Permutations(Clicks)

(* Bound: an update of an episode names at most two of its fields. *)
FewFields == \A c \in Editors : Cardinality(edit'[c].given) + Cardinality(edit'[c].emptied) <= 2

StudioInit == running \in {"console", "catalogue"} /\ Init /\ CatalogueInit

StudioNext ==
  \/ running = "console" /\ Next /\ UNCHANGED <<running, catalogueVars>>
  \/ running = "catalogue" /\ CatalogueNext /\ FewFields /\ UNCHANGED <<running, vars>>

StudioSpec == StudioInit /\ [][StudioNext]_<<running, vars, catalogueVars>>
===============================================================================
