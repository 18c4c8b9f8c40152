------------------------------- MODULE MCSignIn -------------------------------
(* Instances of Accounts and PhoneCodes for TLC.  The two share no state: a *)
(* behaviour runs one of them, whose name is in running.  One of Accounts   *)
(* either has links and a single page, whose tokens do not expire, or       *)
(* several pages and no links.                                              *)
EXTENDS Accounts, PhoneCodes, TLC

VARIABLE running

Symmetry ==
  Permutations(Codes) \cup Permutations(CodeCalls) \cup Permutations(Passwords) \cup Permutations(Links)
    \cup Permutations(Requests) \cup Permutations(Browsers) \cup Permutations(Tabs)

OpenPages ==
  {p \in Pages : page[p].store \/ page[p].leaving} \cup ({request[c].page : c \in Requests} \ {Absent})

Init ==
  /\ running \in {"links", "pages", "codes"}
  /\ AccountsInit
  /\ CodesInit

Next ==
  \/ running = "links" /\ AccountsNext /\ UNCHANGED <<running, codesVars>>
       /\ Cardinality(OpenPages') <= 1 /\ \A b \in Browsers : storage'[b].fresh = storage'[b].tokens
  \/ running = "pages" /\ AccountsNext /\ UNCHANGED <<running, links, codesVars>>
  \/ running = "codes" /\ CodesNext /\ UNCHANGED <<running, accountVars>>

Spec == Init /\ [][Next]_<<running, accountVars, codesVars>>
===============================================================================
