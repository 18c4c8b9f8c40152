------------------------------ MODULE MCServices ------------------------------
(* The smaller parts of the platform and the listener's page for TLC, one   *)
(* instance of each.  They share no state: a behaviour runs the one whose   *)
(* name is in running.  The fairness of the two that state one asks nothing *)
(* of them while they do not run: none of its actions is enabled in their   *)
(* initial states.                                                          *)
EXTENDS NotificationJobs, PushDelivery, ResponseCache, StreamingSessions, Collaboration,
        LivePlayer, LiveAudio

VARIABLE running

Init ==
  /\ running \in {"jobs", "push", "cache", "sessions", "collaboration", "player", "audio"}
  /\ JobsInit /\ PushInit /\ CacheInit /\ SessionsInit /\ CollaborationInit /\ PlayerInit /\ AudioInit

(* The variables of the parts that do not run. *)
Idle(name, partVars) == running # name => UNCHANGED partVars

Next ==
  /\ UNCHANGED running
  /\ \/ running = "jobs" /\ JobsNext
     \/ running = "push" /\ PushNext
     \/ running = "cache" /\ CacheNext
     \/ running = "sessions" /\ SessionsNext
     \/ running = "collaboration" /\ CollaborationNext
     \/ running = "player" /\ PlayerNext
     \/ running = "audio" /\ AudioNext
  /\ Idle("jobs", jobVars) /\ Idle("push", pushVars) /\ Idle("cache", cacheVars)
  /\ Idle("sessions", sessionVars) /\ Idle("collaboration", collaborationVars)
  /\ Idle("player", playerVars) /\ Idle("audio", audioVars)

allVars == <<running, jobVars, pushVars, cacheVars, sessionVars, collaborationVars, playerVars, audioVars>>

Spec == Init /\ [][Next]_allVars /\ JobsFairness /\ PlayerFairness
===============================================================================
