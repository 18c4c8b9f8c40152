------------------------------- MODULE Catalogue -------------------------------
(***************************************************************************)
(* Podcasts and their episodes (PodcastsService, EpisodesService): which   *)
(* media a podcast may hold and which an episode has.  All podcasts here   *)
(* want one slug, and so do all episodes of a podcast: that is where       *)
(* requests meet.  A request is one step per database call, and requests   *)
(* overlap; the unique slugs and the cascade of a deletion are the         *)
(* database's.                                                             *)
(***************************************************************************)
EXTENDS Naturals

CONSTANTS
  Videos,    \* the fields videoUrl, youtubeUrl and externalVideoUrl of an episode
  Podcasts,  \* ids of Podcast rows, never used twice (bounds them)
  Episodes,  \* ids of Episode rows, never used twice (bounds them)
  Editors,   \* identities for the requests in flight (bounds them)
  NoRow

ASSUME CatalogueAssumption == NoRow \notin Podcasts \cup Episodes /\ "audio" \notin Videos

VARIABLES
  podcast,   \* the Podcast rows
  episode,   \* the Episode rows
  edit,      \* the requests in flight
  retyped,   \* history: podcasts whose mediaType an update has changed
  contested  \* history: episodes that two updates worked on at a time

catalogueVars == <<podcast, episode, edit, retyped, contested>>

MediaType == {"AUDIO", "VIDEO", "BOTH"}
Sources == SUBSET ({"audio"} \cup Videos)  \* the fields that are not empty
Podcast == [status : {"unused", "there", "deleted"}, mediaType : MediaType]
Episode == [status : {"unused", "there", "deleted"}, podcast : Podcasts \cup {NoRow}, sources : Sources]
Edit == [pc : {"idle", "insert_podcast", "find_podcast", "find_slug", "insert_episode", "write_podcast",
               "delete_podcast", "check_update", "write_episode", "delete_episode"},
         podcast : Podcasts \cup {NoRow}, episode : Episodes \cup {NoRow},
         mediaType : MediaType, given : Sources, emptied : Sources, read : Sources]

NoEdit == [pc |-> "idle", podcast |-> NoRow, episode |-> NoRow, mediaType |-> "AUDIO",
           given |-> {}, emptied |-> {}, read |-> {}]

Kept(p) == podcast[p].status = "there"
Published(e) == episode[e].status = "there"
PodcastSlugTaken == \E p \in Podcasts : Kept(p)
EpisodeSlugTaken(p) == \E e \in Episodes : Published(e) /\ episode[e].podcast = p

-----------------------------------------------------------------------------
Receive(c, pc, request) == edit[c].pc = "idle" /\ edit' = [edit EXCEPT ![c] = [request EXCEPT !.pc = pc]]
Continue(c, pc) == edit' = [edit EXCEPT ![c].pc = pc]
Reply(c) == edit' = [edit EXCEPT ![c] = NoEdit]

(* ensureMediaCompatibility: does not throw. *)
Compatible(mediaType, sources) ==
  /\ sources # {}
  /\ mediaType = "AUDIO" => sources = {"audio"}
  /\ mediaType = "VIDEO" => sources \subseteq Videos

(* Mutation: an update is compared with the fields it brings only. *)
CheckGiven(c) ==
  LET p == edit[c].podcast IN
  /\ edit[c].pc = "check_update"
  /\ IF Kept(p) /\ (edit[c].given = {} \/ Compatible(podcast[p].mediaType, edit[c].given))
       THEN Continue(c, "write_episode") ELSE Reply(c)
  /\ UNCHANGED <<podcast, episode, retyped, contested>>

-----------------------------------------------------------------------------
(* PodcastsService.create: the slug is looked up. *)
CreatePodcast(c, mediaType, given) ==
  /\ ~PodcastSlugTaken
  /\ Receive(c, "insert_podcast", [NoEdit EXCEPT !.mediaType = mediaType, !.given = given])
  /\ UNCHANGED <<podcast, episode, retyped, contested>>

(* maybeCreateInitialEpisode: a podcast with a duration and a source of    *)
(* its own type gets an episode, which EpisodesService creates.            *)
FirstSources(request) ==
  CASE request.mediaType = "AUDIO" -> request.given \cap {"audio"}
    [] request.mediaType = "VIDEO" -> request.given \cap Videos
    [] OTHER -> {}

InsertPodcast(c) ==
  /\ edit[c].pc = "insert_podcast"
  /\ IF PodcastSlugTaken THEN Reply(c) /\ UNCHANGED podcast
     ELSE \E p \in Podcasts :
            /\ podcast[p].status = "unused"
            /\ podcast' = [podcast EXCEPT ![p] = [status |-> "there", mediaType |-> edit[c].mediaType]]
            /\ \/ Reply(c)
               \/ /\ FirstSources(edit[c]) # {}
                  /\ edit' = [edit EXCEPT ![c] = [NoEdit EXCEPT !.pc = "find_podcast", !.podcast = p,
                                                                !.given = FirstSources(edit[c])]]
  /\ UNCHANGED <<episode, retyped, contested>>

(* update looks at no episode. *)
UpdatePodcast(c, p, mediaType) ==
  /\ Kept(p)
  /\ Receive(c, "write_podcast", [NoEdit EXCEPT !.podcast = p, !.mediaType = mediaType])
  /\ UNCHANGED <<podcast, episode, retyped, contested>>

WritePodcast(c) ==
  LET p == edit[c].podcast
      changed == Kept(p) /\ podcast[p].mediaType # edit[c].mediaType IN
  /\ edit[c].pc = "write_podcast"
  /\ podcast' = IF changed THEN [podcast EXCEPT ![p].mediaType = edit[c].mediaType] ELSE podcast
  /\ retyped' = IF changed THEN retyped \cup {p} ELSE retyped
  /\ Reply(c)
  /\ UNCHANGED <<episode, contested>>

DeletePodcast(c, p) ==
  /\ Kept(p)
  /\ Receive(c, "delete_podcast", [NoEdit EXCEPT !.podcast = p])
  /\ UNCHANGED <<podcast, episode, retyped, contested>>

(* The episodes go with their podcast. *)
DeletePodcastRow(c) ==
  LET p == edit[c].podcast IN
  /\ edit[c].pc = "delete_podcast"
  /\ podcast' = [podcast EXCEPT ![p].status = "deleted"]
  /\ episode' = [e \in Episodes |->
       IF episode[e].podcast = p THEN [episode[e] EXCEPT !.status = "deleted"] ELSE episode[e]]
  /\ Reply(c)
  /\ UNCHANGED <<retyped, contested>>

-----------------------------------------------------------------------------
(* EpisodesService.create. *)
CreateEpisode(c, p, given) ==
  /\ Receive(c, "find_podcast", [NoEdit EXCEPT !.podcast = p, !.given = given])
  /\ UNCHANGED <<podcast, episode, retyped, contested>>

FindPodcast(c) ==
  LET p == edit[c].podcast IN
  /\ edit[c].pc = "find_podcast"
  /\ IF Kept(p) /\ Compatible(podcast[p].mediaType, edit[c].given)
       THEN Continue(c, "find_slug") ELSE Reply(c)
  /\ UNCHANGED <<podcast, episode, retyped, contested>>

FindSlug(c) ==
  /\ edit[c].pc = "find_slug"
  /\ IF EpisodeSlugTaken(edit[c].podcast) THEN Reply(c) ELSE Continue(c, "insert_episode")
  /\ UNCHANGED <<podcast, episode, retyped, contested>>

InsertEpisode(c) ==
  LET p == edit[c].podcast IN
  /\ edit[c].pc = "insert_episode"
  /\ IF ~Kept(p) \/ EpisodeSlugTaken(p) THEN UNCHANGED episode
     ELSE \E e \in Episodes :
            /\ episode[e].status = "unused"
            /\ episode' = [episode EXCEPT ![e] = [status |-> "there", podcast |-> p, sources |-> edit[c].given]]
  /\ Reply(c)
  /\ UNCHANGED <<podcast, retyped, contested>>

(* update reads the episode; the sources it is given replace the stored    *)
(* ones, and an empty string takes one away.                               *)
UpdateEpisode(c, e, given, emptied) ==
  /\ Published(e)
  /\ given \cap emptied = {}
  /\ Receive(c, "check_update",
       [NoEdit EXCEPT !.podcast = episode[e].podcast, !.episode = e, !.given = given, !.emptied = emptied,
                      !.read = episode[e].sources])
  /\ contested' = IF \E d \in Editors : edit[d].episode = e THEN contested \cup {e} ELSE contested
  /\ UNCHANGED <<podcast, episode, retyped>>

(* The type is compared with what the row will hold if it is as read. *)
CheckUpdate(c) ==
  LET p == edit[c].podcast
      sources == (edit[c].read \ edit[c].emptied) \cup edit[c].given IN
  /\ edit[c].pc = "check_update"
  /\ IF Kept(p) /\ Compatible(podcast[p].mediaType, sources)
       THEN edit' = [edit EXCEPT ![c].pc = "write_episode", ![c].read = {}]
       ELSE Reply(c)
  /\ UNCHANGED <<podcast, episode, retyped, contested>>

(* Only the fields of the request are written. *)
WriteEpisode(c) ==
  LET e == edit[c].episode IN
  /\ edit[c].pc = "write_episode"
  /\ episode' = IF Published(e) THEN [episode EXCEPT ![e].sources = (@ \ edit[c].emptied) \cup edit[c].given]
                ELSE episode
  /\ Reply(c)
  /\ UNCHANGED <<podcast, retyped, contested>>

DeleteEpisode(c, e) ==
  /\ Published(e)
  /\ Receive(c, "delete_episode", [NoEdit EXCEPT !.podcast = episode[e].podcast, !.episode = e])
  /\ UNCHANGED <<podcast, episode, retyped, contested>>

DeleteEpisodeRow(c) ==
  /\ edit[c].pc = "delete_episode"
  /\ episode' = [episode EXCEPT ![edit[c].episode].status = "deleted"]
  /\ Reply(c)
  /\ UNCHANGED <<podcast, retyped, contested>>

-----------------------------------------------------------------------------
CatalogueInit ==
  /\ podcast = [p \in Podcasts |-> [status |-> "unused", mediaType |-> "AUDIO"]]
  /\ episode = [e \in Episodes |-> [status |-> "unused", podcast |-> NoRow, sources |-> {}]]
  /\ edit = [c \in Editors |-> NoEdit]
  /\ retyped = {}
  /\ contested = {}

CatalogueNext ==
  \E c \in Editors :
    \/ \E mediaType \in MediaType, given \in Sources : CreatePodcast(c, mediaType, given)
    \/ InsertPodcast(c) \/ WritePodcast(c) \/ DeletePodcastRow(c)
    \/ \E p \in Podcasts : \/ \E mediaType \in MediaType : UpdatePodcast(c, p, mediaType)
                           \/ DeletePodcast(c, p)
                           \/ \E given \in Sources : CreateEpisode(c, p, given)
    \/ FindPodcast(c) \/ FindSlug(c) \/ InsertEpisode(c)
    \/ \E e \in Episodes : \/ \E given, emptied \in Sources : UpdateEpisode(c, e, given, emptied)
                           \/ DeleteEpisode(c, e)
    \/ CheckUpdate(c) \/ WriteEpisode(c) \/ DeleteEpisodeRow(c)

CatalogueSpec == CatalogueInit /\ [][CatalogueNext]_catalogueVars

-----------------------------------------------------------------------------
CatalogueTypeOK ==
  /\ podcast \in [Podcasts -> Podcast]
  /\ episode \in [Episodes -> Episode]
  /\ edit \in [Editors -> Edit]
  /\ retyped \subseteq Podcasts
  /\ contested \subseteq Episodes

(* An episode belongs to a podcast that is there and has the sources its   *)
(* type demands (ensureMediaCompatibility), although the type and the row  *)
(* are read calls before the write.  The exceptions are podcasts whose     *)
(* type was changed, and episodes with a video field that two updates      *)
(* changed at a time: each may empty the field that the other one keeps,   *)
(* so that none is left; but not even these gain a source of the wrong     *)
(* kind, and an episode of an AUDIO podcast never loses its audio.         *)
EpisodesSound ==
  \A e \in Episodes : Published(e) =>
    LET p == episode[e].podcast IN
    /\ Kept(p)
    /\ \/ Compatible(podcast[p].mediaType, episode[e].sources)
       \/ p \in retyped
       \/ podcast[p].mediaType # "AUDIO" /\ e \in contested /\ episode[e].sources = {}
=============================================================================
