----------------------------- MODULE ContentProofs -----------------------------
(***************************************************************************)
(* Proofs about what readers and listeners get: responses through the      *)
(* cache (ResponseCache), the episodes of a podcast (Catalogue), the       *)
(* connections and players of the listener's page (LivePlayer) and the     *)
(* sound it schedules (LiveAudio).                                         *)
(***************************************************************************)
EXTENDS ResponseCache, Catalogue, LivePlayer, LiveAudio, FiniteSetTheorems, TLAPS

-----------------------------------------------------------------------------
(* ResponseCache.  A request is under way for at most Latency, and what it *)
(* read was current when it began; an entry expires before what it holds   *)
(* is older than a request and the time to live.                           *)
ReadersInTime ==
  \A r \in Readers :
    /\ reader[r].pc # "idle" => reader[r].since <= clock /\ clock <= reader[r].since + Latency
    /\ reader[r].pc \in {"respond", "store"} => FreshWithin(reader[r].version, reader[r].since, 0)

EntriesInTime ==
  \A k \in CacheKeys : entry[k] # Missing =>
    /\ entry[k].expires <= clock + Ttl
    /\ FreshWithin(entry[k].version, entry[k].expires, Ttl + Latency)

ShownBefore == \A k \in CacheKeys : shown[k].at <= clock

CacheInv == CacheTypeOK /\ ReadersInTime /\ EntriesInTime /\ ShownBefore /\ StaleBounded

LEMMA CacheInitial == CacheInit => CacheInv
<1> SUFFICES ASSUME CacheInit PROVE CacheInv
  OBVIOUS
<1>0. MaxChanges \in Nat /\ Ttl \in Nat /\ Latency \in Nat /\ Missing \notin Nat
  BY ResponseCacheAssumption
<1>1. 0 \in Version
  BY <1>0 DEF Version
<1>2. \A r \in Readers : reader[r] \in Reader /\ reader[r].pc = "idle"
  BY <1>1 DEF CacheInit, Reader
<1>3. reader \in [Readers -> Reader]
  BY <1>2 DEF CacheInit
<1>4. CacheTypeOK
  BY <1>1, <1>3 DEF CacheInit, CacheTypeOK
<1>5. \A k \in CacheKeys : shown[k].version = 0 /\ shown[k].at = 0
  BY DEF CacheInit
<1>6. ShownBefore /\ StaleBounded
  BY <1>5 DEF ShownBefore, StaleBounded, FreshWithin, CacheInit
<1>7. ReadersInTime
  BY <1>2 DEF ReadersInTime
<1>8. EntriesInTime
  BY DEF EntriesInTime, CacheInit
<1> QED BY <1>4, <1>6, <1>7, <1>8 DEF CacheInv

(* A version stays as fresh as it was when the data does not change, and   *)
(* is fresh for what has happened when it is replaced now.                 *)
LEMMA FreshKept ==
  ASSUME CacheTypeOK, CacheTypeOK', NEW v \in Version, NEW time \in Nat, NEW age \in Nat,
         FreshWithin(v, time, age),
         \/ UNCHANGED <<version, until>>
         \/ ChangeData /\ time <= clock + age
  PROVE  FreshWithin(v, time, age)'
<1>1. CASE UNCHANGED <<version, until>>
  BY <1>1 DEF FreshWithin
<1>2. CASE ChangeData /\ time <= clock + age
  <2>1. version \in Version /\ until \in [Version -> Nat] /\ until' = [until EXCEPT ![version] = clock]
    BY <1>2 DEF ChangeData, CacheTypeOK
  <2>2. CASE v = version
    BY <1>2, <2>1, <2>2 DEF FreshWithin
  <2>3. CASE v # version
    BY <2>1, <2>3 DEF FreshWithin
  <2> QED BY <2>2, <2>3
<1> QED BY <1>1, <1>2

(* What only the clock and the version concern. *)
LEMMA OthersKept ==
  ASSUME CacheInv, CacheTypeOK', clock' = clock \/ Tick, UNCHANGED <<version, until>> \/ ChangeData
  PROVE  /\ \A r \in Readers :
              reader'[r] = reader[r] /\ (reader[r].pc # "idle" => clock' <= reader[r].since + Latency) =>
                /\ reader'[r].pc # "idle" => reader'[r].since <= clock' /\ clock' <= reader'[r].since + Latency
                /\ reader'[r].pc \in {"respond", "store"} => FreshWithin(reader[r].version, reader[r].since, 0)'
         /\ \A k \in CacheKeys : entry'[k] = entry[k] /\ entry[k] # Missing =>
              /\ entry'[k].expires <= clock' + Ttl
              /\ FreshWithin(entry[k].version, entry[k].expires, Ttl + Latency)'
         /\ \A k \in CacheKeys : shown'[k] = shown[k] =>
              /\ shown'[k].at <= clock'
              /\ FreshWithin(shown[k].version, shown[k].at, Ttl + Latency)'
<1>0. Ttl \in Nat /\ Latency \in Nat /\ Ttl + Latency \in Nat /\ CacheTypeOK
  BY ResponseCacheAssumption DEF CacheInv
<1>1. clock \in Nat /\ clock' \in Nat /\ clock <= clock'
  BY <1>0 DEF CacheTypeOK, Tick
<1>2. ASSUME NEW r \in Readers, reader'[r] = reader[r],
             reader[r].pc # "idle" => clock' <= reader[r].since + Latency
      PROVE  /\ reader'[r].pc # "idle" => reader'[r].since <= clock' /\ clock' <= reader'[r].since + Latency
             /\ reader'[r].pc \in {"respond", "store"} => FreshWithin(reader[r].version, reader[r].since, 0)'
  <2>1. PICK v \in Version, since \in Nat : v = reader[r].version /\ since = reader[r].since
    BY <1>0 DEF CacheTypeOK, Reader
  <2>2. reader[r].pc # "idle" => since <= clock
    BY <2>1 DEF CacheInv, ReadersInTime
  <2>3. reader[r].pc \in {"respond", "store"} => FreshWithin(v, since, 0)
    BY <2>1 DEF CacheInv, ReadersInTime
  <2>4. ASSUME reader[r].pc \in {"respond", "store"} PROVE FreshWithin(v, since, 0)'
    <3>1. since <= clock + 0
      BY <1>1, <2>2, <2>4
    <3> QED BY <1>0, <2>3, <2>4, <3>1, FreshKept
  <2> QED BY <1>1, <1>2, <2>1, <2>2, <2>4
<1>3. ASSUME NEW k \in CacheKeys, entry'[k] = entry[k], entry[k] # Missing
      PROVE  /\ entry'[k].expires <= clock' + Ttl
             /\ FreshWithin(entry[k].version, entry[k].expires, Ttl + Latency)'
  <2>1. PICK v \in Version, expires \in Nat : v = entry[k].version /\ expires = entry[k].expires
    BY <1>0, <1>3 DEF CacheTypeOK, Entry
  <2>2. expires <= clock + Ttl /\ FreshWithin(v, expires, Ttl + Latency)
    BY <1>3, <2>1 DEF CacheInv, EntriesInTime
  <2>3. expires <= clock + (Ttl + Latency)
    BY <1>0, <1>1, <2>2
  <2>4. FreshWithin(v, expires, Ttl + Latency)'
    BY <1>0, <2>2, <2>3, FreshKept
  <2> QED BY <1>0, <1>1, <1>3, <2>1, <2>2, <2>4
<1>4. ASSUME NEW k \in CacheKeys, shown'[k] = shown[k]
      PROVE  /\ shown'[k].at <= clock'
             /\ FreshWithin(shown[k].version, shown[k].at, Ttl + Latency)'
  <2>1. PICK v \in Version, at \in Nat : v = shown[k].version /\ at = shown[k].at
    BY <1>0 DEF CacheTypeOK
  <2>2. at <= clock /\ FreshWithin(v, at, Ttl + Latency)
    BY <2>1 DEF CacheInv, ShownBefore, StaleBounded
  <2>3. at <= clock + (Ttl + Latency)
    BY <1>0, <1>1, <2>2
  <2>4. FreshWithin(v, at, Ttl + Latency)'
    BY <1>0, <2>2, <2>3, FreshKept
  <2> QED BY <1>1, <1>4, <2>1, <2>2, <2>4
<1> QED BY <1>2, <1>3, <1>4

LEMMA CacheTyped == ASSUME CacheInv, CacheNext PROVE CacheTypeOK'
<1>0. /\ Ttl \in Nat /\ MaxChanges \in Nat /\ Missing \notin Nat
      /\ clock \in Nat /\ version \in Version /\ until \in [Version -> Nat]
      /\ entry \in [CacheKeys -> Entry \cup {Missing}] /\ reader \in [Readers -> Reader]
      /\ shown \in [CacheKeys -> [version : Version, at : Nat]]
  BY ResponseCacheAssumption DEF CacheInv, CacheTypeOK
<1>1. ASSUME NEW r \in Readers, NEW k \in CacheKeys, Hit(r, k) PROVE CacheTypeOK'
  <2>1. entry[k] \in Entry
    BY <1>0, <1>1 DEF Hit, Live
  <2>2. [version |-> entry[k].version, at |-> clock] \in [version : Version, at : Nat]
    BY <1>0, <2>1 DEF Entry
  <2> QED BY <1>0, <1>1, <2>2 DEF Hit, CacheTypeOK
<1>2. ASSUME NEW r \in Readers, NEW k \in CacheKeys, Miss(r, k) PROVE CacheTypeOK'
  <2>1. [pc |-> "handle", key |-> k, version |-> 0, since |-> clock] \in Reader
    BY <1>0 DEF Reader, Version
  <2> QED BY <1>0, <1>2, <2>1 DEF Miss, CacheTypeOK
<1>3. ASSUME NEW r \in Readers, Handle(r) PROVE CacheTypeOK'
  <2>1. [reader[r] EXCEPT !.version = version, !.pc = "respond"] \in Reader
    BY <1>0 DEF Reader
  <2> QED BY <1>0, <1>3, <2>1 DEF Handle, CacheTypeOK
<1>4. ASSUME NEW r \in Readers, Respond(r) PROVE CacheTypeOK'
  <2>1. /\ [reader[r] EXCEPT !.pc = "store"] \in Reader
        /\ [version |-> reader[r].version, at |-> clock] \in [version : Version, at : Nat]
    BY <1>0 DEF Reader
  <2> QED BY <1>0, <1>4, <2>1 DEF Respond, CacheTypeOK
<1>5. ASSUME NEW r \in Readers, Store(r) PROVE CacheTypeOK'
  <2>1. [reader[r] EXCEPT !.pc = "idle"] \in Reader
    BY <1>0 DEF Reader
  <2>2. PICK expires \in Nat : expires = clock + Ttl
    BY <1>0
  <2>3. [version |-> reader[r].version, expires |-> expires] \in Entry
    BY <1>0 DEF Reader, Entry
  <2>4. entry' \in [CacheKeys -> Entry \cup {Missing}]
    BY <1>0, <1>5, <2>2, <2>3 DEF Store
  <2> QED BY <1>0, <1>5, <2>1, <2>4 DEF Store, CacheTypeOK
<1>6. ASSUME NEW r \in Readers, NoResponse(r) PROVE CacheTypeOK'
  <2>1. [reader[r] EXCEPT !.pc = "idle"] \in Reader
    BY <1>0 DEF Reader
  <2> QED BY <1>0, <1>6, <2>1 DEF NoResponse, CacheTypeOK
<1>7. ASSUME NEW k \in CacheKeys, Evict(k) PROVE CacheTypeOK'
  BY <1>0, <1>7 DEF Evict, CacheTypeOK
<1>8. ASSUME ChangeData PROVE CacheTypeOK'
  <2>1. version + 1 \in Version
    BY <1>0, <1>8 DEF ChangeData, Version
  <2> QED BY <1>0, <1>8, <2>1 DEF ChangeData, CacheTypeOK
<1>9. ASSUME Tick PROVE CacheTypeOK'
  BY <1>0, <1>9 DEF Tick, CacheTypeOK
<1> QED BY <1>1, <1>2, <1>3, <1>4, <1>5, <1>6, <1>7, <1>8, <1>9 DEF CacheNext

(* The parts of the invariant, from what a step makes new.                 *)
LEMMA CacheKept ==
  ASSUME CacheInv, CacheTypeOK', clock' = clock \/ Tick, UNCHANGED <<version, until>> \/ ChangeData,
         \A r \in Readers :
           \/ reader'[r] = reader[r] /\ (reader[r].pc # "idle" => clock' <= reader[r].since + Latency)
           \/ /\ reader'[r].pc # "idle" => reader'[r].since <= clock' /\ clock' <= reader'[r].since + Latency
              /\ reader'[r].pc \in {"respond", "store"} => FreshWithin(reader[r].version, reader[r].since, 0)',
         \A k \in CacheKeys :
           \/ entry'[k] = entry[k] \/ entry'[k] = Missing
           \/ entry'[k].expires <= clock' + Ttl /\ FreshWithin(entry[k].version, entry[k].expires, Ttl + Latency)',
         \A k \in CacheKeys :
           \/ shown'[k] = shown[k]
           \/ shown'[k].at <= clock' /\ FreshWithin(shown[k].version, shown[k].at, Ttl + Latency)'
  PROVE  CacheInv'
<1>1. ReadersInTime'
  BY OthersKept DEF ReadersInTime
<1>2. EntriesInTime'
  BY OthersKept DEF EntriesInTime
<1>3. ShownBefore' /\ StaleBounded'
  BY OthersKept DEF ShownBefore, StaleBounded
<1> QED BY <1>1, <1>2, <1>3 DEF CacheInv

LEMMA CacheStep == ASSUME CacheInv, [CacheNext]_cacheVars PROVE CacheInv'
<1>1. CASE UNCHANGED cacheVars
  BY <1>1 DEF cacheVars, CacheInv, CacheTypeOK, ReadersInTime, EntriesInTime, ShownBefore, StaleBounded,
              FreshWithin
<1> SUFFICES ASSUME CacheNext PROVE CacheInv'
  BY <1>1
<1>2. CacheTypeOK'
  BY CacheTyped
<1>0. /\ Ttl \in Nat /\ Latency \in Nat /\ Ttl + Latency \in Nat /\ clock \in Nat
      /\ version \in Version /\ until \in [Version -> Nat]
      /\ entry \in [CacheKeys -> Entry \cup {Missing}] /\ reader \in [Readers -> Reader]
      /\ shown \in [CacheKeys -> [version : Version, at : Nat]]
  BY ResponseCacheAssumption DEF CacheInv, CacheTypeOK
<1>3. \A r \in Readers : reader[r].pc # "idle" => reader[r].since <= clock /\ clock <= reader[r].since + Latency
  BY DEF CacheInv, ReadersInTime
<1>4. ASSUME NEW r \in Readers, NEW k \in CacheKeys, Hit(r, k) PROVE CacheInv'
  <2>1. PICK v \in Version, expires \in Nat : v = entry[k].version /\ expires = entry[k].expires
    BY <1>0, <1>4 DEF Hit, Live, Entry
  <2>2. clock < expires /\ FreshWithin(v, expires, Ttl + Latency)
    BY <1>4, <2>1 DEF Hit, Live, CacheInv, EntriesInTime
  <2>3. v = version \/ clock <= until[v] + (Ttl + Latency)
    <3>1. until[v] \in Nat
      BY <1>0
    <3> QED BY <1>0, <2>2, <3>1 DEF FreshWithin
  <2>4. FreshWithin(shown[k].version, shown[k].at, Ttl + Latency)' /\ shown'[k].at <= clock'
    BY <1>0, <1>4, <2>1, <2>3 DEF Hit, FreshWithin
  <2> QED BY <1>0, <1>2, <1>3, <1>4, <2>4, CacheKept DEF Hit
<1>5. ASSUME NEW r \in Readers, NEW k \in CacheKeys, Miss(r, k) PROVE CacheInv'
  <2>1. reader'[r].pc = "handle" /\ reader'[r].since = clock'
    BY <1>0, <1>5 DEF Miss
  <2>2. reader'[r].since <= clock' /\ clock' <= reader'[r].since + Latency
    BY <1>0, <1>5, <2>1 DEF Miss
  <2> QED BY <1>0, <1>2, <1>3, <1>5, <2>1, <2>2, CacheKept DEF Miss
<1>6. ASSUME NEW r \in Readers, Handle(r) PROVE CacheInv'
  <2>1. /\ reader'[r].version = version' /\ reader'[r].since = reader[r].since
    BY <1>0, <1>6 DEF Handle, Reader
  <2>2. reader'[r].since <= clock' /\ clock' <= reader'[r].since + Latency
    BY <1>3, <1>6, <2>1 DEF Handle
  <2> QED BY <1>0, <1>2, <1>3, <1>6, <2>1, <2>2, CacheKept DEF Handle, FreshWithin
<1>7. ASSUME NEW r \in Readers, Respond(r) PROVE CacheInv'
  <2>1. PICK v \in Version, since \in Nat : v = reader[r].version /\ since = reader[r].since
    BY <1>0 DEF Reader
  <2>2. /\ since <= clock /\ clock <= since + Latency
        /\ v = version \/ since <= until[v]
    <3>1. until[v] \in Nat
      BY <1>0
    <3> QED BY <1>3, <1>7, <2>1, <3>1 DEF Respond, CacheInv, ReadersInTime, FreshWithin
  <2>3. v = version \/ clock <= until[v] + (Ttl + Latency)
    <3>1. until[v] \in Nat
      BY <1>0
    <3> QED BY <1>0, <2>2, <3>1
  <2>4. reader'[r].pc = "store" /\ reader'[r].version = v /\ reader'[r].since = since
    BY <1>0, <1>7, <2>1 DEF Respond, Reader
  <2>5. /\ reader'[r].since <= clock' /\ clock' <= reader'[r].since + Latency
        /\ FreshWithin(reader[r].version, reader[r].since, 0)'
    <3>1. until[v] \in Nat
      BY <1>0
    <3> QED BY <1>7, <2>2, <2>4, <3>1 DEF Respond, FreshWithin
  <2>6. ASSUME NEW k \in CacheKeys, shown'[k] # shown[k]
        PROVE  shown'[k].at <= clock' /\ FreshWithin(shown[k].version, shown[k].at, Ttl + Latency)'
    <3>1. shown'[k].version = v /\ shown'[k].at = clock
      BY <1>0, <1>7, <2>1, <2>6 DEF Respond
    <3> QED BY <1>0, <1>7, <2>3, <3>1 DEF Respond, FreshWithin
  <2>7. \A q \in Readers : q = r \/ reader'[q] = reader[q]
    BY <1>0, <1>7 DEF Respond
  <2> QED BY <1>2, <1>3, <1>7, <2>5, <2>6, <2>7, CacheKept DEF Respond
<1>8. ASSUME NEW r \in Readers, Store(r) PROVE CacheInv'
  <2>1. PICK v \in Version, since \in Nat : v = reader[r].version /\ since = reader[r].since
    BY <1>0 DEF Reader
  <2>2. /\ since <= clock /\ clock <= since + Latency
        /\ v = version \/ since <= until[v]
    <3>1. until[v] \in Nat
      BY <1>0
    <3> QED BY <1>3, <1>8, <2>1, <3>1 DEF Store, CacheInv, ReadersInTime, FreshWithin
  <2>3. v = version \/ clock + Ttl <= until[v] + (Ttl + Latency)
    <3>1. until[v] \in Nat
      BY <1>0
    <3> QED BY <1>0, <2>2, <3>1
  <2>4. reader'[r].pc = "idle"
    BY <1>0, <1>8 DEF Store, Reader
  <2>5. ASSUME NEW k \in CacheKeys, entry'[k] # entry[k]
        PROVE  entry'[k].expires <= clock' + Ttl /\ FreshWithin(entry[k].version, entry[k].expires, Ttl + Latency)'
    <3>1. entry'[k].version = v /\ entry'[k].expires = clock + Ttl
      BY <1>0, <1>8, <2>1, <2>5 DEF Store
    <3> QED BY <1>0, <1>8, <2>3, <3>1 DEF Store, FreshWithin
  <2>6. \A q \in Readers : q = r \/ reader'[q] = reader[q]
    BY <1>0, <1>8 DEF Store
  <2> QED BY <1>2, <1>3, <1>8, <2>4, <2>5, <2>6, CacheKept DEF Store
<1>9. ASSUME NEW r \in Readers, NoResponse(r) PROVE CacheInv'
  BY <1>0, <1>2, <1>3, <1>9, CacheKept DEF NoResponse
<1>10. ASSUME NEW k \in CacheKeys, Evict(k) PROVE CacheInv'
  BY <1>0, <1>2, <1>3, <1>10, CacheKept DEF Evict
<1>11. ASSUME ChangeData PROVE CacheInv'
  <2>1. clock' = clock /\ UNCHANGED <<entry, reader, shown>>
    BY <1>11 DEF ChangeData
  <2> QED BY <1>2, <1>3, <1>11, <2>1, CacheKept
<1>12. ASSUME Tick PROVE CacheInv'
  <2>1. UNCHANGED <<version, until, entry, reader, shown>>
    BY <1>12 DEF Tick
  <2>2. ASSUME NEW r \in Readers, reader[r].pc # "idle" PROVE clock' <= reader[r].since + Latency
    <3>1. PICK since \in Nat : since = reader[r].since
      BY <1>0 DEF Reader
    <3>2. clock < since + Latency /\ clock' = clock + 1
      BY <1>12, <2>2, <3>1 DEF Tick
    <3> QED BY <1>0, <3>1, <3>2
  <2> QED BY <1>2, <1>12, <2>1, <2>2, CacheKept
<1> QED BY <1>4, <1>5, <1>6, <1>7, <1>8, <1>9, <1>10, <1>11, <1>12 DEF CacheNext

(* No reader is shown data that was replaced longer ago than the time to   *)
(* live and one request (HttpCacheInterceptor, RssService.getFeed), for    *)
(* any number of them and however long the requests overlap.               *)
THEOREM StaleBoundedCorrect == CacheSpec => []StaleBounded
<1>1. CacheInv /\ [CacheNext]_cacheVars => CacheInv'
  BY CacheStep
<1>2. CacheInv => StaleBounded
  BY DEF CacheInv
<1> QED BY <1>1, <1>2, CacheInitial, PTL DEF CacheSpec

-----------------------------------------------------------------------------
(* Catalogue.  A request that has found its podcast works on one that is   *)
(* there or was, and a row keeps its podcast.                              *)
EditFound(c) ==
  /\ edit[c].pc \notin {"idle", "insert_podcast"} => edit[c].podcast \in Podcasts
  /\ edit[c].pc \in {"find_slug", "insert_episode", "write_podcast", "delete_podcast", "check_update",
                     "write_episode", "delete_episode"} => podcast[edit[c].podcast].status # "unused"
  /\ edit[c].pc \in {"check_update", "write_episode", "delete_episode"} =>
       /\ edit[c].episode \in Episodes
       /\ episode[edit[c].episode].status # "unused"
       /\ episode[edit[c].episode].podcast = edit[c].podcast

EpisodesPlaced == \A e \in Episodes : Published(e) => episode[e].podcast \in Podcasts

(* An update takes the audio from no AUDIO podcast's episode and brings    *)
(* nothing of the wrong kind.                                              *)
Fits(mediaType, given, emptied) ==
  /\ mediaType = "AUDIO" => given \subseteq {"audio"} /\ ("audio" \in given \/ "audio" \notin emptied)
  /\ mediaType = "VIDEO" => given \subseteq Videos

(* What a request was checked against still holds when it is written, but  *)
(* for podcasts whose type was changed.                                    *)
CheckLasts(c) ==
  LET p == edit[c].podcast IN
  /\ edit[c].pc \in {"find_slug", "insert_episode"} =>
       Compatible(podcast[p].mediaType, edit[c].given) \/ p \in retyped
  /\ edit[c].pc = "write_episode" =>
       Fits(podcast[p].mediaType, edit[c].given, edit[c].emptied) \/ p \in retyped

Updates(c) == edit[c].pc \in {"check_update", "write_episode"}

(* An update that has its episode to itself finds the sources it read, and *)
(* after the check it leaves the episode one.                              *)
ReadLasts(c) ==
  LET e == edit[c].episode IN
  Updates(c) /\ e \notin contested =>
    /\ Published(e) => IF edit[c].pc = "check_update" THEN edit[c].read = episode[e].sources
                       ELSE (episode[e].sources \ edit[c].emptied) \cup edit[c].given # {}
    /\ \A d \in Editors : d # c /\ Updates(d) => edit[d].episode # e

EditsFound == \A c \in Editors : EditFound(c)
ChecksLast == \A c \in Editors : CheckLasts(c)
ReadsLast == \A c \in Editors : ReadLasts(c)

CatalogueInv ==
  CatalogueTypeOK /\ EditsFound /\ EpisodesPlaced /\ ChecksLast /\ ReadsLast /\ EpisodesSound

(* A check that passed makes an update fit, whatever it read, and one that *)
(* fits leaves a sound row sound or without any source.                    *)
LEMMA CheckFits ==
  ASSUME NEW mediaType \in MediaType, NEW read \in Sources, NEW given \in Sources, NEW emptied \in Sources,
         Compatible(mediaType, (read \ emptied) \cup given)
  PROVE  Fits(mediaType, given, emptied)
<1>1. CASE mediaType = "AUDIO"
  <2>1. (read \ emptied) \cup given = {"audio"}
    BY <1>1 DEF Compatible
  <2>2. given \subseteq {"audio"} /\ ("audio" \in given \/ "audio" \notin emptied)
    BY <2>1
  <2> QED BY <1>1, <2>2 DEF Fits
<1>2. CASE mediaType # "AUDIO"
  BY <1>2 DEF Compatible, Fits
<1> QED BY <1>1, <1>2

LEMMA WriteSound ==
  ASSUME NEW mediaType \in MediaType, NEW sources \in Sources, NEW given \in Sources, NEW emptied \in Sources,
         Fits(mediaType, given, emptied),
         Compatible(mediaType, sources) \/ (mediaType # "AUDIO" /\ sources = {})
  PROVE  LET written == (sources \ emptied) \cup given IN
         Compatible(mediaType, written) \/ (mediaType # "AUDIO" /\ written = {})
<1>1. CASE mediaType = "AUDIO"
  <2>1. sources = {"audio"} /\ given \subseteq {"audio"} /\ ("audio" \in given \/ "audio" \notin emptied)
    BY <1>1 DEF Compatible, Fits
  <2>2. (sources \ emptied) \cup given = {"audio"}
    BY <2>1
  <2> QED BY <1>1, <2>2 DEF Compatible
<1>2. CASE mediaType # "AUDIO"
  BY <1>2 DEF Compatible, Fits
<1> QED BY <1>1, <1>2

LEMMA CatalogueInitial == CatalogueInit => CatalogueInv
<1> SUFFICES ASSUME CatalogueInit PROVE CatalogueInv
  OBVIOUS
<1>1. [status |-> "unused", mediaType |-> "AUDIO"] \in Podcast
  BY DEF Podcast, MediaType
<1>2. [status |-> "unused", podcast |-> NoRow, sources |-> {}] \in Episode
  BY DEF Episode, Sources
<1>3. NoEdit \in Edit
  BY DEF NoEdit, Edit, MediaType, Sources
<1>4. CatalogueTypeOK
  BY <1>1, <1>2, <1>3 DEF CatalogueInit, CatalogueTypeOK
<1>5. \A c \in Editors : edit[c].pc = "idle"
  BY DEF CatalogueInit, NoEdit
<1>6. \A e \in Episodes : episode[e].status = "unused"
  BY DEF CatalogueInit
<1> QED BY <1>4, <1>5, <1>6 DEF CatalogueInv, EditsFound, EpisodesPlaced, ChecksLast, ReadsLast,
                                EpisodesSound, Published, EditFound, CheckLasts, ReadLasts,
                                Updates

(* A request that starts, goes on or ends keeps its shape. *)
LEMMA EditShapes ==
  ASSUME NEW c \in Editors, edit \in [Editors -> Edit]
  PROVE  /\ Reply(c) => edit' \in [Editors -> Edit]
         /\ \A pc \in {"find_slug", "insert_episode", "write_episode"} :
              Continue(c, pc) => edit' \in [Editors -> Edit] /\ edit'[c] = [edit[c] EXCEPT !.pc = pc]
<1>1. NoEdit \in Edit
  BY DEF NoEdit, Edit, MediaType, Sources
<1>2. \A pc \in {"find_slug", "insert_episode", "write_episode"} : [edit[c] EXCEPT !.pc = pc] \in Edit
  BY DEF Edit
<1> QED BY <1>1, <1>2 DEF Reply, Continue

LEMMA CatalogueTyped == ASSUME CatalogueInv, CatalogueNext PROVE CatalogueTypeOK'
<1>0. /\ podcast \in [Podcasts -> Podcast] /\ episode \in [Episodes -> Episode]
      /\ edit \in [Editors -> Edit] /\ retyped \subseteq Podcasts /\ contested \subseteq Episodes
  BY DEF CatalogueInv, CatalogueTypeOK
<1>1. PICK c \in Editors :
    \/ \E mediaType \in MediaType, given \in Sources : CreatePodcast(c, mediaType, given)
    \/ InsertPodcast(c) \/ WritePodcast(c) \/ DeletePodcastRow(c)
    \/ \E p \in Podcasts : \/ \E mediaType \in MediaType : UpdatePodcast(c, p, mediaType)
                           \/ DeletePodcast(c, p)
                           \/ \E given \in Sources : CreateEpisode(c, p, given)
    \/ FindPodcast(c) \/ FindSlug(c) \/ InsertEpisode(c)
    \/ \E e \in Episodes : \/ \E given, emptied \in Sources : UpdateEpisode(c, e, given, emptied)
                           \/ DeleteEpisode(c, e)
    \/ CheckUpdate(c) \/ WriteEpisode(c) \/ DeleteEpisodeRow(c)
  BY DEF CatalogueNext
<1> USE <1>0
<1> SUFFICES podcast' \in [Podcasts -> Podcast] /\ episode' \in [Episodes -> Episode]
             /\ edit' \in [Editors -> Edit] /\ retyped' \subseteq Podcasts /\ contested' \subseteq Episodes
  BY DEF CatalogueTypeOK
<1>2. ASSUME NEW mediaType \in MediaType, NEW given \in Sources, CreatePodcast(c, mediaType, given)
      PROVE  edit' \in [Editors -> Edit] /\ UNCHANGED <<podcast, episode, retyped, contested>>
  <2>1. [[NoEdit EXCEPT !.mediaType = mediaType, !.given = given] EXCEPT !.pc = "insert_podcast"] \in Edit
    BY DEF NoEdit, Edit, Sources
  <2> QED BY <1>2, <2>1 DEF CreatePodcast, Receive
<1>3. ASSUME NEW p \in Podcasts, NEW mediaType \in MediaType, UpdatePodcast(c, p, mediaType)
      PROVE  edit' \in [Editors -> Edit] /\ UNCHANGED <<podcast, episode, retyped, contested>>
  <2>1. [[NoEdit EXCEPT !.podcast = p, !.mediaType = mediaType] EXCEPT !.pc = "write_podcast"] \in Edit
    BY DEF NoEdit, Edit, Sources
  <2> QED BY <1>3, <2>1 DEF UpdatePodcast, Receive
<1>4. ASSUME NEW p \in Podcasts, DeletePodcast(c, p)
      PROVE  edit' \in [Editors -> Edit] /\ UNCHANGED <<podcast, episode, retyped, contested>>
  <2>1. [[NoEdit EXCEPT !.podcast = p] EXCEPT !.pc = "delete_podcast"] \in Edit
    BY DEF NoEdit, Edit, Sources, MediaType
  <2> QED BY <1>4, <2>1 DEF DeletePodcast, Receive
<1>5. ASSUME NEW p \in Podcasts, NEW given \in Sources, CreateEpisode(c, p, given)
      PROVE  edit' \in [Editors -> Edit] /\ UNCHANGED <<podcast, episode, retyped, contested>>
  <2>1. [[NoEdit EXCEPT !.podcast = p, !.given = given] EXCEPT !.pc = "find_podcast"] \in Edit
    BY DEF NoEdit, Edit, Sources, MediaType
  <2> QED BY <1>5, <2>1 DEF CreateEpisode, Receive
<1>6. ASSUME NEW e \in Episodes, DeleteEpisode(c, e)
      PROVE  edit' \in [Editors -> Edit] /\ UNCHANGED <<podcast, episode, retyped, contested>>
  <2>1. episode[e].podcast \in Podcasts \cup {NoRow}
    BY DEF Episode
  <2>2. [[NoEdit EXCEPT !.podcast = episode[e].podcast, !.episode = e] EXCEPT !.pc = "delete_episode"] \in Edit
    BY <2>1 DEF NoEdit, Edit, Sources, MediaType
  <2> QED BY <1>6, <2>2 DEF DeleteEpisode, Receive
<1>7. ASSUME NEW e \in Episodes, NEW given \in Sources, NEW emptied \in Sources,
             UpdateEpisode(c, e, given, emptied)
      PROVE  /\ edit' \in [Editors -> Edit] /\ UNCHANGED <<podcast, episode, retyped>>
             /\ contested' \subseteq Episodes
  <2>1. episode[e].podcast \in Podcasts \cup {NoRow} /\ episode[e].sources \in Sources
    BY DEF Episode
  <2>2. [[NoEdit EXCEPT !.podcast = episode[e].podcast, !.episode = e, !.given = given, !.emptied = emptied,
                        !.read = episode[e].sources] EXCEPT !.pc = "check_update"] \in Edit
    BY <2>1 DEF NoEdit, Edit, MediaType
  <2> QED BY <1>7, <2>2 DEF UpdateEpisode, Receive
<1>8. ASSUME FindPodcast(c) \/ FindSlug(c) \/ CheckUpdate(c)
      PROVE  edit' \in [Editors -> Edit] /\ UNCHANGED <<podcast, episode, retyped, contested>>
  <2>1. [edit[c] EXCEPT !.pc = "write_episode", !.read = {}] \in Edit
    BY DEF Edit, Sources
  <2> QED BY <1>8, <2>1, EditShapes DEF FindPodcast, FindSlug, CheckUpdate
<1>9. ASSUME InsertPodcast(c)
      PROVE  /\ edit' \in [Editors -> Edit] /\ podcast' \in [Podcasts -> Podcast]
             /\ UNCHANGED <<episode, retyped, contested>>
  <2>1. CASE Reply(c) /\ UNCHANGED podcast
    BY <1>9, <2>1, EditShapes DEF InsertPodcast
  <2>2. ASSUME NEW p \in Podcasts,
               podcast' = [podcast EXCEPT ![p] = [status |-> "there", mediaType |-> edit[c].mediaType]],
               \/ Reply(c)
               \/ edit' = [edit EXCEPT ![c] = [NoEdit EXCEPT !.pc = "find_podcast", !.podcast = p,
                                                             !.given = FirstSources(edit[c])]]
        PROVE  edit' \in [Editors -> Edit] /\ podcast' \in [Podcasts -> Podcast]
    <3>1. edit[c].mediaType \in MediaType /\ edit[c].given \in Sources
      BY DEF Edit
    <3>2. [status |-> "there", mediaType |-> edit[c].mediaType] \in Podcast
      BY <3>1 DEF Podcast
    <3>3. FirstSources(edit[c]) \in Sources
      <4>1. FirstSources(edit[c]) \subseteq {"audio"} \cup Videos
        BY DEF FirstSources
      <4> QED BY <4>1 DEF Sources
    <3>4. [NoEdit EXCEPT !.pc = "find_podcast", !.podcast = p, !.given = FirstSources(edit[c])] \in Edit
      BY <3>3 DEF NoEdit, Edit, Sources, MediaType
    <3> QED BY <2>2, <3>2, <3>4, EditShapes
  <2> QED BY <1>9, <2>1, <2>2 DEF InsertPodcast
<1>10. ASSUME WritePodcast(c)
       PROVE  /\ edit' \in [Editors -> Edit] /\ podcast' \in [Podcasts -> Podcast]
              /\ retyped' \subseteq Podcasts /\ UNCHANGED <<episode, contested>>
  <2>1. edit[c].mediaType \in MediaType /\ edit[c].podcast \in Podcasts
    BY <1>10 DEF Edit, WritePodcast, CatalogueInv, EditsFound, EditFound
  <2>2. [podcast[edit[c].podcast] EXCEPT !.mediaType = edit[c].mediaType] \in Podcast
    BY <2>1 DEF Podcast
  <2>3. podcast' \in [Podcasts -> Podcast] /\ retyped' \subseteq Podcasts
    BY <1>10, <2>1, <2>2 DEF WritePodcast
  <2> QED BY <1>10, <2>3, EditShapes DEF WritePodcast
<1>11. ASSUME DeletePodcastRow(c)
       PROVE  /\ edit' \in [Editors -> Edit] /\ podcast' \in [Podcasts -> Podcast]
              /\ episode' \in [Episodes -> Episode] /\ UNCHANGED <<retyped, contested>>
  <2>1. \A p \in Podcasts : [podcast[p] EXCEPT !.status = "deleted"] \in Podcast
    BY DEF Podcast
  <2>2. \A e \in Episodes : [episode[e] EXCEPT !.status = "deleted"] \in Episode
    BY DEF Episode
  <2>3. podcast' \in [Podcasts -> Podcast]
    BY <1>11, <2>1 DEF DeletePodcastRow
  <2>4. episode' \in [Episodes -> Episode]
    BY <1>11, <2>2 DEF DeletePodcastRow
  <2> QED BY <1>11, <2>3, <2>4, EditShapes DEF DeletePodcastRow
<1>12. ASSUME InsertEpisode(c)
       PROVE  /\ edit' \in [Editors -> Edit] /\ episode' \in [Episodes -> Episode]
              /\ UNCHANGED <<podcast, retyped, contested>>
  <2>1. [status |-> "there", podcast |-> edit[c].podcast, sources |-> edit[c].given] \in Episode
    BY DEF Edit, Episode
  <2>2. episode' \in [Episodes -> Episode]
    BY <1>12, <2>1 DEF InsertEpisode
  <2> QED BY <1>12, <2>2, EditShapes DEF InsertEpisode
<1>13. ASSUME WriteEpisode(c)
       PROVE  /\ edit' \in [Editors -> Edit] /\ episode' \in [Episodes -> Episode]
              /\ UNCHANGED <<podcast, retyped, contested>>
  <2>1. /\ edit[c].episode \in Episodes /\ edit[c].emptied \in Sources /\ edit[c].given \in Sources
    BY <1>13 DEF Edit, WriteEpisode, CatalogueInv, EditsFound, EditFound
  <2>2. [episode[edit[c].episode] EXCEPT !.sources = (@ \ edit[c].emptied) \cup edit[c].given] \in Episode
    BY <2>1 DEF Episode, Sources
  <2>3. episode' \in [Episodes -> Episode]
    BY <1>13, <2>1, <2>2 DEF WriteEpisode
  <2> QED BY <1>13, <2>3, EditShapes DEF WriteEpisode
<1>14. ASSUME DeleteEpisodeRow(c)
       PROVE  /\ edit' \in [Editors -> Edit] /\ episode' \in [Episodes -> Episode]
              /\ UNCHANGED <<podcast, retyped, contested>>
  <2>1. \A e \in Episodes : [episode[e] EXCEPT !.status = "deleted"] \in Episode
    BY DEF Episode
  <2>2. episode' \in [Episodes -> Episode]
    BY <1>14, <2>1 DEF DeleteEpisodeRow
  <2> QED BY <1>14, <2>2, EditShapes DEF DeleteEpisodeRow
<1> QED BY <1>1, <1>2, <1>3, <1>4, <1>5, <1>6, <1>7, <1>8, <1>9, <1>10, <1>11, <1>12, <1>13, <1>14

(* Rows that were inserted stay, deleted or not, as far as the checks of   *)
(* a request are concerned.                                                *)
RowsLast ==
  /\ \A p \in Podcasts : podcast[p].status # "unused" =>
       /\ podcast'[p].status # "unused"
       /\ podcast'[p].mediaType = podcast[p].mediaType \/ p \in retyped'
  /\ retyped \subseteq retyped'
  /\ \A e \in Episodes : episode[e].status # "unused" =>
       episode'[e].status # "unused" /\ episode'[e].podcast = episode[e].podcast

LEMMA EditsKept ==
  ASSUME CatalogueInv, RowsLast, NEW c \in Editors,
         \A d \in Editors \ {c} : edit'[d] = edit[d], EditFound(c)', CheckLasts(c)'
  PROVE  EditsFound' /\ ChecksLast'
<1>1. ASSUME NEW d \in Editors \ {c} PROVE EditFound(d)' /\ CheckLasts(d)'
  <2>1. edit'[d] = edit[d] /\ EditFound(d) /\ CheckLasts(d)
    BY DEF CatalogueInv, EditsFound, ChecksLast
  <2>2. EditFound(d)'
    BY <2>1 DEF EditFound, RowsLast
  <2>3. ASSUME edit[d].pc \in {"find_slug", "insert_episode", "write_episode"}
        PROVE  LET p == edit[d].podcast IN
               podcast'[p].mediaType = podcast[p].mediaType \/ p \in retyped'
    BY <2>1, <2>3 DEF EditFound, RowsLast
  <2>4. CheckLasts(d)'
    BY <2>1, <2>3 DEF CheckLasts, RowsLast, Compatible
  <2> QED BY <2>2, <2>4
<1> QED BY <1>1 DEF EditsFound, ChecksLast

(* No update begins or goes on, and no update's episode is touched.        *)
LEMMA ReadsKept ==
  ASSUME CatalogueInv, contested \subseteq contested',
         \A d \in Editors : Updates(d)' =>
           /\ edit'[d] = edit[d]
           /\ edit[d].episode \notin contested' /\ Published(edit[d].episode)' =>
                /\ Published(edit[d].episode)
                /\ episode'[edit[d].episode].sources = episode[edit[d].episode].sources
  PROVE  ReadsLast'
<1> SUFFICES ASSUME NEW c \in Editors PROVE ReadLasts(c)'
  BY DEF ReadsLast
<1>1. CASE ~(Updates(c)' /\ edit'[c].episode \notin contested')
  BY <1>1 DEF ReadLasts
<1>2. CASE Updates(c)' /\ edit'[c].episode \notin contested'
  <2>1. edit'[c] = edit[c] /\ Updates(c) /\ edit[c].episode \notin contested /\ edit[c].episode \notin contested'
    BY <1>2 DEF Updates
  <2>2. ReadLasts(c)
    BY DEF CatalogueInv, ReadsLast
  <2>3. \A d \in Editors : d # c /\ Updates(d)' => edit'[d].episode # edit'[c].episode
    BY <2>1, <2>2 DEF ReadLasts, Updates
  <2>4. Published(edit[c].episode)' =>
          IF edit'[c].pc = "check_update" THEN edit'[c].read = episode'[edit'[c].episode].sources
          ELSE (episode'[edit'[c].episode].sources \ edit'[c].emptied) \cup edit'[c].given # {}
    BY <1>2, <2>1, <2>2 DEF ReadLasts
  <2> QED BY <2>1, <2>3, <2>4 DEF ReadLasts, Published
<1> QED BY <1>1, <1>2

(* Episodes that are not written stay sound while their podcast is there. *)
LEMMA SoundKept ==
  ASSUME CatalogueInv, RowsLast, contested \subseteq contested',
         \A e \in Episodes : Published(e)' =>
           \/ Published(e) /\ episode'[e] = episode[e] /\ Kept(episode[e].podcast)'
           \/ /\ episode'[e].podcast \in Podcasts /\ Kept(episode[e].podcast)'
              /\ \/ Compatible(podcast'[episode'[e].podcast].mediaType, episode'[e].sources)
                 \/ episode'[e].podcast \in retyped'
                 \/ /\ podcast'[episode'[e].podcast].mediaType # "AUDIO"
                    /\ e \in contested' /\ episode'[e].sources = {}
  PROVE  EpisodesSound' /\ EpisodesPlaced'
<1> SUFFICES ASSUME NEW e \in Episodes, Published(e)'
             PROVE  /\ episode'[e].podcast \in Podcasts /\ Kept(episode[e].podcast)'
                    /\ \/ Compatible(podcast'[episode'[e].podcast].mediaType, episode'[e].sources)
                       \/ episode'[e].podcast \in retyped'
                       \/ /\ podcast'[episode'[e].podcast].mediaType # "AUDIO"
                          /\ e \in contested' /\ episode'[e].sources = {}
  BY DEF EpisodesSound, EpisodesPlaced
<1>1. CASE Published(e) /\ episode'[e] = episode[e] /\ Kept(episode[e].podcast)'
  <2>1. PICK p : p = episode[e].podcast
    OBVIOUS
  <2>2. /\ p \in Podcasts /\ Kept(p)
        /\ Compatible(podcast[p].mediaType, episode[e].sources)
             \/ p \in retyped
             \/ (podcast[p].mediaType # "AUDIO" /\ e \in contested /\ episode[e].sources = {})
    BY <1>1, <2>1 DEF CatalogueInv, EpisodesSound, EpisodesPlaced
  <2>3. podcast'[p].mediaType = podcast[p].mediaType \/ p \in retyped'
    BY <2>2 DEF RowsLast, Kept
  <2>4. episode'[e].podcast = p /\ episode'[e].sources = episode[e].sources
    BY <1>1, <2>1
  <2>5. Compatible(podcast'[p].mediaType, episode'[e].sources)
             \/ p \in retyped'
             \/ (podcast'[p].mediaType # "AUDIO" /\ e \in contested' /\ episode'[e].sources = {})
    BY <2>2, <2>3, <2>4 DEF RowsLast
  <2> QED BY <1>1, <2>1, <2>2, <2>4, <2>5
<1>2. CASE ~(Published(e) /\ episode'[e] = episode[e] /\ Kept(episode[e].podcast)')
  BY <1>2
<1> QED BY <1>1, <1>2

(* Steps that change no row. *)
LEMMA QuietKept ==
  ASSUME CatalogueInv, CatalogueTypeOK', UNCHANGED <<podcast, episode, retyped>>, contested \subseteq contested',
         NEW c \in Editors, \A d \in Editors \ {c} : edit'[d] = edit[d],
         EditFound(c)', CheckLasts(c)',
         ReadsLast' \/ ~Updates(c)'
  PROVE  CatalogueInv'
<1>1. RowsLast
  BY DEF RowsLast
<1>2. EditsFound' /\ ChecksLast'
  BY <1>1, EditsKept
<1>3. \A e \in Episodes : Published(e)' => Published(e) /\ episode'[e] = episode[e] /\ Kept(episode[e].podcast)'
  BY DEF CatalogueInv, EpisodesSound, Published, Kept
<1>4. EpisodesSound' /\ EpisodesPlaced'
  BY <1>1, <1>3, SoundKept
<1>5. ASSUME ~Updates(c)', NEW d \in Editors, Updates(d)'
      PROVE  /\ edit'[d] = edit[d]
             /\ edit[d].episode \notin contested' /\ Published(edit[d].episode)' =>
                  /\ Published(edit[d].episode)
                  /\ episode'[edit[d].episode].sources = episode[edit[d].episode].sources
  BY <1>5 DEF Published
<1>6. ReadsLast'
  BY <1>5, ReadsKept
<1> QED BY <1>2, <1>4, <1>6 DEF CatalogueInv

LEMMA RequestKept ==
  ASSUME CatalogueInv, CatalogueTypeOK', NEW c \in Editors,
         \/ \E mediaType \in MediaType, given \in Sources : CreatePodcast(c, mediaType, given)
         \/ \E p \in Podcasts, mediaType \in MediaType : UpdatePodcast(c, p, mediaType)
         \/ \E p \in Podcasts : DeletePodcast(c, p)
         \/ \E p \in Podcasts, given \in Sources : CreateEpisode(c, p, given)
         \/ \E e \in Episodes : DeleteEpisode(c, e)
  PROVE  CatalogueInv'
<1>0. edit \in [Editors -> Edit]
  BY DEF CatalogueInv, CatalogueTypeOK
<1>1. ASSUME \A d \in Editors \ {c} : edit'[d] = edit[d], UNCHANGED <<podcast, episode, retyped, contested>>,
             edit'[c].pc \in {"insert_podcast", "find_podcast", "write_podcast", "delete_podcast", "delete_episode"},
             edit'[c].pc # "insert_podcast" => edit'[c].podcast \in Podcasts,
             edit'[c].pc \in {"write_podcast", "delete_podcast", "delete_episode"} => Kept(edit'[c].podcast),
             edit'[c].pc = "delete_episode" => /\ edit'[c].episode \in Episodes
                                               /\ episode[edit'[c].episode].status # "unused"
                                               /\ episode[edit'[c].episode].podcast = edit'[c].podcast
      PROVE  CatalogueInv'
  <2>1. EditFound(c)' /\ CheckLasts(c)' /\ ~Updates(c)'
    BY <1>1 DEF EditFound, CheckLasts, Updates, Kept
  <2> QED BY <1>1, <2>1, QuietKept
<1>2. ASSUME NEW mediaType \in MediaType, NEW given \in Sources, CreatePodcast(c, mediaType, given)
      PROVE  CatalogueInv'
  <2>1. edit'[c].pc = "insert_podcast" /\ \A d \in Editors \ {c} : edit'[d] = edit[d]
    BY <1>0, <1>2 DEF CreatePodcast, Receive, NoEdit
  <2> QED BY <1>1, <1>2, <2>1 DEF CreatePodcast
<1>3. ASSUME NEW p \in Podcasts, NEW mediaType \in MediaType, UpdatePodcast(c, p, mediaType)
      PROVE  CatalogueInv'
  <2>1. edit'[c].pc = "write_podcast" /\ edit'[c].podcast = p /\ \A d \in Editors \ {c} : edit'[d] = edit[d]
    BY <1>0, <1>3 DEF UpdatePodcast, Receive, NoEdit
  <2> QED BY <1>1, <1>3, <2>1 DEF UpdatePodcast
<1>4. ASSUME NEW p \in Podcasts, DeletePodcast(c, p) PROVE CatalogueInv'
  <2>1. edit'[c].pc = "delete_podcast" /\ edit'[c].podcast = p /\ \A d \in Editors \ {c} : edit'[d] = edit[d]
    BY <1>0, <1>4 DEF DeletePodcast, Receive, NoEdit
  <2> QED BY <1>1, <1>4, <2>1 DEF DeletePodcast
<1>5. ASSUME NEW p \in Podcasts, NEW given \in Sources, CreateEpisode(c, p, given) PROVE CatalogueInv'
  <2>1. edit'[c].pc = "find_podcast" /\ edit'[c].podcast = p /\ \A d \in Editors \ {c} : edit'[d] = edit[d]
    BY <1>0, <1>5 DEF CreateEpisode, Receive, NoEdit
  <2> QED BY <1>1, <1>5, <2>1 DEF CreateEpisode
<1>6. ASSUME NEW e \in Episodes, DeleteEpisode(c, e) PROVE CatalogueInv'
  <2>1. episode[e].podcast \in Podcasts /\ Kept(episode[e].podcast) /\ episode[e].status # "unused"
    BY <1>6 DEF DeleteEpisode, CatalogueInv, EpisodesPlaced, EpisodesSound, Published
  <2>2. /\ edit'[c].pc = "delete_episode" /\ edit'[c].podcast = episode[e].podcast /\ edit'[c].episode = e
        /\ \A d \in Editors \ {c} : edit'[d] = edit[d]
    BY <1>0, <1>6 DEF DeleteEpisode, Receive, NoEdit
  <2> QED BY <1>1, <1>6, <2>1, <2>2 DEF DeleteEpisode
<1> QED BY <1>2, <1>3, <1>4, <1>5, <1>6

LEMMA UpdateEpisodeKept ==
  ASSUME CatalogueInv, CatalogueTypeOK', NEW c \in Editors, NEW e \in Episodes,
         NEW given \in Sources, NEW emptied \in Sources, UpdateEpisode(c, e, given, emptied)
  PROVE  CatalogueInv'
<1>0. edit \in [Editors -> Edit]
  BY DEF CatalogueInv, CatalogueTypeOK
<1>1. /\ Published(e) /\ episode[e].podcast \in Podcasts /\ Kept(episode[e].podcast)
      /\ episode[e].status # "unused"
  BY DEF UpdateEpisode, CatalogueInv, EpisodesPlaced, EpisodesSound, Published
<1>2. /\ edit'[c].pc = "check_update" /\ edit'[c].podcast = episode[e].podcast /\ edit'[c].episode = e
      /\ edit'[c].read = episode[e].sources
      /\ \A d \in Editors \ {c} : edit'[d] = edit[d]
      /\ UNCHANGED <<podcast, episode, retyped>>
  BY <1>0 DEF UpdateEpisode, Receive, NoEdit
<1>3. /\ contested \subseteq contested'
      /\ e \notin contested' => \A d \in Editors : edit[d].episode # e
  BY DEF UpdateEpisode
<1>4. EditFound(c)' /\ CheckLasts(c)'
  BY <1>1, <1>2 DEF EditFound, CheckLasts, Kept
<1>5. ASSUME NEW d \in Editors PROVE ReadLasts(d)'
  <2>1. CASE d = c
    BY <1>2, <1>3, <2>1 DEF ReadLasts, Published
  <2>2. CASE d # c
    <3>1. edit'[d] = edit[d]
      BY <1>2, <2>2
    <3>2. CASE ~(Updates(d)' /\ edit'[d].episode \notin contested')
      BY <3>2 DEF ReadLasts
    <3>3. CASE Updates(d)' /\ edit'[d].episode \notin contested'
      <4>1. Updates(d) /\ edit[d].episode \notin contested' /\ edit[d].episode \notin contested
        BY <1>3, <3>1, <3>3 DEF Updates
      <4>2. ReadLasts(d)
        BY DEF CatalogueInv, ReadsLast
      <4>3. e # edit[d].episode
        BY <1>3, <4>1
      <4>4. ASSUME NEW b \in Editors, b # d, Updates(b)' PROVE edit'[b].episode # edit'[d].episode
        <5>1. CASE b = c
          BY <1>2, <3>1, <4>3, <5>1
        <5>2. CASE b # c
          BY <1>2, <3>1, <4>1, <4>2, <4>4, <5>2 DEF Updates, ReadLasts
        <5> QED BY <5>1, <5>2
      <4>5. Published(edit[d].episode)' =>
              IF edit'[d].pc = "check_update" THEN edit'[d].read = episode'[edit'[d].episode].sources
              ELSE (episode'[edit'[d].episode].sources \ edit'[d].emptied) \cup edit'[d].given # {}
        BY <1>2, <3>1, <4>1, <4>2 DEF ReadLasts, Published
      <4> QED BY <3>1, <4>4, <4>5 DEF ReadLasts, Published
    <3> QED BY <3>2, <3>3
  <2> QED BY <2>1, <2>2
<1>6. ReadsLast'
  BY <1>5 DEF ReadsLast
<1> QED BY <1>2, <1>3, <1>4, <1>6, QuietKept

LEMMA ReadKept ==
  ASSUME CatalogueInv, CatalogueTypeOK', NEW c \in Editors, FindPodcast(c) \/ FindSlug(c)
  PROVE  CatalogueInv'
<1>0. edit \in [Editors -> Edit]
  BY DEF CatalogueInv, CatalogueTypeOK
<1>1. /\ UNCHANGED <<podcast, episode, retyped, contested>>
      /\ \A d \in Editors \ {c} : edit'[d] = edit[d]
  BY <1>0 DEF FindPodcast, FindSlug, Reply, Continue
<1>2. CASE Reply(c)
  <2>1. edit'[c].pc = "idle"
    BY <1>0, <1>2 DEF Reply, NoEdit
  <2> QED BY <1>1, <2>1, QuietKept DEF EditFound, CheckLasts, Updates
<1>3. ASSUME NEW pc \in {"find_slug", "insert_episode"}, Continue(c, pc)
      PROVE  edit'[c] = [edit[c] EXCEPT !.pc = pc] /\ edit'[c].pc = pc /\ edit'[c].podcast = edit[c].podcast
             /\ edit'[c].episode = edit[c].episode /\ edit'[c].given = edit[c].given
             /\ edit'[c].emptied = edit[c].emptied /\ edit'[c].read = edit[c].read
  BY <1>0, <1>3 DEF Continue, Edit
<1>4. EditFound(c) /\ CheckLasts(c)
  BY DEF CatalogueInv, EditsFound, ChecksLast
<1>5. CASE FindPodcast(c) /\ Continue(c, "find_slug")
  <2>1. Reply(c) \/ (Kept(edit[c].podcast) /\ Compatible(podcast[edit[c].podcast].mediaType, edit[c].given))
    BY <1>5 DEF FindPodcast
  <2>2. CASE Kept(edit[c].podcast) /\ Compatible(podcast[edit[c].podcast].mediaType, edit[c].given)
    <3>1. EditFound(c)' /\ ~Updates(c)'
      BY <1>1, <1>3, <1>4, <1>5, <2>2 DEF FindPodcast, EditFound, Kept, Updates
    <3>2. CheckLasts(c)'
      BY <1>1, <1>3, <1>5, <2>2 DEF CheckLasts, Compatible
    <3> QED BY <1>1, <3>1, <3>2, QuietKept
  <2> QED BY <1>2, <2>1, <2>2
<1>6. CASE FindSlug(c) /\ Continue(c, "insert_episode")
  <2>1. EditFound(c)' /\ ~Updates(c)'
    BY <1>1, <1>3, <1>4, <1>6 DEF FindSlug, EditFound, Updates
  <2>2. CheckLasts(c)'
    BY <1>1, <1>3, <1>4, <1>6 DEF FindSlug, CheckLasts, Compatible
  <2> QED BY <1>1, <2>1, <2>2, QuietKept
<1> QED BY <1>2, <1>5, <1>6 DEF FindPodcast, FindSlug

(* Nothing of an update but where it is changes for a step of another one. *)
LEMMA CheckUpdateKept ==
  ASSUME CatalogueInv, CatalogueTypeOK', NEW c \in Editors, CheckUpdate(c) PROVE CatalogueInv'
<1>0. edit \in [Editors -> Edit] /\ podcast \in [Podcasts -> Podcast]
  BY DEF CatalogueInv, CatalogueTypeOK
<1>1. /\ UNCHANGED <<podcast, episode, retyped, contested>>
      /\ \A d \in Editors \ {c} : edit'[d] = edit[d]
  BY <1>0 DEF CheckUpdate, Reply
<1>2. CASE Reply(c)
  <2>1. edit'[c].pc = "idle"
    BY <1>0, <1>2 DEF Reply, NoEdit
  <2> QED BY <1>1, <2>1, QuietKept DEF EditFound, CheckLasts, Updates
<1>3. CASE ~Reply(c)
  <2>1. PICK read \in Sources, given \in Sources, emptied \in Sources :
          read = edit[c].read /\ given = edit[c].given /\ emptied = edit[c].emptied
    BY <1>0 DEF Edit
  <2>2. PICK p \in Podcasts, e \in Episodes : p = edit[c].podcast /\ e = edit[c].episode
    BY DEF CheckUpdate, CatalogueInv, EditsFound, EditFound
  <2>3. /\ edit[c].pc = "check_update" /\ edit'[c].pc = "write_episode"
        /\ edit'[c].podcast = p /\ edit'[c].episode = e
        /\ edit'[c].given = given /\ edit'[c].emptied = emptied
    BY <1>0, <1>3, <2>1, <2>2 DEF CheckUpdate, Edit
  <2>4. Compatible(podcast[p].mediaType, (read \ emptied) \cup given)
    BY <1>3, <2>1, <2>2 DEF CheckUpdate
  <2>5. EditFound(c)'
    BY <1>1, <2>2, <2>3 DEF CatalogueInv, EditsFound, EditFound
  <2>6. podcast[p].mediaType \in MediaType
    BY <1>0 DEF Podcast
  <2>7. Fits(podcast[p].mediaType, given, emptied)
    BY <2>4, <2>6, CheckFits
  <2>8. CheckLasts(c)'
    BY <1>1, <2>3, <2>7 DEF CheckLasts, Fits
  <2>9. \A d \in Editors : (Updates(d)' <=> Updates(d)) /\ edit'[d].episode = edit[d].episode
    BY <1>1, <2>2, <2>3 DEF Updates
  <2>10. ASSUME NEW d \in Editors PROVE ReadLasts(d)'
    <3>1. ReadLasts(d)
      BY DEF CatalogueInv, ReadsLast
    <3>2. CASE d = c
      <4>1. Updates(c) /\ e \notin contested /\ Published(e) => read = episode[e].sources
        BY <2>1, <2>2, <2>3, <3>1, <3>2 DEF ReadLasts
      <4>2. (read \ emptied) \cup given # {}
        BY <2>4 DEF Compatible
      <4> QED BY <1>1, <2>2, <2>3, <2>9, <3>1, <3>2, <4>1, <4>2 DEF ReadLasts, Published
    <3>3. CASE d # c
      <4>1. edit'[d] = edit[d]
        BY <1>1, <3>3
      <4> QED BY <1>1, <2>9, <3>1, <4>1 DEF ReadLasts, Published
    <3> QED BY <3>2, <3>3
  <2>11. ReadsLast'
    BY <2>10 DEF ReadsLast
  <2> QED BY <1>1, <2>5, <2>8, <2>11, QuietKept
<1> QED BY <1>2, <1>3

(* Steps that write a row.  The request is over or has found its podcast.  *)
LEMMA WriteKept ==
  ASSUME CatalogueInv, CatalogueTypeOK', NEW c \in Editors, RowsLast, UNCHANGED contested,
         \A d \in Editors \ {c} : edit'[d] = edit[d],
         \/ edit'[c].pc = "idle"
         \/ edit'[c].pc = "find_podcast" /\ edit'[c].podcast \in Podcasts,
         EpisodesSound', EpisodesPlaced',
         \A d \in Editors \ {c} :
           Updates(d) /\ edit[d].episode \notin contested /\ Published(edit[d].episode)' =>
             /\ Published(edit[d].episode)
             /\ episode'[edit[d].episode].sources = episode[edit[d].episode].sources
  PROVE  CatalogueInv'
<1>1. EditFound(c)' /\ CheckLasts(c)' /\ ~Updates(c)'
  BY DEF EditFound, CheckLasts, Updates
<1>2. EditsFound' /\ ChecksLast'
  BY <1>1, EditsKept
<1>3. ASSUME NEW d \in Editors, Updates(d)'
      PROVE  /\ edit'[d] = edit[d]
             /\ edit[d].episode \notin contested' /\ Published(edit[d].episode)' =>
                  /\ Published(edit[d].episode)
                  /\ episode'[edit[d].episode].sources = episode[edit[d].episode].sources
  <2>1. d # c
    BY <1>1, <1>3
  <2>2. edit'[d] = edit[d] /\ Updates(d)
    BY <1>3, <2>1 DEF Updates
  <2> QED BY <2>1, <2>2 DEF Published
<1>4. ReadsLast'
  BY <1>3, ReadsKept
<1> QED BY <1>2, <1>4 DEF CatalogueInv

LEMMA InsertPodcastKept ==
  ASSUME CatalogueInv, CatalogueTypeOK', NEW c \in Editors, InsertPodcast(c) PROVE CatalogueInv'
<1>0. podcast \in [Podcasts -> Podcast] /\ episode \in [Episodes -> Episode] /\ edit \in [Editors -> Edit]
  BY DEF CatalogueInv, CatalogueTypeOK
<1>1. /\ \A d \in Editors \ {c} : edit'[d] = edit[d]
      /\ edit'[c].pc = "idle" \/ (edit'[c].pc = "find_podcast" /\ edit'[c].podcast \in Podcasts)
      /\ UNCHANGED <<episode, retyped, contested>>
  <2>1. CASE Reply(c)
    BY <1>0, <2>1 DEF InsertPodcast, Reply, NoEdit
  <2>2. ASSUME NEW p \in Podcasts, edit' = [edit EXCEPT ![c] = [NoEdit EXCEPT !.pc = "find_podcast", !.podcast = p,
                                                                              !.given = FirstSources(edit[c])]]
        PROVE  /\ \A d \in Editors \ {c} : edit'[d] = edit[d]
               /\ edit'[c].pc = "find_podcast" /\ edit'[c].podcast = p
    BY <1>0, <2>2 DEF NoEdit
  <2> QED BY <2>1, <2>2 DEF InsertPodcast
<1>2. \A p \in Podcasts : podcast[p].status # "unused" => podcast'[p] = podcast[p]
  BY <1>0 DEF InsertPodcast
<1>3. RowsLast
  BY <1>1, <1>2 DEF RowsLast
<1>4. ASSUME NEW e \in Episodes, Published(e)'
      PROVE  Published(e) /\ episode'[e] = episode[e] /\ Kept(episode[e].podcast)'
  BY <1>1, <1>2, <1>4 DEF CatalogueInv, EpisodesSound, EpisodesPlaced, Published, Kept
<1>5. EpisodesSound' /\ EpisodesPlaced'
  BY <1>1, <1>3, <1>4, SoundKept
<1> QED BY <1>1, <1>3, <1>5, WriteKept DEF Published

LEMMA WritePodcastKept ==
  ASSUME CatalogueInv, CatalogueTypeOK', NEW c \in Editors, WritePodcast(c) PROVE CatalogueInv'
<1>0. podcast \in [Podcasts -> Podcast] /\ episode \in [Episodes -> Episode] /\ edit \in [Editors -> Edit]
  BY DEF CatalogueInv, CatalogueTypeOK
<1>1. /\ \A d \in Editors \ {c} : edit'[d] = edit[d]
      /\ edit'[c].pc = "idle" /\ UNCHANGED <<episode, contested>> /\ retyped \subseteq retyped'
  BY <1>0 DEF WritePodcast, Reply, NoEdit
<1>2. \A p \in Podcasts : /\ podcast'[p].status = podcast[p].status
                          /\ podcast'[p].mediaType = podcast[p].mediaType \/ p \in retyped'
  BY <1>0 DEF WritePodcast, Podcast
<1>3. RowsLast
  BY <1>1, <1>2 DEF RowsLast
<1>4. ASSUME NEW e \in Episodes, Published(e)'
      PROVE  Published(e) /\ episode'[e] = episode[e] /\ Kept(episode[e].podcast)'
  BY <1>1, <1>2, <1>4 DEF CatalogueInv, EpisodesSound, EpisodesPlaced, Published, Kept
<1>5. EpisodesSound' /\ EpisodesPlaced'
  BY <1>1, <1>3, <1>4, SoundKept
<1> QED BY <1>1, <1>3, <1>5, WriteKept DEF Published

LEMMA DeletePodcastRowKept ==
  ASSUME CatalogueInv, CatalogueTypeOK', NEW c \in Editors, DeletePodcastRow(c) PROVE CatalogueInv'
<1>0. podcast \in [Podcasts -> Podcast] /\ episode \in [Episodes -> Episode] /\ edit \in [Editors -> Edit]
  BY DEF CatalogueInv, CatalogueTypeOK
<1>1. /\ \A d \in Editors \ {c} : edit'[d] = edit[d]
      /\ edit'[c].pc = "idle" /\ UNCHANGED <<retyped, contested>>
  BY <1>0 DEF DeletePodcastRow, Reply, NoEdit
<1>2. \A p \in Podcasts : /\ podcast'[p].mediaType = podcast[p].mediaType
                          /\ podcast'[p].status = IF p = edit[c].podcast THEN "deleted" ELSE podcast[p].status
  BY <1>0 DEF DeletePodcastRow, Podcast
<1>3. \A e \in Episodes :
        IF episode[e].podcast = edit[c].podcast
          THEN episode'[e].status = "deleted" /\ episode'[e].podcast = episode[e].podcast
          ELSE episode'[e] = episode[e]
  BY <1>0 DEF DeletePodcastRow, Episode
<1>4. RowsLast
  BY <1>1, <1>2, <1>3 DEF RowsLast
<1>5. ASSUME NEW e \in Episodes, Published(e)'
      PROVE  Published(e) /\ episode'[e] = episode[e] /\ Kept(episode[e].podcast)'
  <2>1. episode[e].podcast # edit[c].podcast /\ episode'[e] = episode[e] /\ Published(e)
    BY <1>3, <1>5 DEF Published
  <2>2. episode[e].podcast \in Podcasts /\ Kept(episode[e].podcast)
    BY <2>1 DEF CatalogueInv, EpisodesSound, EpisodesPlaced
  <2> QED BY <1>2, <2>1, <2>2 DEF Kept
<1>6. EpisodesSound' /\ EpisodesPlaced'
  BY <1>1, <1>4, <1>5, SoundKept
<1>7. \A d \in Editors : Updates(d) => edit[d].episode \in Episodes
  BY DEF CatalogueInv, EditsFound, EditFound, Updates
<1>8. ASSUME NEW d \in Editors \ {c}, Updates(d), Published(edit[d].episode)'
      PROVE  Published(edit[d].episode) /\ episode'[edit[d].episode].sources = episode[edit[d].episode].sources
  <2>1. episode'[edit[d].episode].status = "there"
    BY <1>1, <1>8 DEF Published
  <2> QED BY <1>3, <1>7, <1>8, <2>1 DEF Published
<1> QED BY <1>1, <1>4, <1>6, <1>8, WriteKept

LEMMA InsertEpisodeKept ==
  ASSUME CatalogueInv, CatalogueTypeOK', NEW c \in Editors, InsertEpisode(c) PROVE CatalogueInv'
<1>0. podcast \in [Podcasts -> Podcast] /\ episode \in [Episodes -> Episode] /\ edit \in [Editors -> Edit]
  BY DEF CatalogueInv, CatalogueTypeOK
<1>1. /\ \A d \in Editors \ {c} : edit'[d] = edit[d]
      /\ edit'[c].pc = "idle" /\ UNCHANGED <<podcast, retyped, contested>>
  BY <1>0 DEF InsertEpisode, Reply, NoEdit
<1>2. \A e \in Episodes :
        \/ episode'[e] = episode[e]
        \/ /\ episode[e].status = "unused" /\ Kept(edit[c].podcast)
           /\ episode'[e].podcast = edit[c].podcast /\ episode'[e].sources = edit[c].given
  BY <1>0 DEF InsertEpisode
<1>3. RowsLast
  BY <1>1, <1>2 DEF RowsLast
<1>4. /\ edit[c].podcast \in Podcasts
      /\ Compatible(podcast[edit[c].podcast].mediaType, edit[c].given) \/ edit[c].podcast \in retyped
  BY DEF InsertEpisode, CatalogueInv, EditsFound, EditFound, ChecksLast, CheckLasts
<1>5. ASSUME NEW e \in Episodes, Published(e)'
      PROVE  \/ Published(e) /\ episode'[e] = episode[e] /\ Kept(episode[e].podcast)'
             \/ /\ episode'[e].podcast \in Podcasts /\ Kept(episode[e].podcast)'
                /\ \/ Compatible(podcast'[episode'[e].podcast].mediaType, episode'[e].sources)
                   \/ episode'[e].podcast \in retyped'
                   \/ /\ podcast'[episode'[e].podcast].mediaType # "AUDIO"
                      /\ e \in contested' /\ episode'[e].sources = {}
  <2>1. CASE episode'[e] = episode[e]
    BY <1>1, <1>5, <2>1 DEF CatalogueInv, EpisodesSound, EpisodesPlaced, Published, Kept
  <2>2. CASE Kept(edit[c].podcast) /\ episode'[e].podcast = edit[c].podcast
             /\ episode'[e].sources = edit[c].given
    BY <1>1, <1>4, <2>2 DEF Kept
  <2> QED BY <1>2, <2>1, <2>2
<1>6. EpisodesSound' /\ EpisodesPlaced'
  BY <1>1, <1>3, <1>5, SoundKept
<1>7. ASSUME NEW d \in Editors, Updates(d) PROVE episode'[edit[d].episode] = episode[edit[d].episode]
  BY <1>2, <1>7 DEF CatalogueInv, EditsFound, EditFound, Updates
<1> QED BY <1>1, <1>3, <1>6, <1>7, WriteKept DEF Published

LEMMA WriteEpisodeKept ==
  ASSUME CatalogueInv, CatalogueTypeOK', NEW c \in Editors, WriteEpisode(c) PROVE CatalogueInv'
<1>0. podcast \in [Podcasts -> Podcast] /\ episode \in [Episodes -> Episode] /\ edit \in [Editors -> Edit]
  BY DEF CatalogueInv, CatalogueTypeOK
<1>1. /\ \A d \in Editors \ {c} : edit'[d] = edit[d]
      /\ edit'[c].pc = "idle" /\ UNCHANGED <<podcast, retyped, contested>>
  BY <1>0 DEF WriteEpisode, Reply, NoEdit
<1>2. PICK e \in Episodes, p \in Podcasts : /\ e = edit[c].episode /\ p = edit[c].podcast
                                             /\ episode[e].podcast = p /\ episode[e].status # "unused"
  BY DEF WriteEpisode, CatalogueInv, EditsFound, EditFound
<1>3. PICK given \in Sources, emptied \in Sources, sources \in Sources :
        given = edit[c].given /\ emptied = edit[c].emptied /\ sources = episode[e].sources
  BY <1>0 DEF Edit, Episode
<1>4. /\ \A f \in Episodes \ {e} : episode'[f] = episode[f]
      /\ episode'[e].status = episode[e].status /\ episode'[e].podcast = p
      /\ episode'[e].sources = IF Published(e) THEN (sources \ emptied) \cup given ELSE sources
  BY <1>0, <1>2, <1>3 DEF WriteEpisode, Episode
<1>5. RowsLast
  BY <1>1, <1>2, <1>4 DEF RowsLast
<1>6. ASSUME Published(e)
      PROVE  \/ Compatible(podcast[p].mediaType, (sources \ emptied) \cup given)
             \/ p \in retyped
             \/ podcast[p].mediaType # "AUDIO" /\ e \in contested /\ (sources \ emptied) \cup given = {}
  <2>1. Fits(podcast[p].mediaType, given, emptied) \/ p \in retyped
    BY <1>2, <1>3 DEF WriteEpisode, CatalogueInv, ChecksLast, CheckLasts
  <2>2. \/ Compatible(podcast[p].mediaType, sources) \/ p \in retyped
        \/ podcast[p].mediaType # "AUDIO" /\ e \in contested /\ sources = {}
    BY <1>2, <1>3, <1>6 DEF CatalogueInv, EpisodesSound
  <2>3. podcast[p].mediaType \in MediaType
    BY <1>0 DEF Podcast
  <2>4. \/ p \in retyped
        \/ Compatible(podcast[p].mediaType, (sources \ emptied) \cup given)
        \/ podcast[p].mediaType # "AUDIO" /\ (sources \ emptied) \cup given = {}
    BY <2>1, <2>2, <2>3, WriteSound
  <2>5. e \in contested \/ (sources \ emptied) \cup given # {}
    BY <1>2, <1>3, <1>6 DEF WriteEpisode, CatalogueInv, ReadsLast, ReadLasts, Updates
  <2> QED BY <2>4, <2>5
<1>7. Published(e) => Kept(p)
  BY <1>2 DEF CatalogueInv, EpisodesSound
<1>8. ASSUME NEW f \in Episodes, Published(f)'
      PROVE  \/ Published(f) /\ episode'[f] = episode[f] /\ Kept(episode[f].podcast)'
             \/ /\ episode'[f].podcast \in Podcasts /\ Kept(episode[f].podcast)'
                /\ \/ Compatible(podcast'[episode'[f].podcast].mediaType, episode'[f].sources)
                   \/ episode'[f].podcast \in retyped'
                   \/ /\ podcast'[episode'[f].podcast].mediaType # "AUDIO"
                      /\ f \in contested' /\ episode'[f].sources = {}
  <2>1. CASE f = e
    <3>1. Published(e)
      BY <1>4, <1>8, <2>1 DEF Published
    <3> QED BY <1>1, <1>4, <1>6, <1>7, <2>1, <3>1 DEF Kept
  <2>2. CASE f # e
    BY <1>1, <1>4, <1>8, <2>2 DEF CatalogueInv, EpisodesSound, EpisodesPlaced, Published, Kept
  <2> QED BY <2>1, <2>2
<1>9. EpisodesSound' /\ EpisodesPlaced'
  BY <1>1, <1>5, <1>8, SoundKept
<1>10. ASSUME NEW d \in Editors \ {c}, Updates(d), edit[d].episode \notin contested
       PROVE  episode'[edit[d].episode] = episode[edit[d].episode]
  <2>1. Updates(c)
    BY DEF WriteEpisode, Updates
  <2>2. edit[d].episode # e /\ edit[d].episode \in Episodes
    BY <1>2, <1>10, <2>1 DEF CatalogueInv, ReadsLast, ReadLasts, EditsFound, EditFound, Updates
  <2> QED BY <1>4, <2>2
<1> QED BY <1>1, <1>5, <1>9, <1>10, WriteKept DEF Published

LEMMA DeleteEpisodeRowKept ==
  ASSUME CatalogueInv, CatalogueTypeOK', NEW c \in Editors, DeleteEpisodeRow(c) PROVE CatalogueInv'
<1>0. podcast \in [Podcasts -> Podcast] /\ episode \in [Episodes -> Episode] /\ edit \in [Editors -> Edit]
  BY DEF CatalogueInv, CatalogueTypeOK
<1>1. /\ \A d \in Editors \ {c} : edit'[d] = edit[d]
      /\ edit'[c].pc = "idle" /\ UNCHANGED <<podcast, retyped, contested>>
  BY <1>0 DEF DeleteEpisodeRow, Reply, NoEdit
<1>2. \A e \in Episodes :
        \/ episode'[e] = episode[e]
        \/ episode'[e].status = "deleted" /\ episode'[e].podcast = episode[e].podcast
  BY <1>0 DEF DeleteEpisodeRow, Episode
<1>3. RowsLast
  BY <1>1, <1>2 DEF RowsLast
<1>4. ASSUME NEW e \in Episodes, Published(e)'
      PROVE  Published(e) /\ episode'[e] = episode[e] /\ Kept(episode[e].podcast)'
  BY <1>1, <1>2, <1>4 DEF CatalogueInv, EpisodesSound, EpisodesPlaced, Published, Kept
<1>5. EpisodesSound' /\ EpisodesPlaced'
  BY <1>1, <1>3, <1>4, SoundKept
<1>6. ASSUME NEW d \in Editors \ {c}, Updates(d), Published(edit[d].episode)'
      PROVE  episode'[edit[d].episode] = episode[edit[d].episode]
  <2>1. edit[d].episode \in Episodes
    BY <1>6 DEF CatalogueInv, EditsFound, EditFound, Updates
  <2> QED BY <1>1, <1>2, <1>4, <1>6, <2>1 DEF Published
<1> QED BY <1>1, <1>3, <1>5, <1>6, WriteKept DEF Published

LEMMA CatalogueStep == ASSUME CatalogueInv, [CatalogueNext]_catalogueVars PROVE CatalogueInv'
<1>1. CASE UNCHANGED catalogueVars
  BY <1>1 DEF catalogueVars, CatalogueInv, CatalogueTypeOK, EditsFound, EditFound, EpisodesPlaced, ChecksLast,
              CheckLasts, ReadsLast, ReadLasts, Updates, EpisodesSound, Published, Kept, Compatible, Fits
<1>2. CASE CatalogueNext
  <2>1. CatalogueTypeOK'
    BY <1>2, CatalogueTyped
  <2> QED BY <1>2, <2>1, RequestKept, UpdateEpisodeKept, ReadKept, CheckUpdateKept, InsertPodcastKept, WritePodcastKept,
             DeletePodcastRowKept, InsertEpisodeKept, WriteEpisodeKept, DeleteEpisodeRowKept DEF CatalogueNext
<1> QED BY <1>1, <1>2

(* Whatever requests overlap, an episode belongs to a podcast that is      *)
(* there and has the sources of its type, but for the named exceptions     *)
(* (PodcastsService, EpisodesService.ensureMediaCompatibility).            *)
THEOREM EpisodesSoundCorrect == CatalogueSpec => []EpisodesSound
<1>1. CatalogueInv /\ [CatalogueNext]_catalogueVars => CatalogueInv'
  BY CatalogueStep
<1>2. CatalogueInv => EpisodesSound
  BY DEF CatalogueInv
<1> QED BY <1>1, <1>2, CatalogueInitial, PTL DEF CatalogueSpec

-----------------------------------------------------------------------------
(* LivePlayer.  The page asks for its stream before it opens anything, and *)
(* a connection that is about to join while a player is attached was lost  *)
(* once more than players were replaced.                                   *)
NothingYet == fetch = "asked" => view.loading /\ Open = {} /\ Attached = {}
LateIsGone == late => ~view.mounted
Rejoins == IF \E c \in Connections : c = socketRef /\ connection[c] \in {"connecting", "joining"} /\ hlsRef \in Attached
             THEN 1 ELSE 0
ReplacedByDrops == IsFiniteSet(replaced) /\ Cardinality(replaced) + Rejoins <= drops

References ==
  /\ Open \subseteq {socketRef}
  /\ ~view.mounted /\ Open # {} => late
  /\ Attached \subseteq {hlsRef} \cup replaced
  /\ ~view.mounted => Attached \subseteq replaced \ {hlsRef}

PlayerInv == PlayerTypeOK /\ NothingYet /\ LateIsGone /\ References /\ ReplacedByDrops

LEMMA PlayerInitial == PlayerInit => PlayerInv
<1> SUFFICES ASSUME PlayerInit PROVE PlayerInv
  OBVIOUS
<1> USE DEF PlayerInit
<1>1. Open = {} /\ Attached = {} /\ replaced = {} /\ drops = 0
  BY DEF Open, Attached
<1>2. Rejoins = 0
  BY <1>1 DEF Rejoins
<1>3. IsFiniteSet({}) /\ Cardinality({}) = 0
  BY FS_EmptySet
<1>4. ReplacedByDrops
  BY <1>1, <1>2, <1>3 DEF ReplacedByDrops
<1>5. PlayerTypeOK
  BY DEF PlayerTypeOK, View, ConnectionState, PlayerState
<1> QED BY <1>1, <1>4, <1>5 DEF PlayerInv, NothingYet, LateIsGone, References

(* Only Unmount takes the page away. *)
LEMMA ViewKept ==
  ASSUME PlayerTypeOK, PlayerNext, ~Unmount
  PROVE  view' \in View /\ view'.mounted = view.mounted
<1>1. view \in View
  BY DEF PlayerTypeOK
<1>2. CASE StreamIsLive \/ StreamUnavailable
  BY <1>1, <1>2 DEF StreamIsLive, StreamUnavailable, SetView, View
<1>3. ASSUME NEW recorded \in BOOLEAN, StreamHasEnded(recorded)
      PROVE  view' \in View /\ view'.mounted = view.mounted
  <2>1. (recorded /\ HasAudio) \in BOOLEAN /\ (~recorded) \in BOOLEAN
    OBVIOUS
  <2> QED BY <1>1, <1>3, <2>1 DEF StreamHasEnded, SetView, View
<1>4. ASSUME NEW c \in Connections,
             Connect(c) \/ Joined(c) \/ JoinRefused(c) \/ LoseConnection(c) \/ StreamEnds(c)
      PROVE  view' \in View /\ view'.mounted = view.mounted
  BY <1>1, <1>4 DEF Connect, Joined, JoinRefused, LoseConnection, StreamEnds, SetView, View
<1>5. ASSUME NEW h \in Players, HlsFails(h)
      PROVE  view' \in View /\ view'.mounted = view.mounted
  BY <1>1, <1>5 DEF HlsFails, SetView, View
<1>6. CASE ChangeRoom
  BY <1>1, <1>6 DEF ChangeRoom, View
<1> QED BY <1>2, <1>3, <1>4, <1>5, <1>6 DEF PlayerNext

(* Steps that open and close nothing. *)
LEMMA OnlyView ==
  ASSUME PlayerInv, PlayerTypeOK', view'.mounted = view.mounted,
         UNCHANGED <<connection, socketRef, player, hlsRef, replaced, late, drops>>,
         fetch' = "done" \/ (fetch' = fetch /\ (Open # {} \/ Attached # {} \/ view' = view))
  PROVE  PlayerInv'
<1>1. Open' = Open /\ Attached' = Attached /\ Rejoins' = Rejoins
  BY DEF Open, Attached, Rejoins
<1>2. ReplacedByDrops'
  BY <1>1 DEF PlayerInv, ReplacedByDrops
<1>3. References' /\ LateIsGone'
  BY <1>1 DEF PlayerInv, References, LateIsGone
<1>4. NothingYet'
  BY <1>1 DEF PlayerInv, NothingYet
<1> QED BY <1>2, <1>3, <1>4 DEF PlayerInv

(* A connection that stays open in another state.                          *)
LEMMA OpenKept ==
  ASSUME PlayerInv, NEW c \in Connections, connection[c] \notin {"unused", "closed"},
         NEW state \in ConnectionState \ {"unused", "closed"},
         connection' = [connection EXCEPT ![c] = state], UNCHANGED <<socketRef, fetch, late>>,
         view'.mounted = view.mounted
  PROVE  /\ c = socketRef /\ Open' = Open /\ connection'[socketRef] = state
         /\ NothingYet' /\ LateIsGone' /\ (~view'.mounted /\ Open' # {} => late')
         /\ connection' \in [Connections -> ConnectionState]
<1>1. connection \in [Connections -> ConnectionState]
  BY DEF PlayerInv, PlayerTypeOK
<1>2. c \in Open /\ Open' = Open
  BY <1>1 DEF Open
<1>3. c = socketRef /\ fetch # "asked"
  BY <1>2 DEF PlayerInv, References, NothingYet
<1> QED BY <1>1, <1>2, <1>3 DEF PlayerInv, NothingYet, LateIsGone, References

LEMMA ConnectionKept ==
  ASSUME PlayerInv, NEW c \in Connections, Connect(c) \/ JoinRefused(c) \/ LoseConnection(c),
         view' \in View, view'.mounted = view.mounted
  PROVE  PlayerInv'
<1>0. /\ connection \in [Connections -> ConnectionState] /\ drops \in Nat /\ PlayerTypeOK
      /\ IsFiniteSet(replaced) /\ Cardinality(replaced) \in Nat /\ Cardinality(replaced) + Rejoins <= drops
  BY FS_CardinalityType DEF PlayerInv, PlayerTypeOK, ReplacedByDrops
<1>1. PICK state \in {"joining", "refused", "connecting"} :
        /\ connection[c] \notin {"unused", "closed"}
        /\ connection' = [connection EXCEPT ![c] = state]
        /\ state = "connecting" \/ connection[c] \in {"connecting", "joining"} \/ state = "refused"
        /\ state = "connecting" => drops' = drops + 1
        /\ state # "connecting" => drops' = drops
        /\ state = "joining" => connection[c] = "connecting"
  BY DEF Connect, JoinRefused, LoseConnection
<1>2. UNCHANGED <<fetch, socketRef, player, hlsRef, replaced, late>>
  BY DEF Connect, JoinRefused, LoseConnection
<1>3. /\ c = socketRef /\ Open' = Open /\ connection'[socketRef] = state
      /\ NothingYet' /\ LateIsGone' /\ (~view'.mounted /\ Open' # {} => late')
      /\ connection' \in [Connections -> ConnectionState]
  BY <1>1, <1>2, OpenKept DEF ConnectionState
<1>4. Attached' = Attached
  BY <1>2 DEF Attached
<1>5. References'
  BY <1>2, <1>3, <1>4 DEF PlayerInv, References
<1>6. Rejoins \in {0, 1} /\ Rejoins' \in {0, 1}
  BY DEF Rejoins
<1>7. state # "connecting" => Rejoins' <= Rejoins
  <2>1. CASE state = "refused"
    <3>1. Rejoins' = 0
      <4>1. ~(\E d \in Connections : d = socketRef' /\ connection'[d] \in {"connecting", "joining"})
        BY <1>2, <1>3, <2>1
      <4> QED BY <4>1 DEF Rejoins
    <3> QED BY <1>6, <3>1
  <2>2. CASE state = "joining"
    <3>1. connection[c] = "connecting" /\ connection'[c] = "joining"
      BY <1>1, <1>3, <2>2
    <3>2. Rejoins' = Rejoins
      BY <1>2, <1>3, <1>4, <3>1 DEF Rejoins
    <3> QED BY <1>6, <3>2
  <2> QED BY <1>1, <2>1, <2>2
<1>8. drops' \in Nat /\ Cardinality(replaced') + Rejoins' <= drops'
  <2>1. CASE state = "connecting"
    BY <1>0, <1>1, <1>2, <1>6, <2>1
  <2>2. CASE state # "connecting"
    BY <1>0, <1>1, <1>2, <1>6, <1>7, <2>2
  <2> QED BY <2>1, <2>2
<1>9. PlayerTypeOK'
  BY <1>0, <1>2, <1>3, <1>8 DEF PlayerTypeOK
<1> QED BY <1>0, <1>2, <1>3, <1>5, <1>8, <1>9 DEF PlayerInv, ReplacedByDrops

LEMMA JoinedKept ==
  ASSUME PlayerInv, NEW c \in Connections, Joined(c), view' \in View, view'.mounted = view.mounted
  PROVE  PlayerInv'
<1>0. /\ connection \in [Connections -> ConnectionState] /\ drops \in Nat
      /\ player \in [Players -> PlayerState] /\ hlsRef \in Players \cup {NoRef} /\ replaced \subseteq Players
      /\ IsFiniteSet(replaced) /\ Cardinality(replaced) \in Nat /\ Cardinality(replaced) + Rejoins <= drops
  BY FS_CardinalityType DEF PlayerInv, PlayerTypeOK, ReplacedByDrops
<1>1. /\ connection[c] = "joining" /\ connection' = [connection EXCEPT ![c] = "joined"]
      /\ UNCHANGED <<fetch, socketRef, late, drops>>
      /\ InitHls \/ UNCHANGED <<player, hlsRef, replaced>>
  BY DEF Joined
<1>2. /\ c = socketRef /\ Open' = Open /\ connection'[socketRef] = "joined"
      /\ NothingYet' /\ LateIsGone' /\ (~view'.mounted /\ Open' # {} => late')
      /\ connection' \in [Connections -> ConnectionState]
  BY <1>1, OpenKept DEF ConnectionState
<1>3. Rejoins' = 0
  <2>1. ~(\E d \in Connections : d = socketRef' /\ connection'[d] \in {"connecting", "joining"})
    BY <1>1, <1>2
  <2> QED BY <2>1 DEF Rejoins
<1>4. Rejoins = IF hlsRef \in Attached THEN 1 ELSE 0
  BY <1>1, <1>2 DEF Rejoins
<1>5. CASE UNCHANGED <<player, hlsRef, replaced>>
  <2>1. Attached' = Attached
    BY <1>5 DEF Attached
  <2>2. References'
    BY <1>1, <1>2, <1>5, <2>1 DEF PlayerInv, References
  <2>3. Cardinality(replaced') + Rejoins' <= drops'
    BY <1>0, <1>1, <1>3, <1>4, <1>5
  <2>4. PlayerTypeOK'
    BY <1>1, <1>2, <1>5 DEF PlayerInv, PlayerTypeOK
  <2> QED BY <1>0, <1>2, <1>5, <2>2, <2>3, <2>4 DEF PlayerInv, ReplacedByDrops
<1>6. CASE InitHls
  <2>1. PICK h \in Players : /\ HasAudio /\ player' = [player EXCEPT ![h] = "attached"] /\ hlsRef' = h
                             /\ replaced' = replaced \cup ({hlsRef} \cap Attached)
    BY <1>6 DEF InitHls
  <2>2. Attached' = Attached \cup {h}
    BY <1>0, <2>1 DEF Attached
  <2>3. References'
    BY <1>1, <1>2, <2>1, <2>2 DEF PlayerInv, References, HasAudio
  <2>4. IsFiniteSet(replaced') /\ Cardinality(replaced') <= drops
    <3>1. CASE hlsRef \in Attached
      <4>1. replaced' = replaced \cup {hlsRef}
        BY <2>1, <3>1
      <4>2. /\ IsFiniteSet(replaced \cup {hlsRef})
            /\ \/ Cardinality(replaced \cup {hlsRef}) = Cardinality(replaced)
               \/ Cardinality(replaced \cup {hlsRef}) = Cardinality(replaced) + 1
        BY <1>0, FS_AddElement
      <4> QED BY <1>0, <1>4, <3>1, <4>1, <4>2
    <3>2. CASE hlsRef \notin Attached
      <4>1. replaced' = replaced
        BY <2>1, <3>2
      <4> QED BY <1>0, <1>4, <3>2, <4>1
    <3> QED BY <3>1, <3>2
  <2>5. ReplacedByDrops'
    <3>1. Cardinality(replaced') \in Nat
      BY <2>4, FS_CardinalityType
    <3> QED BY <1>1, <1>3, <2>4, <3>1 DEF ReplacedByDrops
  <2>6. player' \in [Players -> PlayerState] /\ replaced' \subseteq Players
    BY <1>0, <2>1 DEF PlayerState, Attached
  <2>7. PlayerTypeOK'
    BY <1>1, <1>2, <2>1, <2>6 DEF PlayerInv, PlayerTypeOK
  <2> QED BY <1>2, <2>3, <2>5, <2>7 DEF PlayerInv
<1> QED BY <1>1, <1>5, <1>6

(* A page that begins or goes on with a new connection.                    *)
LEMMA OpenedKept ==
  ASSUME PlayerInv, NEW old \in [Connections -> ConnectionState], ConnectSocket(old),
         \A c \in Connections : old[c] \in {"unused", "closed"}
  PROVE  /\ connection' \in [Connections -> ConnectionState]
         /\ socketRef' \in Connections /\ Open' = {socketRef'}
<1>1. PICK c \in Connections : connection' = [old EXCEPT ![c] = "connecting"] /\ socketRef' = c
  BY DEF ConnectSocket
<1> QED BY <1>1 DEF Open, ConnectionState

(* Every open connection is the one that is referred to. *)
LEMMA AllClosed ==
  ASSUME PlayerInv
  PROVE  /\ CloseSocket \in [Connections -> ConnectionState]
         /\ \A c \in Connections : CloseSocket[c] \in {"unused", "closed"}
         /\ DestroyHls \in [Players -> PlayerState]
         /\ {h \in Players : DestroyHls[h] = "attached"} = Attached \ {hlsRef}
<1>1. /\ connection \in [Connections -> ConnectionState] /\ player \in [Players -> PlayerState]
      /\ Open \subseteq {socketRef}
  BY DEF PlayerInv, PlayerTypeOK, References
<1>2. \A c \in Connections : c # socketRef => connection[c] \in {"unused", "closed"}
  BY <1>1 DEF Open
<1> QED BY <1>1, <1>2 DEF CloseSocket, DestroyHls, ConnectionState, PlayerState, Attached

LEMMA StreamIsLiveKept ==
  ASSUME PlayerInv, StreamIsLive, view' \in View, view'.mounted = view.mounted PROVE PlayerInv'
<1>1. /\ Open = {} /\ Attached = {} /\ fetch' = "done" /\ late' = ~view.mounted
      /\ ConnectSocket(connection) /\ UNCHANGED <<player, hlsRef, replaced, drops>>
  BY DEF StreamIsLive, PlayerInv, NothingYet
<1>2. /\ connection \in [Connections -> ConnectionState]
      /\ \A c \in Connections : connection[c] \in {"unused", "closed"}
  BY <1>1 DEF Open, PlayerInv, PlayerTypeOK
<1>3. /\ connection' \in [Connections -> ConnectionState]
      /\ socketRef' \in Connections /\ Open' = {socketRef'}
  BY <1>1, <1>2, OpenedKept
<1>4. Attached' = {} /\ Rejoins' = 0 /\ Rejoins = 0
  BY <1>1 DEF Attached, Rejoins
<1>5. PlayerTypeOK'
  BY <1>1, <1>3 DEF PlayerInv, PlayerTypeOK, View
<1>6. References' /\ LateIsGone' /\ NothingYet'
  BY <1>1, <1>3, <1>4 DEF References, LateIsGone, NothingYet
<1> QED BY <1>1, <1>4, <1>5, <1>6 DEF PlayerInv, ReplacedByDrops

LEMMA ChangeRoomKept ==
  ASSUME PlayerInv, ChangeRoom, view' \in View, view'.mounted = view.mounted PROVE PlayerInv'
<1>1. /\ view.mounted /\ ~view.loading /\ ConnectSocket(CloseSocket)
      /\ player' = DestroyHls /\ hlsRef' = NoRef /\ UNCHANGED <<fetch, replaced, late, drops>>
  BY DEF ChangeRoom, HasAudio
<1>2. fetch # "asked"
  BY <1>1 DEF PlayerInv, NothingYet
<1>3. /\ connection' \in [Connections -> ConnectionState]
      /\ socketRef' \in Connections /\ Open' = {socketRef'}
  BY <1>1, AllClosed, OpenedKept
<1>4. player' \in [Players -> PlayerState] /\ Attached' = Attached \ {hlsRef}
  BY <1>1, AllClosed DEF Attached
<1>5. Rejoins' = 0
  <2>1. NoRef \notin Players
    BY LivePlayerAssumption
  <2> QED BY <1>1, <2>1 DEF Rejoins, Attached
<1>6. PlayerTypeOK'
  BY <1>1, <1>3, <1>4 DEF PlayerInv, PlayerTypeOK
<1>7. References' /\ LateIsGone' /\ NothingYet'
  BY <1>1, <1>2, <1>3, <1>4 DEF References, LateIsGone, NothingYet, PlayerInv
<1>8. ReplacedByDrops'
  <2>1. IsFiniteSet(replaced) /\ Cardinality(replaced) \in Nat /\ drops \in Nat /\ Rejoins \in {0, 1}
        /\ Cardinality(replaced) + Rejoins <= drops
    BY FS_CardinalityType DEF PlayerInv, PlayerTypeOK, ReplacedByDrops, Rejoins
  <2> QED BY <1>1, <1>5, <2>1 DEF ReplacedByDrops
<1> QED BY <1>6, <1>7, <1>8 DEF PlayerInv

LEMMA UnmountKept == ASSUME PlayerInv, Unmount PROVE PlayerInv'
<1>1. /\ view' = [view EXCEPT !.mounted = FALSE] /\ connection' = CloseSocket /\ player' = DestroyHls
      /\ UNCHANGED <<fetch, socketRef, hlsRef, replaced, late, drops>>
  BY DEF Unmount
<1>2. view' \in View /\ ~view'.mounted /\ view'.loading = view.loading
  BY <1>1 DEF PlayerInv, PlayerTypeOK, View
<1>3. connection' \in [Connections -> ConnectionState] /\ Open' = {}
  BY <1>1, AllClosed DEF Open
<1>4. player' \in [Players -> PlayerState] /\ Attached' = Attached \ {hlsRef}
  BY <1>1, AllClosed DEF Attached
<1>5. Rejoins' = 0
  BY <1>1, <1>4 DEF Rejoins
<1>6. PlayerTypeOK'
  BY <1>1, <1>2, <1>3, <1>4 DEF PlayerInv, PlayerTypeOK
<1>7. References' /\ LateIsGone' /\ NothingYet'
  BY <1>1, <1>2, <1>3, <1>4 DEF References, LateIsGone, NothingYet, PlayerInv
<1>8. ReplacedByDrops'
  <2>1. IsFiniteSet(replaced) /\ Cardinality(replaced) \in Nat /\ drops \in Nat /\ Rejoins \in {0, 1}
        /\ Cardinality(replaced) + Rejoins <= drops
    BY FS_CardinalityType DEF PlayerInv, PlayerTypeOK, ReplacedByDrops, Rejoins
  <2> QED BY <1>1, <1>5, <2>1 DEF ReplacedByDrops
<1> QED BY <1>6, <1>7, <1>8 DEF PlayerInv

LEMMA PlayerStep == ASSUME PlayerInv, [PlayerNext]_playerVars PROVE PlayerInv'
<1>1. CASE UNCHANGED playerVars
  <2>1. PlayerTypeOK'
    BY <1>1 DEF playerVars, PlayerInv, PlayerTypeOK
  <2> QED BY <1>1, <2>1, OnlyView DEF playerVars
<1>2. CASE Unmount
  BY <1>2, UnmountKept
<1>3. CASE PlayerNext /\ ~Unmount
  <2>1. view' \in View /\ view'.mounted = view.mounted
    BY <1>3, ViewKept DEF PlayerInv
  <2>2. CASE StreamUnavailable \/ \E recorded \in BOOLEAN : StreamHasEnded(recorded)
    <3>1. /\ UNCHANGED <<connection, socketRef, player, hlsRef, replaced, late, drops>>
          /\ fetch' = "done"
      BY <2>2 DEF StreamUnavailable, StreamHasEnded
    <3>2. PlayerTypeOK'
      BY <2>1, <3>1 DEF PlayerInv, PlayerTypeOK
    <3> QED BY <2>1, <3>1, <3>2, OnlyView
  <2>3. CASE (\E c \in Connections : StreamEnds(c)) \/ \E h \in Players : HlsFails(h)
    <3>1. /\ UNCHANGED <<fetch, connection, socketRef, player, hlsRef, replaced, late, drops>>
          /\ Open # {} \/ Attached # {}
      BY <2>3 DEF StreamEnds, HlsFails, Open, Attached
    <3>2. PlayerTypeOK'
      BY <2>1, <3>1 DEF PlayerInv, PlayerTypeOK
    <3> QED BY <2>1, <3>1, <3>2, OnlyView
  <2> QED BY <1>3, <2>1, <2>2, <2>3, ConnectionKept, JoinedKept, StreamIsLiveKept, ChangeRoomKept DEF PlayerNext
<1> QED BY <1>1, <1>2, <1>3

(* However rooms are changed and connections lost, the listener's page     *)
(* keeps one connection, leaves one open only if its stream arrived when   *)
(* it had gone, and loses a player only by a lost connection.              *)
THEOREM NothingLostCorrect == PlayerSpec => []NothingLost
<1>1. PlayerInv /\ [PlayerNext]_playerVars => PlayerInv'
  BY PlayerStep
<1>2. PlayerInv => NothingLost
  <2> SUFFICES ASSUME PlayerInv PROVE NothingLost
    OBVIOUS
  <2>1. Cardinality(replaced) \in Nat /\ drops \in Nat /\ Rejoins \in {0, 1}
        /\ Cardinality(replaced) + Rejoins <= drops
    BY FS_CardinalityType DEF PlayerInv, PlayerTypeOK, ReplacedByDrops, Rejoins
  <2>2. Cardinality(replaced) <= drops
    BY <2>1
  <2> QED BY <2>2 DEF PlayerInv, References, NothingLost
<1> QED BY <1>1, <1>2, PlayerInitial, PTL DEF PlayerSpec

-----------------------------------------------------------------------------
(* LiveAudio. *)

(* The chunks on their way are a chunk apart, behind those that wait, and  *)
(* those behind the ones that were scheduled.  A chunk on its way is young *)
(* by the time, one that waits by the clock of the context.                *)
ChunksApart ==
  /\ \A c \in wire \cup waiting : c + Chunk <= due /\ c <= now
  /\ \A c, d \in wire \cup waiting : c < d => c + Chunk <= d
  /\ \A c \in waiting : \A d \in wire : c < d
  /\ ~isFirstChunk => last + Chunk <= due /\ \A c \in wire \cup waiting : last + Chunk <= c

ChunksYoung ==
  /\ now <= due /\ currentTime <= now
  /\ \A c \in wire : now <= c + MaxDelay
  /\ \A c \in waiting : currentTime <= c + MaxDelay
  /\ context = "none" => waiting = {}

(* The schedule ends before the chunk after the last one may be late.      *)
ScheduleShort ==
  /\ ~isFirstChunk => nextPlayTime <= last + Chunk + MaxDelay + Lead
  /\ isFirstChunk => played = {}
  /\ \A p \in played : p.said <= last /\ p.start + Chunk <= nextPlayTime

AudioInv == AudioTypeOK /\ ChunksApart /\ ChunksYoung /\ ScheduleShort /\ HeardInTime

LEMMA AudioInitial == AudioInit => AudioInv
BY LiveAudioAssumption
   DEF AudioInit, AudioInv, AudioTypeOK, ChunksApart, ChunksYoung, ScheduleShort, HeardInTime

(* The parts that only a played chunk can change. *)
LEMMA ScheduleLasts ==
  AudioInv /\ UNCHANGED <<now, currentTime, scheduleVars>> => ScheduleShort' /\ HeardInTime'
BY DEF AudioInv, ScheduleShort, HeardInTime, scheduleVars

LEMMA RecordKeeps == AudioInv /\ RecordChunk => AudioInv'
<1> SUFFICES ASSUME AudioInv, RecordChunk PROVE AudioInv'
  OBVIOUS
<1> USE LiveAudioAssumption
<1>a. /\ now \in Nat /\ due \in Nat /\ wire \subseteq Nat /\ waiting \subseteq Nat /\ last \in Nat
      /\ wire' \subseteq wire \cup {due} /\ now = due /\ due' = due + Chunk
  BY DEF AudioInv, AudioTypeOK, RecordChunk
<1>b. UNCHANGED <<now, context, currentTime, waiting, nextPlayTime, isFirstChunk, last, played>>
  BY DEF RecordChunk, scheduleVars
<1>1. AudioTypeOK'
  BY <1>a, <1>b DEF AudioInv, AudioTypeOK
<1>2. ChunksApart'
  <2>1. \A c \in wire \cup waiting : c \in Nat /\ c + Chunk <= due /\ c <= now
    BY <1>a DEF AudioInv, ChunksApart
  <2>2. \A c \in wire' \cup waiting' : c \in wire \cup waiting \/ (c = due /\ c \in wire')
    BY <1>a, <1>b
  <2>3. \A c \in wire' \cup waiting' : c \in Nat /\ c + Chunk <= due' /\ c <= now'
    BY <1>a, <1>b, <2>1, <2>2
  <2>4. \A c, d \in wire' \cup waiting' : c < d => c + Chunk <= d
    BY <1>a, <1>b, <2>1, <2>2 DEF AudioInv, ChunksApart
  <2>5. \A c \in waiting' : \A d \in wire' : c < d
    BY <1>a, <1>b, <2>1 DEF AudioInv, ChunksApart
  <2>6. ~isFirstChunk' => last' + Chunk <= due' /\ \A c \in wire' \cup waiting' : last' + Chunk <= c
    BY <1>a, <1>b, <2>2 DEF AudioInv, ChunksApart
  <2> QED BY <2>3, <2>4, <2>5, <2>6 DEF ChunksApart
<1>3. ChunksYoung'
  BY <1>a, <1>b DEF AudioInv, AudioTypeOK, ChunksYoung
<1>4. ScheduleShort' /\ HeardInTime'
  BY <1>b, ScheduleLasts DEF scheduleVars
<1> QED BY <1>1, <1>2, <1>3, <1>4 DEF AudioInv

LEMMA ReceiveKeeps == ASSUME AudioInv, NEW c \in wire, ReceiveChunk(c) PROVE AudioInv'
<1> USE LiveAudioAssumption
<1>a. /\ now \in Nat /\ currentTime \in Nat /\ due \in Nat /\ wire \subseteq Nat /\ waiting \subseteq Nat
      /\ last \in Nat /\ c \in Nat /\ context \in {"none", "suspended", "running"}
  BY DEF AudioInv, AudioTypeOK
<1>b. /\ wire' = wire \ {c} /\ waiting' = waiting \cup {c}
      /\ context' \in {"suspended", "running"} /\ \A d \in wire : c <= d
  BY <1>a DEF ReceiveChunk
<1>c. UNCHANGED <<now, due, currentTime, nextPlayTime, isFirstChunk, last, played>>
  BY DEF ReceiveChunk, scheduleVars
<1>1. AudioTypeOK'
  BY <1>a, <1>b, <1>c DEF AudioInv, AudioTypeOK
<1>2. ChunksApart'
  <2>1. wire' \cup waiting' = wire \cup waiting
    BY <1>b
  <2>2. \A b \in waiting' : \A d \in wire' : b < d
    BY <1>a, <1>b DEF AudioInv, ChunksApart
  <2> QED BY <1>c, <2>1, <2>2 DEF AudioInv, ChunksApart
<1>3. ChunksYoung'
  BY <1>a, <1>b, <1>c DEF AudioInv, ChunksYoung
<1>4. ScheduleShort' /\ HeardInTime'
  BY <1>c, ScheduleLasts DEF scheduleVars
<1> QED BY <1>1, <1>2, <1>3, <1>4 DEF AudioInv

LEMMA ResumeKeeps == AudioInv /\ (ContextResumes \/ ContextSuspends) => AudioInv'
<1> SUFFICES ASSUME AudioInv, ContextResumes \/ ContextSuspends PROVE AudioInv'
  OBVIOUS
<1>1. /\ UNCHANGED <<now, due, wire, currentTime, waiting, nextPlayTime, isFirstChunk, last, played>>
      /\ context' \in {"suspended", "running"}
  BY DEF ContextResumes, ContextSuspends, scheduleVars
<1>2. AudioTypeOK' /\ ChunksApart' /\ ChunksYoung'
  BY <1>1 DEF AudioInv, AudioTypeOK, ChunksApart, ChunksYoung
<1>3. ScheduleShort' /\ HeardInTime'
  BY <1>1, ScheduleLasts DEF scheduleVars
<1> QED BY <1>2, <1>3 DEF AudioInv

(* The start of a chunk lies behind the schedule and within its reserve. *)
LEMMA StartBounded ==
  ASSUME AudioInv, NEW c \in waiting
  PROVE  /\ StartTime \in Nat
         /\ currentTime <= StartTime /\ StartTime <= c + MaxDelay + Lead
         /\ ~isFirstChunk => nextPlayTime <= StartTime
<1> USE LiveAudioAssumption DEF AudioInv, AudioTypeOK
<1>1. c \in Nat /\ currentTime <= c + MaxDelay
  BY DEF ChunksYoung
<1>2. CASE isFirstChunk \/ nextPlayTime < currentTime
  BY <1>1, <1>2 DEF StartTime
<1>3. CASE ~isFirstChunk /\ ~(nextPlayTime < currentTime)
  <2>1. StartTime = nextPlayTime
    BY <1>3 DEF StartTime
  <2>2. nextPlayTime <= last + Chunk + MaxDelay + Lead /\ last + Chunk <= c
    BY <1>3 DEF ScheduleShort, ChunksApart
  <2> QED BY <1>1, <1>3, <2>1, <2>2
<1> QED BY <1>2, <1>3

LEMMA PlayKeeps == ASSUME AudioInv, NEW c \in waiting, PlayChunk(c) PROVE AudioInv'
<1> USE LiveAudioAssumption
<1>1. /\ c \in Nat /\ wire \subseteq Nat /\ waiting \subseteq Nat /\ now \in Nat /\ currentTime \in Nat
      /\ due \in Nat /\ nextPlayTime \in Nat /\ last \in Nat
  BY DEF AudioInv, AudioTypeOK
<1>2. PICK s \in Nat : s = StartTime
  BY StartBounded
<1>3. currentTime <= s /\ s <= c + MaxDelay + Lead /\ (~isFirstChunk => nextPlayTime <= s)
  BY <1>2, StartBounded
<1>4. /\ waiting' = waiting \ {c} /\ played' = played \cup {[said |-> c, start |-> s]}
      /\ nextPlayTime' = s + Chunk /\ isFirstChunk' = FALSE /\ last' = c
      /\ UNCHANGED <<now, due, wire, context, currentTime>> /\ \A d \in waiting : c <= d
  BY <1>2 DEF PlayChunk
<1>5. AudioTypeOK'
  <2>1. [said |-> c, start |-> s] \in [said : Nat, start : Nat] /\ s + Chunk \in Nat
    BY <1>1
  <2>2. played \subseteq [said : Nat, start : Nat]
    BY DEF AudioInv, AudioTypeOK
  <2>3. played' \subseteq [said : Nat, start : Nat]
    BY <1>4, <2>1, <2>2
  <2> QED BY <1>1, <1>4, <2>1, <2>3 DEF AudioInv, AudioTypeOK
<1>6. ChunksApart'
  <2>1. \A d \in wire' \cup waiting' : d \in wire \cup waiting /\ d \in Nat /\ c < d /\ c + Chunk <= d
    <3>1. \A d \in waiting' : d \in waiting /\ c < d
      BY <1>1, <1>4
    <3>2. \A d \in wire' : d \in wire /\ c < d
      BY <1>4 DEF AudioInv, ChunksApart
    <3> QED BY <1>1, <3>1, <3>2 DEF AudioInv, ChunksApart
  <2>2. c + Chunk <= due
    BY DEF AudioInv, ChunksApart
  <2>3. /\ \A d \in wire' \cup waiting' : d + Chunk <= due' /\ d <= now'
        /\ \A d, e \in wire' \cup waiting' : d < e => d + Chunk <= e
    BY <1>4, <2>1 DEF AudioInv, ChunksApart
  <2>4. \A d \in waiting' : \A e \in wire' : d < e
    BY <1>4 DEF AudioInv, ChunksApart
  <2> QED BY <1>4, <2>1, <2>2, <2>3, <2>4 DEF ChunksApart
<1>7. ChunksYoung'
  BY <1>4 DEF AudioInv, ChunksYoung
<1>8. \A p \in played : p.said \in Nat /\ p.start \in Nat /\ p.said < c /\ p.start + Chunk <= s
  <2> SUFFICES ASSUME NEW p \in played
               PROVE  p.said \in Nat /\ p.start \in Nat /\ p.said < c /\ p.start + Chunk <= s
    OBVIOUS
  <2>1. p.said \in Nat /\ p.start \in Nat
    BY DEF AudioInv, AudioTypeOK
  <2>2. ~isFirstChunk /\ p.said <= last /\ p.start + Chunk <= nextPlayTime
    BY DEF AudioInv, AudioTypeOK, ScheduleShort
  <2>3. last + Chunk <= c
    BY <2>2 DEF AudioInv, ChunksApart
  <2> QED BY <1>1, <1>3, <2>1, <2>2, <2>3
<1>9. ScheduleShort'
  <2>1. \A p \in played' : p.said <= c /\ p.start + Chunk <= s + Chunk
    BY <1>1, <1>4, <1>8
  <2> QED BY <1>1, <1>3, <1>4, <2>1 DEF ScheduleShort
<1>10. HeardInTime'
  <2>1. c <= now /\ currentTime <= now
    BY DEF AudioInv, ChunksApart, ChunksYoung
  <2>2. c <= s + (now - currentTime)
    BY <1>1, <1>3, <2>1
  <2>3. \A p \in played' : p.said <= p.start + (now - currentTime) /\ p.start <= p.said + MaxDelay + Lead
    BY <1>3, <1>4, <2>2 DEF AudioInv, HeardInTime
  <2>4. \A p, q \in played' : p.said < q.said => p.start + Chunk <= q.start
    BY <1>1, <1>4, <1>8 DEF AudioInv, HeardInTime
  <2> QED BY <1>4, <2>3, <2>4 DEF HeardInTime
<1> QED BY <1>5, <1>6, <1>7, <1>9, <1>10 DEF AudioInv

LEMMA LoseKeeps == ASSUME AudioInv, NEW c \in wire, LoseChunk(c) PROVE AudioInv'
<1>1. /\ UNCHANGED <<now, due, context, currentTime, waiting, nextPlayTime, isFirstChunk, last, played>>
      /\ wire' \subseteq wire
  BY DEF LoseChunk, scheduleVars
<1>2. AudioTypeOK'
  BY <1>1 DEF AudioInv, AudioTypeOK
<1>3. ChunksApart'
  BY <1>1 DEF AudioInv, ChunksApart
<1>4. ChunksYoung'
  BY <1>1 DEF AudioInv, ChunksYoung
<1>5. ScheduleShort' /\ HeardInTime'
  BY <1>1, ScheduleLasts DEF scheduleVars
<1> QED BY <1>2, <1>3, <1>4, <1>5 DEF AudioInv

LEMMA PassTimeKeeps == AudioInv /\ PassTime => AudioInv'
<1> SUFFICES ASSUME AudioInv, PassTime PROVE AudioInv'
  OBVIOUS
<1> USE LiveAudioAssumption
<1>a. /\ now \in Nat /\ currentTime \in Nat /\ due \in Nat /\ wire \subseteq Nat /\ waiting \subseteq Nat
      /\ context \in {"none", "suspended", "running"} /\ played \subseteq [said : Nat, start : Nat]
  BY DEF AudioInv, AudioTypeOK
<1>b. /\ UNCHANGED <<due, wire, context, waiting, nextPlayTime, isFirstChunk, last, played>>
      /\ now' = now + 1 /\ now < due /\ \A c \in wire : now < c + MaxDelay
      /\ currentTime' \in {currentTime, currentTime + 1}
      /\ context = "running" => waiting = {}
      /\ context = "suspended" => currentTime' = currentTime
  BY DEF PassTime, Settled, scheduleVars
<1>1. AudioTypeOK'
  BY <1>a, <1>b DEF AudioInv, AudioTypeOK
<1>2. ChunksApart'
  BY <1>a, <1>b DEF AudioInv, ChunksApart
<1>3. ChunksYoung'
  <2>1. currentTime' <= now' /\ now' <= due'
    BY <1>a, <1>b DEF AudioInv, ChunksYoung
  <2>2. \A c \in waiting' : currentTime' <= c + MaxDelay
    BY <1>a, <1>b DEF AudioInv, ChunksYoung
  <2> QED BY <1>a, <1>b, <2>1, <2>2 DEF AudioInv, ChunksYoung
<1>4. ScheduleShort'
  BY <1>b DEF AudioInv, ScheduleShort
<1>5. HeardInTime'
  <2>1. now - currentTime <= now' - currentTime'
    <3>1. now' = now + 1 /\ (currentTime' = currentTime \/ currentTime' = currentTime + 1)
      BY <1>b
    <3> QED BY <1>a, <3>1
  <2>2. \A p \in played : p.said \in Nat /\ p.start \in Nat
    BY <1>a
  <2>3. \A p \in played : p.said <= p.start + (now' - currentTime')
    BY <1>a, <1>b, <2>1, <2>2 DEF AudioInv, HeardInTime
  <2> QED BY <1>b, <2>3 DEF AudioInv, HeardInTime
<1> QED BY <1>1, <1>2, <1>3, <1>4, <1>5 DEF AudioInv

LEMMA AudioIdle == AudioInv /\ UNCHANGED audioVars => AudioInv'
BY DEF audioVars, AudioInv, AudioTypeOK, ChunksApart, ChunksYoung, ScheduleShort, HeardInTime

LEMMA AudioInductive == AudioSpec => []AudioInv
<1>1. AudioInv /\ [AudioNext]_audioVars => AudioInv'
  BY RecordKeeps, ReceiveKeeps, ResumeKeeps, PlayKeeps, LoseKeeps, PassTimeKeeps, AudioIdle DEF AudioNext
<1> QED BY AudioInitial, <1>1, PTL DEF AudioSpec

(* Chunks sound in order and without overlap, and on the clock of the      *)
(* context a chunk starts at most MaxDelay and the reserve after it was    *)
(* recorded, so that only the time the context was suspended is added to   *)
(* that; for every length of a chunk, every delay and any number of chunks *)
(* and suspensions (LivePlayerPage.tsx, lines 240-242 and 265-273).        *)
THEOREM HeardInTimeCorrect == AudioSpec => []HeardInTime
<1>1. AudioInv => HeardInTime
  BY DEF AudioInv
<1> QED BY AudioInductive, <1>1, PTL
===============================================================================
