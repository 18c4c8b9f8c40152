----------------------------- MODULE ResponseCache -----------------------------
(***************************************************************************)
(* What readers get through the cache.  HttpCacheInterceptor keeps the     *)
(* response of a GET under the url and the user, RssService the feed of a  *)
(* podcast: both look for an entry, read the database when there is none   *)
(* and store what they read in another step.  Nothing the application does *)
(* to the data deletes an entry; it expires.                               *)
(***************************************************************************)
EXTENDS Naturals

CONSTANTS
  CacheKeys,    \* a url and a user, or a feed
  Readers,      \* identities for the requests in flight (bounds them)
  Ttl,          \* the time to live of an entry, in ticks of the clock
  Latency,      \* how long a request takes at most
  MaxChanges,   \* bounds the changes of the data
  MaxClock,     \* bounds the clock
  Missing

ASSUME ResponseCacheAssumption ==
  Ttl \in Nat /\ Latency \in Nat /\ MaxChanges \in Nat /\ MaxClock \in Nat /\ Missing \notin Nat

VARIABLES
  clock,    \* the time
  version,  \* the version of the data behind all keys
  until,    \* when a version was replaced by the next
  entry,    \* what the cache keeps under a key
  reader,   \* the requests in flight
  shown     \* the version a key's reader got last, and when

cacheVars == <<clock, version, until, entry, reader, shown>>

Version == 0..MaxChanges
Entry == [version : Version, expires : Nat]
Reader == [pc : {"idle", "handle", "respond", "store"}, key : CacheKeys,
           version : Version, since : Nat]

Live(k) == entry[k] # Missing /\ clock < entry[k].expires

(* A version shown at a time was current at most age before.               *)
FreshWithin(v, time, age) == v = version \/ time <= until[v] + age

-----------------------------------------------------------------------------
(* Mutation: a hit is stored again. *)
RenewOnHit(r, k) ==
  /\ reader[r].pc = "idle" /\ Live(k)
  /\ entry' = [entry EXCEPT ![k].expires = clock + Ttl]
  /\ shown' = [shown EXCEPT ![k] = [version |-> entry[k].version, at |-> clock]]
  /\ UNCHANGED <<clock, version, until, reader>>

-----------------------------------------------------------------------------
Hit(r, k) ==
  /\ reader[r].pc = "idle" /\ Live(k)
  /\ shown' = [shown EXCEPT ![k] = [version |-> entry[k].version, at |-> clock]]
  /\ UNCHANGED <<clock, version, until, entry, reader>>

Miss(r, k) ==
  /\ reader[r].pc = "idle" /\ ~Live(k)
  /\ reader' = [reader EXCEPT ![r] = [pc |-> "handle", key |-> k, version |-> 0, since |-> clock]]
  /\ UNCHANGED <<clock, version, until, entry, shown>>

(* The handler reads the database. *)
Handle(r) ==
  /\ reader[r].pc = "handle"
  /\ reader' = [reader EXCEPT ![r].version = version, ![r].pc = "respond"]
  /\ UNCHANGED <<clock, version, until, entry, shown>>

(* The interceptor does not wait for its entry, RssService does. *)
Respond(r) ==
  /\ reader[r].pc = "respond"
  /\ shown' = [shown EXCEPT ![reader[r].key] = [version |-> reader[r].version, at |-> clock]]
  /\ reader' = [reader EXCEPT ![r].pc = "store"]
  /\ UNCHANGED <<clock, version, until, entry>>

Store(r) ==
  /\ reader[r].pc = "store"
  /\ entry' = [entry EXCEPT ![reader[r].key] = [version |-> reader[r].version, expires |-> clock + Ttl]]
  /\ reader' = [reader EXCEPT ![r].pc = "idle"]
  /\ UNCHANGED <<clock, version, until, shown>>

(* A handler without a response, or an error. *)
NoResponse(r) ==
  /\ reader[r].pc = "handle"
  /\ reader' = [reader EXCEPT ![r].pc = "idle"]
  /\ UNCHANGED <<clock, version, until, entry, shown>>

(* The memory store drops an entry, or the server restarts. *)
Evict(k) ==
  /\ entry[k] # Missing
  /\ entry' = [entry EXCEPT ![k] = Missing]
  /\ UNCHANGED <<clock, version, until, reader, shown>>

(* A write of any service. *)
ChangeData ==
  /\ version < MaxChanges
  /\ version' = version + 1
  /\ until' = [until EXCEPT ![version] = clock]
  /\ UNCHANGED <<clock, entry, reader, shown>>

Tick ==
  /\ clock < MaxClock
  /\ \A r \in Readers : reader[r].pc = "idle" \/ clock < reader[r].since + Latency
  /\ clock' = clock + 1
  /\ UNCHANGED <<version, until, entry, reader, shown>>

CacheNext ==
  \/ \E r \in Readers, k \in CacheKeys : Hit(r, k) \/ Miss(r, k)
  \/ \E r \in Readers : Handle(r) \/ Respond(r) \/ Store(r) \/ NoResponse(r)
  \/ \E k \in CacheKeys : Evict(k)
  \/ ChangeData \/ Tick

CacheInit ==
  /\ clock = 0 /\ version = 0
  /\ until = [v \in Version |-> 0]
  /\ entry = [k \in CacheKeys |-> Missing]
  /\ reader \in [Readers -> {[pc |-> "idle", key |-> k, version |-> 0, since |-> 0] : k \in CacheKeys}]
  /\ shown = [k \in CacheKeys |-> [version |-> 0, at |-> 0]]

CacheSpec == CacheInit /\ [][CacheNext]_cacheVars

-----------------------------------------------------------------------------
(* Entries and requests keep their shape. *)
CacheTypeOK ==
  /\ clock \in Nat /\ version \in Version
  /\ until \in [Version -> Nat]
  /\ entry \in [CacheKeys -> Entry \cup {Missing}]
  /\ reader \in [Readers -> Reader]
  /\ shown \in [CacheKeys -> [version : Version, at : Nat]]

(* Nothing deletes entries, and a request may store what it read long      *)
(* before; still nobody is shown data that was replaced longer ago than    *)
(* the time to live and the duration of one request.                       *)
StaleBounded ==
  \A k \in CacheKeys : FreshWithin(shown[k].version, shown[k].at, Ttl + Latency)
===============================================================================
