----------------------------- MODULE PushDelivery -----------------------------
(***************************************************************************)
(* Devices, push settings and push messages of one tenant (PushService     *)
(* with the FirebaseProvider).  A request is one step per database call or *)
(* call of the provider; requests overlap, and any of these calls may      *)
(* fail, which ends the request there, or the server may go down in it.    *)
(***************************************************************************)
EXTENDS Naturals, FiniteSets

CONSTANTS
  Tokens,     \* device tokens; the row of one is unique
  Listeners,  \* users
  PushCalls,  \* identities for the requests in flight (bounds them)
  Pushes,     \* ids of push messages, never used twice (bounds them)
  Nobody      \* no user, no push

ASSUME PushDeliveryAssumption ==
  Nobody \notin Listeners \cup Pushes /\ IsFiniteSet(Tokens)

VARIABLES
  device,    \* the UserDevice rows by their token
  settings,  \* UserPushSettings.enablePush
  log,       \* the PushNotificationLog rows
  pushCall,  \* the requests in flight
  received,  \* the devices that got a push
  failed     \* history: users and pushes with a request that failed
             \* on the way, in a call or with the server

pushVars == <<device, settings, log, pushCall, received, failed>>

Device == [user : Listeners \cup {Nobody}, active : BOOLEAN]
Log == [status : {"none", "PENDING", "QUEUED", "SENT", "FAILED"}, success : Nat, failure : Nat]
PushCall == [pc : {"idle", "find_settings", "create_settings", "update_settings",
                   "read_devices", "send", "write_log"},
             op : {"register", "settings", "send"},
             user : Listeners \cup {Nobody}, push : Pushes \cup {Nobody}, tokens : SUBSET Tokens,
             acknowledged : SUBSET Tokens, error : BOOLEAN]

NoPushCall == [pc |-> "idle", op |-> "register", user |-> Nobody, push |-> Nobody,
               tokens |-> {}, acknowledged |-> {}, error |-> FALSE]

-----------------------------------------------------------------------------
Pc(c, pc) == pushCall[c].pc = pc
Advance(c, pc) == pushCall' = [pushCall EXCEPT ![c].pc = pc]
EndCall(c) == pushCall' = [pushCall EXCEPT ![c] = NoPushCall]
PushStart(c, op, pc, u) ==
  /\ Pc(c, "idle")
  /\ pushCall' = [pushCall EXCEPT ![c] = [NoPushCall EXCEPT !.pc = pc, !.op = op, !.user = u]]

(* Mutation: only the first registration of a token looks for settings. *)
RegisterNew(c, t, u) ==
  /\ IF device[t].user = Nobody
       THEN PushStart(c, "register", "find_settings", u)
       ELSE Pc(c, "idle") /\ UNCHANGED pushCall
  /\ device' = [device EXCEPT ![t] = [user |-> u, active |-> TRUE]]
  /\ UNCHANGED <<settings, log, received, failed>>

(* Mutation: an answer of the provider is a success. *)
AnyAnswer(c) == TRUE

-----------------------------------------------------------------------------
RegisterDevice(c, t, u) ==
  /\ PushStart(c, "register", "find_settings", u)
  /\ device' = [device EXCEPT ![t] = [user |-> u, active |-> TRUE]]
  /\ UNCHANGED <<settings, log, received, failed>>

(* By the id of the row, whoever owns it now. *)
UnregisterDevice(t) ==
  /\ device[t].user # Nobody
  /\ device' = [device EXCEPT ![t].active = FALSE]
  /\ UNCHANGED <<settings, log, pushCall, received, failed>>

UpdatePushSettings(c, u) ==
  /\ PushStart(c, "settings", "find_settings", u)
  /\ UNCHANGED <<device, settings, log, received, failed>>

(* ensurePushSettings, for both callers. *)
FindSettings(c) ==
  /\ Pc(c, "find_settings")
  /\ IF settings[pushCall[c].user] = "none" THEN Advance(c, "create_settings")
     ELSE IF pushCall[c].op = "settings" THEN Advance(c, "update_settings")
     ELSE EndCall(c)
  /\ UNCHANGED <<device, settings, log, received, failed>>

(* userId is unique: the request that comes second fails. *)
CreateSettings(c) ==
  LET u == pushCall[c].user IN
  /\ Pc(c, "create_settings")
  /\ settings' = [settings EXCEPT ![u] = IF @ = "none" THEN "on" ELSE @]
  /\ IF settings[u] = "none" /\ pushCall[c].op = "settings" THEN Advance(c, "update_settings") ELSE EndCall(c)
  /\ UNCHANGED <<device, log, received, failed>>

WriteSettings(c) ==
  /\ Pc(c, "update_settings")
  /\ \E choice \in {"on", "off"} : settings' = [settings EXCEPT ![pushCall[c].user] = choice]
  /\ EndCall(c)
  /\ UNCHANGED <<device, log, received, failed>>

(* A push that is scheduled for later stays in its log. *)
SendPush(c, p, scheduled) ==
  /\ log[p].status = "none" /\ Pc(c, "idle")
  /\ log' = [log EXCEPT ![p].status = IF scheduled = "not" THEN "PENDING" ELSE "QUEUED"]
  /\ pushCall' = IF scheduled = "later" THEN pushCall
                  ELSE [pushCall EXCEPT ![c] = [NoPushCall EXCEPT !.pc = "read_devices", !.op = "send", !.push = p]]
  /\ UNCHANGED <<device, settings, received, failed>>

(* The devices of all users, or of some. *)
Reachable(users) ==
  {t \in Tokens : device[t].active /\ device[t].user \in users /\ settings[device[t].user] = "on"}

ReadDevices(c) ==
  /\ Pc(c, "read_devices")
  /\ \E users \in SUBSET Listeners :
       pushCall' = [pushCall EXCEPT ![c].tokens = Reachable(users),
                                    ![c].pc = IF Reachable(users) = {} THEN "write_log" ELSE "send"]
  /\ UNCHANGED <<device, settings, log, received, failed>>

(* Each device is a request of its own; its answer may get lost. *)
SendToDevices(c) ==
  /\ Pc(c, "send")
  /\ \E got \in SUBSET pushCall[c].tokens : \E answered \in SUBSET got :
       /\ received' = [received EXCEPT ![pushCall[c].push] = got]
       /\ pushCall' = [pushCall EXCEPT ![c].acknowledged = answered, ![c].pc = "write_log"]
  /\ UNCHANGED <<device, settings, log, failed>>

(* The provider is not configured, or refuses its credentials. *)
ProviderFails(c) ==
  /\ Pc(c, "read_devices") \/ Pc(c, "send")
  /\ pushCall' = [pushCall EXCEPT ![c].tokens = {}, ![c].error = TRUE, ![c].pc = "write_log"]
  /\ UNCHANGED <<device, settings, log, received, failed>>

(* success of the SendResult. *)
Succeeded(c) == ~pushCall[c].error /\ (pushCall[c].tokens = {} \/ pushCall[c].acknowledged # {})

WriteLog(c) ==
  LET call == pushCall[c] IN
  /\ Pc(c, "write_log")
  /\ log' = [log EXCEPT ![call.push] =
       [status |-> IF Succeeded(c) THEN "SENT" ELSE "FAILED",
        success |-> Cardinality(call.acknowledged),
        failure |-> Cardinality(call.tokens \ call.acknowledged)]]
  /\ EndCall(c)
  /\ UNCHANGED <<device, settings, received, failed>>

(* A call of the database or of the provider throws: nobody catches it.    *)
CallFails(c) ==
  /\ ~Pc(c, "idle")
  /\ EndCall(c)
  /\ failed' = failed \cup {pushCall[c].user, pushCall[c].push}
  /\ UNCHANGED <<device, settings, log, received>>

(* The server goes down. *)
PushCrash ==
  /\ pushCall' = [c \in PushCalls |-> NoPushCall]
  /\ failed' = failed \cup {pushCall[c].user : c \in PushCalls}
                    \cup {pushCall[c].push : c \in PushCalls}
  /\ UNCHANGED <<device, settings, log, received>>

PushNext ==
  \/ \E c \in PushCalls :
       \/ \E u \in Listeners : UpdatePushSettings(c, u)
       \/ \E t \in Tokens, u \in Listeners : RegisterDevice(c, t, u)
       \/ FindSettings(c) \/ CreateSettings(c) \/ WriteSettings(c)
       \/ \E p \in Pushes, scheduled \in {"not", "past", "later"} : SendPush(c, p, scheduled)
       \/ ReadDevices(c) \/ SendToDevices(c) \/ ProviderFails(c) \/ WriteLog(c) \/ CallFails(c)
  \/ \E t \in Tokens : UnregisterDevice(t)
  \/ PushCrash

PushInit ==
  /\ device = [t \in Tokens |-> [user |-> Nobody, active |-> FALSE]]
  /\ settings = [u \in Listeners |-> "none"]
  /\ log = [p \in Pushes |-> [status |-> "none", success |-> 0, failure |-> 0]]
  /\ pushCall = [c \in PushCalls |-> NoPushCall]
  /\ received = [p \in Pushes |-> {}]
  /\ failed = {}

PushSpec == PushInit /\ [][PushNext]_pushVars

-----------------------------------------------------------------------------
(* Rows and requests keep their shape. *)
PushTypeOK ==
  /\ device \in [Tokens -> Device]
  /\ settings \in [Listeners -> {"none", "on", "off"}]
  /\ log \in [Pushes -> Log]
  /\ pushCall \in [PushCalls -> PushCall]
  /\ received \in [Pushes -> SUBSET Tokens]
  /\ failed \subseteq Listeners \cup {Nobody} \cup Pushes

(* A device is sent nothing unless its owner has settings.  The row of the *)
(* device comes first, the settings in another call and only if they are   *)
(* missing; tokens change hands, and of two requests that find them        *)
(* missing one fails.  Still every owner has them once his requests are    *)
(* over, unless one of them failed on the way: the row of the device stays *)
(* then, and only his next request makes up for it.                        *)
DevicesReachable ==
  \A t \in Tokens :
    LET u == device[t].user IN
    (u # Nobody /\ u \notin failed /\ settings[u] = "none") =>
      \E c \in PushCalls : pushCall[c].user = u /\ pushCall[c].pc \in {"find_settings", "create_settings"}

(* The log of a push says SENT only if somebody got it or nobody was to,   *)
(* counts no success that did not happen, and stays PENDING only while its *)
(* request runs or because a call of it failed: sendPush has no try, so a  *)
(* failing query or update of the log leaves it so for good.               *)
LogsTruthful ==
  \A p \in Pushes :
    /\ log[p].status = "SENT" => (received[p] # {} \/ log[p].success + log[p].failure = 0)
    /\ log[p].success <= Cardinality(received[p])
    /\ log[p].status = "PENDING" => (p \in failed \/ \E c \in PushCalls : pushCall[c].push = p)
===============================================================================
