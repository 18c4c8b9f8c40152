------------------------------ MODULE PhoneCodes ------------------------------
(***************************************************************************)
(* One-time codes sent to a phone.  PhoneAuthService lets administrators   *)
(* and teachers log in with one, HocaApplicationService verifies the phone *)
(* of an applicant with one.  Both store the codes in one table, in rows   *)
(* of different types, and run through the same database calls, without    *)
(* transaction: requests for one phone overlap.                            *)
(*                                                                         *)
(* A code is known by the id of its row: who types the right code types    *)
(* the id, Unknown stands for any wrong one.                               *)
(***************************************************************************)
EXTENDS Naturals, FiniteSets

CONSTANTS
  Numbers,      \* phone numbers
  Codes,        \* ids of rows, never used twice (bounds the codes)
  CodeCalls,    \* identities for the requests in flight (bounds them)
  MaxAttempts,  \* settings.maxAttempts
  Cooldown,     \* settings.resendCooldown, in ticks of the clock
  Expiry,       \* settings.otpExpiryMins, in ticks of the clock
  MaxTime,      \* bounds the clock
  Unknown       \* no phone, no row, and any code that is wrong

ASSUME PhoneCodesAssumption ==
  /\ IsFiniteSet(Codes)
  /\ IsFiniteSet(CodeCalls)
  /\ CodeCalls # {}
  /\ MaxAttempts \in Nat \ {0}
  /\ Cooldown \in Nat
  /\ Expiry \in Nat
  /\ MaxTime \in Nat
  /\ Unknown \notin Numbers \cup Codes

VARIABLES
  now,       \* the time
  codes,     \* the OtpVerification rows by their id
  accounts,  \* phones of active administrators and teachers
  sms,       \* the codes whose message was delivered
  codeCall   \* the requests in flight

codesVars == <<now, codes, accounts, sms, codeCall>>

Types == {"ADMIN_LOGIN", "PHONE_VERIFY"}

(* A row that does not exist yet is "none", one that was deleted "deleted". *)
Code == [state : {"none", "stored", "deleted"}, phone : Numbers \cup {Unknown}, type : Types,
         attempts : Nat, verified : BOOLEAN, created : Nat, expires : Nat]

(* code: the row the call works on; typed: what the holder typed. *)
CodeCall == [pc : {"idle", "find_recent", "delete_old", "create", "send",
                   "find_code", "delete_code", "increment", "mark"},
             phone : Numbers \cup {Unknown}, type : Types,
             code : Codes \cup {Unknown}, typed : Codes \cup {Unknown}]

NoCode == [state |-> "none", phone |-> Unknown, type |-> "ADMIN_LOGIN",
           attempts |-> 0, verified |-> FALSE, created |-> 0, expires |-> 0]
DeletedCode == [NoCode EXCEPT !.state = "deleted"]
NoCodeCall == [pc |-> "idle", phone |-> Unknown, type |-> "ADMIN_LOGIN", code |-> Unknown, typed |-> Unknown]

-----------------------------------------------------------------------------
StoredCodes(p, t) == {k \in Codes : codes[k].state = "stored" /\ codes[k].phone = p /\ codes[k].type = t}

(* Who may ask for a code: an administrator or teacher for a login, anybody *)
(* else for an application.                                                 *)
MayAsk(p, t) == (t = "ADMIN_LOGIN") <=> (p \in accounts)

At(c, pc) == codeCall[c].pc = pc
GotoCode(c, pc) == codeCall' = [codeCall EXCEPT ![c].pc = pc]
GotoWith(c, pc, k) == codeCall' = [codeCall EXCEPT ![c].pc = pc, ![c].code = k]
EndCode(c) == codeCall' = [codeCall EXCEPT ![c] = NoCodeCall]

-----------------------------------------------------------------------------
(* Mutations: bugs the runs must notice; none is part of the specification. *)

(* Only codes that have expired are deleted. *)
DeleteOldExpired(c) ==
  LET r == codeCall[c] IN
  /\ At(c, "delete_old")
  /\ codes' = [k \in Codes |->
       IF k \in StoredCodes(r.phone, r.type) /\ codes[k].expires < now
         THEN DeletedCode ELSE codes[k]]
  /\ GotoCode(c, "create")
  /\ UNCHANGED <<now, accounts, sms>>

(* One attempt too many. *)
ExhaustedLate(k) == codes[k].attempts > MaxAttempts

-----------------------------------------------------------------------------
(* sendOtp, sendVerificationCode. *)

SendOtp(c, p, t) ==
  /\ At(c, "idle")
  /\ MayAsk(p, t)
  /\ codeCall' = [codeCall EXCEPT ![c] = [NoCodeCall EXCEPT !.pc = "find_recent", !.phone = p, !.type = t]]
  /\ UNCHANGED <<now, codes, accounts, sms>>

(* Too early for another code. *)
FindRecent(c) ==
  LET r == codeCall[c] IN
  /\ At(c, "find_recent")
  /\ IF \E k \in StoredCodes(r.phone, r.type) : codes[k].created + Cooldown >= now
       THEN EndCode(c)
       ELSE GotoCode(c, "delete_old")
  /\ UNCHANGED <<now, codes, accounts, sms>>

DeleteOld(c) ==
  LET r == codeCall[c] IN
  /\ At(c, "delete_old")
  /\ codes' = [k \in Codes |->
       IF k \in StoredCodes(r.phone, r.type) THEN DeletedCode ELSE codes[k]]
  /\ GotoCode(c, "create")
  /\ UNCHANGED <<now, accounts, sms>>

CreateCode(c) ==
  LET r == codeCall[c] IN
  /\ At(c, "create")
  /\ \E k \in Codes :
       /\ codes[k].state = "none"
       /\ codes' = [codes EXCEPT ![k] =
            [state |-> "stored", phone |-> r.phone, type |-> r.type, attempts |-> 0,
             verified |-> FALSE, created |-> now, expires |-> now + Expiry]]
       /\ GotoWith(c, "send", k)
  /\ UNCHANGED <<now, accounts, sms>>

(* The provider delivers the message or it does not; the row stays. *)
SendSms(c) ==
  /\ At(c, "send")
  /\ sms' \in {sms, sms \cup {codeCall[c].code}}
  /\ EndCode(c)
  /\ UNCHANGED <<now, codes, accounts>>

-----------------------------------------------------------------------------
(* verifyOtpAndLogin, verifyCode. *)

VerifyOtp(c, p, t, typed) ==
  /\ At(c, "idle")
  /\ codeCall' = [codeCall EXCEPT ![c] =
       [NoCodeCall EXCEPT !.pc = "find_code", !.phone = p, !.type = t, !.typed = typed]]
  /\ UNCHANGED <<now, codes, accounts, sms>>

Exhausted(k) == codes[k].attempts >= MaxAttempts

(* Any row that is valid, and the comparison of its hash with what was     *)
(* typed; the number of attempts is the one of this read.                  *)
FindCode(c) ==
  LET r == codeCall[c]
      valid == {k \in StoredCodes(r.phone, r.type) : ~codes[k].verified /\ codes[k].expires >= now} IN
  /\ At(c, "find_code")
  /\ \/ valid = {} /\ EndCode(c)
     \/ \E k \in valid : GotoWith(c, IF Exhausted(k) THEN "delete_code"
                                     ELSE IF r.typed = k THEN "mark" ELSE "increment", k)
  /\ UNCHANGED <<now, codes, accounts, sms>>

(* An update or delete of a row that is gone fails, and so does the call. *)
DeleteCode(c) ==
  LET k == codeCall[c].code IN
  /\ At(c, "delete_code")
  /\ codes' = IF codes[k].state = "stored" THEN [codes EXCEPT ![k] = DeletedCode] ELSE codes
  /\ EndCode(c)
  /\ UNCHANGED <<now, accounts, sms>>

Increment(c) ==
  LET k == codeCall[c].code IN
  /\ At(c, "increment")
  /\ codes' = IF codes[k].state = "stored" THEN [codes EXCEPT ![k].attempts = @ + 1] ELSE codes
  /\ EndCode(c)
  /\ UNCHANGED <<now, accounts, sms>>

(* What follows is the sign-in, or the token of the applicant. *)
MarkVerified(c) ==
  LET k == codeCall[c].code IN
  /\ At(c, "mark")
  /\ codes' = IF codes[k].state = "stored" THEN [codes EXCEPT ![k].verified = TRUE] ELSE codes
  /\ EndCode(c)
  /\ UNCHANGED <<now, accounts, sms>>

-----------------------------------------------------------------------------
(* A database call fails or the process stops. *)
CodeCallFails(c) ==
  /\ ~At(c, "idle")
  /\ EndCode(c)
  /\ UNCHANGED <<now, codes, accounts, sms>>

(* The approval of an application or the deactivation of an account. *)
AccountChanges(p) ==
  /\ accounts' = IF p \in accounts THEN accounts \ {p} ELSE accounts \cup {p}
  /\ UNCHANGED <<now, codes, sms, codeCall>>

Tick ==
  /\ now < MaxTime
  /\ now' = now + 1
  /\ UNCHANGED <<codes, accounts, sms, codeCall>>

(* A holder types a code he received, or a wrong one, as is one of a row   *)
(* that was deleted.                                                       *)
Typeable == {k \in sms : codes[k].state = "stored"} \cup {Unknown}

CodesNext ==
  \/ \E c \in CodeCalls :
       \/ \E p \in Numbers, t \in Types : SendOtp(c, p, t)
       \/ \E p \in Numbers, t \in Types, typed \in Typeable : VerifyOtp(c, p, t, typed)
       \/ FindRecent(c) \/ DeleteOld(c) \/ CreateCode(c) \/ SendSms(c)
       \/ FindCode(c) \/ DeleteCode(c) \/ Increment(c) \/ MarkVerified(c)
       \/ CodeCallFails(c)
  \/ \E p \in Numbers : AccountChanges(p)
  \/ Tick

CodesInit ==
  /\ now = 0
  /\ codes = [k \in Codes |-> NoCode]
  /\ accounts \in SUBSET Numbers
  /\ sms = {}
  /\ codeCall = [c \in CodeCalls |-> NoCodeCall]

CodesSpec == CodesInit /\ [][CodesNext]_codesVars

-----------------------------------------------------------------------------
(* Properties.                                                             *)

(* Type invariant; a call has a phone, one that works on a row has that. *)
CodesTypeOK ==
  /\ now \in Nat
  /\ codes \in [Codes -> Code]
  /\ accounts \subseteq Numbers
  /\ sms \subseteq Codes
  /\ codeCall \in [CodeCalls -> CodeCall]
  /\ \A c \in CodeCalls :
       /\ ~At(c, "idle") => codeCall[c].phone \in Numbers
       /\ codeCall[c].pc \in {"send", "delete_code", "increment", "mark"} => codeCall[c].code \in Codes

Creating(p, t) == {c \in CodeCalls : At(c, "create") /\ codeCall[c].phone = p /\ codeCall[c].type = t}

(* sendOtp deletes the old codes and inserts the new one in two calls, and *)
(* looks for recent ones in a third: two requests may leave two codes, of  *)
(* which verifyOtp takes any.  There are never more than requests overlap, *)
(* exactly one if they do not.                                             *)
CodesBounded ==
  \A p \in Numbers, t \in Types :
    Cardinality(StoredCodes(p, t)) + Cardinality(Creating(p, t)) <= Cardinality(CodeCalls)

Incrementing(k) == {c \in CodeCalls : At(c, "increment") /\ codeCall[c].code = k}

(* The attempts of a code are read, compared with maxAttempts and counted  *)
(* two calls later: more attempts than maxAttempts are possible, by fewer  *)
(* than requests can overlap.                                              *)
AttemptsBounded ==
  \A k \in Codes :
    codes[k].attempts + Cardinality(Incrementing(k)) <= MaxAttempts + Cardinality(CodeCalls) - 1
===============================================================================
